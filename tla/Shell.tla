-------------------------------- MODULE Shell -------------------------------
(***************************************************************************)
(* The shell, user/sh.c: the recursive-descent parser, and the processes   *)
(* that runcmd() makes of a command, with init (user/init.c) above them.   *)
(* A line is a sequence of tokens as gettoken() returns them, "a" for any  *)
(* word and "+" for >>.  A program either reads its standard input to the  *)
(* end or does not; pipes are modelled by who holds their ends.            *)
(***************************************************************************)
EXTENDS Integers, Sequences, FiniteSets, SequencesExt, FiniteSetsExt

CONSTANTS MAXARGS,
          NPROCS,   \* processes; fork() fails when all are in use
          NFDS      \* file descriptors of a process

VARIABLES
  line,      \* the line given to parsecmd() (a case of the parser)
  input,     \* the lines the shell has yet to read
  task,      \* task[p]: [st, at, parent, cmd, fds, bg]
  starved    \* a fork() has failed (history)

shellVars == <<line, input, task, starved>>

-----------------------------------------------------------------------------
(* The constructors.                                                       *)
execcmd(argc) == [type |-> "EXEC", argc |-> argc]
redircmd(cmd, tok) == [type |-> "REDIR", cmd |-> cmd, tok |-> tok, fd |-> IF tok = "<" THEN 0 ELSE 1]
pipecmd(left, right) == [type |-> "PIPE", left |-> left, right |-> right]
listcmd(left, right) == [type |-> "LIST", left |-> left, right |-> right]
backcmd(cmd) == [type |-> "BACK", cmd |-> cmd]

Specials == {"|", ")", "&", ";"}
RedirToks == {"<", ">", "+"}
peek(s, toks) == s # <<>> /\ s[1] \in toks
From(s, n) == SubSeq(s, n, Len(s))

Parsed(cmd, s) == [ok |-> TRUE, cmd |-> cmd, rest |-> s]
Syntax == [ok |-> FALSE, cmd |-> execcmd(0), rest |-> <<>>]

RECURSIVE parseredirs(_, _)
parseredirs(cmd, s) ==
  IF ~peek(s, RedirToks) THEN Parsed(cmd, s)
  ELSE IF peek(Tail(s), {"a"}) THEN parseredirs(redircmd(cmd, s[1]), From(s, 3))
  ELSE Syntax

(* parseexec() goes on filling its execcmd after it was wrapped.           *)
RECURSIVE WithArg(_)
WithArg(cmd) == IF cmd.type = "EXEC" THEN execcmd(cmd.argc + 1) ELSE [cmd EXCEPT !.cmd = WithArg(@)]
RECURSIVE Argc(_)
Argc(cmd) == IF cmd.type = "EXEC" THEN cmd.argc ELSE Argc(cmd.cmd)

RECURSIVE ParseArgs(_)
ParseArgs(r) ==
  IF ~r.ok \/ r.rest = <<>> \/ peek(r.rest, Specials) THEN r
  ELSE IF r.rest[1] # "a" \/ Argc(r.cmd) + 1 >= MAXARGS THEN Syntax
  ELSE ParseArgs(parseredirs(WithArg(r.cmd), Tail(r.rest)))

(* Variant: every & but the first is left over.                            *)
Backed(r) == IF r.ok /\ peek(r.rest, {"&"}) THEN Parsed(backcmd(r.cmd), Tail(r.rest)) ELSE r

RECURSIVE Backs(_)
Backs(r) == IF r.ok /\ peek(r.rest, {"&"}) THEN Backs(Parsed(backcmd(r.cmd), Tail(r.rest))) ELSE r

(* left, joined to what the parser made of the rest of the line.           *)
Join(l, r, type) ==
  IF r.ok THEN Parsed([type |-> type, left |-> l.cmd, right |-> r.cmd], r.rest) ELSE Syntax

RECURSIVE parseline(_)
RECURSIVE parsepipe(_)
ListTail(l) == IF l.ok /\ peek(l.rest, {";"}) THEN Join(l, parseline(Tail(l.rest)), "LIST") ELSE l
PipeTail(l) == IF l.ok /\ peek(l.rest, {"|"}) THEN Join(l, parsepipe(Tail(l.rest)), "PIPE") ELSE l
BlockTail(l) == IF l.ok /\ peek(l.rest, {")"}) THEN parseredirs(l.cmd, Tail(l.rest)) ELSE Syntax

parseblock(s) == BlockTail(parseline(Tail(s)))
parseexec(s) == IF peek(s, {"("}) THEN parseblock(s) ELSE ParseArgs(parseredirs(execcmd(0), s))
parsepipe(s) == PipeTail(parseexec(s))
parseline(s) == ListTail(Backs(parsepipe(s)))

NoLeftovers(r) == IF r.rest = <<>> THEN r ELSE Syntax
parsecmd(s) == NoLeftovers(parseline(s))

-----------------------------------------------------------------------------
(* The grammar: the commands a line may stand for, over every way to       *)
(* divide it.                                                              *)
Places(s, tok) == {i \in 1 .. Len(s) : s[i] = tok}
Upto(s, n) == SubSeq(s, 1, n)
FilesOf(s) == {i \in 1 .. Len(s) + 1 : i > 1 /\ s[i - 1] \in RedirToks}
Words(s) == Places(s, "a") \ FilesOf(s)

RECURSIVE Wrapped(_, _)
Wrapped(cmd, toks) == IF toks = <<>> THEN cmd ELSE Wrapped(redircmd(cmd, Head(toks)), Tail(toks))
Redirected(cmds, s) == {Wrapped(cmd, SelectSeq(s, LAMBDA x : x \in RedirToks)) : cmd \in cmds}

SimpleT(s) ==
  IF /\ Range(s) \subseteq RedirToks \cup {"a"} /\ FilesOf(s) \subseteq Places(s, "a")
     /\ Cardinality(Words(s)) < MAXARGS
  THEN Redirected({execcmd(Cardinality(Words(s)))}, s) ELSE {}

RECURSIVE LineT(_)
RECURSIVE BackT(_)
RECURSIVE PipeT(_)
BlockT(s) ==
  UNION {IF s[1] = "(" /\ SimpleT(From(s, i + 1)) # {} /\ Words(From(s, i + 1)) = {}
         THEN Redirected(LineT(SubSeq(s, 2, i - 1)), From(s, i + 1)) ELSE {} : i \in Places(s, ")")}
PipeT(s) ==
  SimpleT(s) \cup BlockT(s)
    \cup UNION {{pipecmd(l, r) : l \in SimpleT(Upto(s, i - 1)) \cup BlockT(Upto(s, i - 1)), r \in PipeT(From(s, i + 1))}
                 : i \in Places(s, "|")}
BackT(s) == PipeT(s) \cup (IF s # <<>> /\ Last(s) = "&" THEN {backcmd(c) : c \in BackT(Front(s))} ELSE {})
LineT(s) ==
  BackT(s) \cup UNION {{listcmd(l, r) : l \in BackT(Upto(s, i - 1)), r \in LineT(From(s, i + 1))} : i \in Places(s, ";")}
-----------------------------------------------------------------------------
(* Processes.  Init is process 1; st is "free", "run" or "zombie"; at is   *)
(* where a process is in the code; bg marks what runcmd() started for &    *)
(* and its descendants (history).                                          *)
Tasks == 1 .. NPROCS
Fds == 0 .. NFDS - 1
Obj(kind, pipe) == [kind |-> kind, pipe |-> pipe]
Closed == Obj("closed", 0)
Tty == [f \in Fds |-> IF f < 3 THEN Obj("tty", 0) ELSE Closed]
Free == [st |-> "free", at |-> "none", parent |-> 0, cmd |-> execcmd(0), fds |-> Tty, bg |-> FALSE]

ShellInit(lines) ==
  /\ input = lines
  /\ task = [p \in Tasks |-> IF p = 1 THEN [Free EXCEPT !.st = "run", !.at = "init"] ELSE Free]
  /\ starved = FALSE

Running(p, at) == task[p].st = "run" /\ task[p].at = at
Children(p) == {c \in Tasks : task[c].st # "free" /\ task[c].parent = p}
Lowest(fds) == Min({f \in Fds : fds[f].kind = "closed"})
Opened(fds, obj) == [fds EXCEPT ![Lowest(fds)] = obj]
Shut(fds, S) == [f \in Fds |-> IF f \in S THEN Closed ELSE fds[f]]

(* Variant: children go to the parent.                                     *)
ExitedUp(p) == [q \in Tasks |->
  IF q = p THEN [task[p] EXCEPT !.st = "zombie", !.fds = Shut(@, Fds), !.cmd = execcmd(0)]
  ELSE IF q \in Children(p) THEN [task[q] EXCEPT !.parent = task[p].parent]
  ELSE task[q]]

(* exit(): descriptors are closed, children go to init.                    *)
Exited(p) == [q \in Tasks |->
  IF q = p THEN [task[p] EXCEPT !.st = "zombie", !.fds = Shut(@, Fds), !.cmd = execcmd(0)]
  ELSE IF q \in Children(p) THEN [task[q] EXCEPT !.parent = 1]
  ELSE task[q]]

quit(p) == task' = Exited(p) /\ UNCHANGED starved

(* fork1(): the child is at "at" with cmd, the parent goes on at "next";   *)
(* the parent exits if there is no process left.                           *)
Slots == {c \in Tasks : task[c].st = "free"}

fork1(p, at, cmd, bg, next) ==
  /\ task' = IF Slots = {} THEN Exited(p)
             ELSE [task EXCEPT ![Min(Slots)] = [st |-> "run", at |-> at, parent |-> p, cmd |-> cmd,
                                                fds |-> task[p].fds, bg |-> bg],
                               ![p].at = next]
  /\ starved' = (starved \/ Slots = {})

(* wait(0, 0) for some child that has exited.                              *)
wait(p, next) ==
  /\ \E c \in Children(p) :
       task[c].st = "zombie" /\ task' = [task EXCEPT ![c] = Free, ![p].at = next]
  /\ UNCHANGED starved

Become(p, at, cmd, fds) ==
  /\ task' = [task EXCEPT ![p].at = at, ![p].cmd = cmd, ![p].fds = fds]
  /\ UNCHANGED starved

(* user/init.c: start a shell, wait for it and for the parentless.         *)
ShellPoints == {"prompt", "sh_wait"}

init_main ==
  /\ \/ Running(1, "init") /\ fork1(1, "prompt", execcmd(0), FALSE, "init_wait")
     \/ /\ Running(1, "init_wait")
        /\ \E c \in Children(1) :
             /\ task[c].st = "zombie"
             /\ task' = [task EXCEPT ![c] = Free, ![1].at = IF task[c].at \in ShellPoints THEN "init" ELSE @]
        /\ UNCHANGED starved
  /\ UNCHANGED input

(* main() of sh.c: read a line, fork a child for it and wait for the       *)
(* child; exit at the end of the input.                                    *)
sh_main(p) ==
  \/ Running(p, "prompt") /\ input = <<>> /\ quit(p) /\ UNCHANGED input
  \/ /\ Running(p, "prompt") /\ input # <<>>
     /\ fork1(p, "parse", [type |-> "LINE", toks |-> Head(input)], FALSE, "sh_wait")
     /\ input' = Tail(input)
  \/ Running(p, "sh_wait") /\ wait(p, "prompt") /\ UNCHANGED input

parse(p) ==
  /\ Running(p, "parse")
  /\ \E r \in {parsecmd(task[p].cmd.toks)} :
       IF r.ok THEN Become(p, "runcmd", r.cmd, task[p].fds) ELSE quit(p)
  /\ UNCHANGED input

-----------------------------------------------------------------------------
(* runcmd(), by the type of the command.                                   *)
AtCmd(p, type) == Running(p, "runcmd") /\ task[p].cmd.type = type

run_exec(p) ==
  /\ AtCmd(p, "EXEC")
  /\ \/ quit(p)                                   \* no argument, or exec() failed
     \/ /\ task[p].cmd.argc > 0
        /\ \E prog \in {"reads", "quits"} : Become(p, prog, execcmd(0), task[p].fds)

run_redir(p) ==
  /\ AtCmd(p, "REDIR")
  /\ \/ quit(p)                                   \* open() failed
     \/ Become(p, "runcmd", task[p].cmd.cmd, Opened(Shut(task[p].fds, {task[p].cmd.fd}), Obj("file", 0)))

run_list(p) ==
  \/ AtCmd(p, "LIST") /\ fork1(p, "runcmd", task[p].cmd.left, task[p].bg, "list_wait")
  \/ /\ Running(p, "list_wait")
     /\ \E c \in Children(p) :
          /\ task[c].st = "zombie"
          /\ task' = [task EXCEPT ![c] = Free, ![p].at = "runcmd", ![p].cmd = task[p].cmd.right]
     /\ UNCHANGED starved

run_back(p) ==
  \/ AtCmd(p, "BACK") /\ fork1(p, "runcmd", task[p].cmd.cmd, TRUE, "leave")
  \/ Running(p, "leave") /\ quit(p)

(* The two ends of a new pipe, on the two lowest descriptors.              *)
NewPipe == Min({k \in 1 .. NPROCS : \A q \in Tasks, f \in Fds : task[q].fds[f].pipe # k})
PipeEnds(fds, k) == Opened(Opened(fds, Obj("read", k)), Obj("write", k))

(* The descriptors a process holds a pipe of PIPE with: p[0] and p[1].     *)
P0(fds) == Max({f \in Fds : fds[f].kind = "read"})
P1(fds) == Max({f \in Fds : fds[f].kind = "write"})

(* Variant: the child keeps the end it does not use.                       *)
RewiredOpen(fds, f, end) == Shut(Opened(Shut(fds, {f}), fds[end]), {end})

(* The child: close(f), dup(end), close(p[0]), close(p[1]).                *)
Rewired(fds, f, end) == Shut(Opened(Shut(fds, {f}), fds[end]), {P0(fds), P1(fds)})

(* Variant: the parent keeps p[1].                                         *)
ParentOpen(fds) == Shut(fds, {P0(fds)})

ParentClosed(fds) == Shut(fds, {P0(fds), P1(fds)})

(* Variant: the parent waits once.                                         *)
AfterFirstWait == "leave"

SecondWait == "pipe_wait2"

run_pipe(p) ==
  LET fds == task[p].fds
      cmd == task[p].cmd
  IN  \/ AtCmd(p, "PIPE") /\ quit(p)                 \* pipe() failed
      \/ AtCmd(p, "PIPE") /\ Become(p, "pipe_left", cmd, PipeEnds(fds, NewPipe))
      \/ Running(p, "pipe_left") /\ fork1(p, "left", cmd.left, task[p].bg, "pipe_right")
      \/ Running(p, "pipe_right") /\ fork1(p, "right", cmd.right, task[p].bg, "pipe_close")
      \/ Running(p, "left") /\ Become(p, "runcmd", cmd, Rewired(fds, 1, P1(fds)))
      \/ Running(p, "right") /\ Become(p, "runcmd", cmd, Rewired(fds, 0, P0(fds)))
      \/ Running(p, "pipe_close") /\ Become(p, "pipe_wait", cmd, ParentClosed(fds))
      \/ Running(p, "pipe_wait") /\ wait(p, SecondWait)
      \/ Running(p, "pipe_wait2") /\ wait(p, "leave")

runcmd(p) ==
  (run_exec(p) \/ run_redir(p) \/ run_list(p) \/ run_back(p) \/ run_pipe(p)) /\ UNCHANGED input

(* A program (external): it may end at once, or when it has read its       *)
(* standard input to the end, which on a pipe needs every write end        *)
(* closed.                                                                 *)
Writers(k) == {q \in Tasks : \E f \in Fds : task[q].fds[f] = Obj("write", k)}

program(p) ==
  /\ Running(p, "quits") \/ (Running(p, "reads")
                               /\ (task[p].fds[0].kind # "read" \/ Writers(task[p].fds[0].pipe) = {}))
  /\ quit(p) /\ UNCHANGED input

ShellNext == init_main \/ \E p \in Tasks : sh_main(p) \/ parse(p) \/ runcmd(p) \/ program(p)
-----------------------------------------------------------------------------
(* The parser accepts exactly the lines of the grammar, and finds the one  *)
(* command each stands for: & binds looser than |, and ; looser still,     *)
(* redirections wrap from the inside out.                                  *)
ParseExact == LineT(line) = (IF parsecmd(line).ok THEN {parsecmd(line).cmd} ELSE {})

(* A program holds a pipe only as its standard input (read end) or as its  *)
(* standard output (write end): runcmd() leaves no other end open in it.   *)
OnlyStdio ==
  \A p \in Tasks :
    task[p].st = "run" /\ task[p].at \in {"reads", "quits"} =>
      \A f \in Fds : /\ f > 2 => task[p].fds[f].kind = "closed"
                     /\ task[p].fds[f].kind = "read" => f = 0
                     /\ task[p].fds[f].kind = "write" => f = 1

(* A reader waits for the writers of its pipe, a parent for its children.  *)
WaitsFor(p) ==
  IF Running(p, "reads") /\ task[p].fds[0].kind = "read" THEN Writers(task[p].fds[0].pipe)
  ELSE IF task[p].st = "run" /\ task[p].at \in {"sh_wait", "list_wait", "pipe_wait", "pipe_wait2"} THEN Children(p)
  ELSE {}

RECURSIVE Reaches(_, _)
Reaches(S, n) == IF n = 0 THEN S ELSE Reaches(S \cup UNION {WaitsFor(q) : q \in S}, n - 1)

(* Nobody waits in a circle: not a reader for the writers of its pipe, and *)
(* a parent for its children (an end left open in the parent would make    *)
(* the right side of a pipe wait for the parent that waits for it).        *)
NoHang == \A p \in Tasks : p \notin Reaches(WaitsFor(p), NPROCS)

(* The prompt comes back only when every process of the line has ended,    *)
(* but for those started with &, unless a fork() failed half-way through   *)
(* a command (wait() per child in LIST, PIPE and main()).                  *)
ForegroundDone ==
  starved \/ \A p, q \in Tasks : Running(p, "prompt") /\ task[q].st = "run" /\ q \notin {1, p} => task[q].bg

(* Every child is waited for by its parent, or is init's: a command never  *)
(* leaves a zombie behind for the shell's next wait() to take for the      *)
(* command it has just started.                                            *)
NoStrayChildren == \A p \in Tasks : Running(p, "prompt") => Children(p) = {}

(* runcmd(): every pipe ends when its writers do: no process keeps an end  *)
(* it does not use, and so nobody waits in a circle.                       *)
PipesEnd == OnlyStdio /\ NoHang

(* main() of sh.c, runcmd(): wait() collects the processes of the line,    *)
(* all of them and no others.                                              *)
WaitsExact == ForegroundDone /\ NoStrayChildren
=============================================================================
