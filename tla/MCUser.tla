------------------------------- MODULE MCUser -------------------------------
(***************************************************************************)
(* What a user program stands on, for TLC: a behaviour exercises the       *)
(* memory of processes, the allocator of the user library, the string      *)
(* algorithms, the parser or the processes of the shell; part says which.  *)
(***************************************************************************)
EXTENDS Memory, Malloc, Text, Shell

CONSTANTS init, c1

VARIABLE part

parts == <<vars, mallocVars, txt, shellVars, part>>

(* Page tables of fan-out 2, and programs that load, or that fail at one   *)
(* of the places where exec() can fail.                                    *)
Header(ph, vaddr, memsz, filesz, ok) ==
  [ph |-> ph, vaddr |-> vaddr, memsz |-> memsz, filesz |-> filesz, ok |-> ok]
Seg(vaddr, memsz, filesz, ok) == Header("load", vaddr, memsz, filesz, ok)
Img(file, segs, args) == [file |-> file, segs |-> segs, args |-> args]

MCSbrks == {6, -3, -20}

MCImages == {
  Img("elf", <<Seg(0, 5, 3, TRUE)>>, <<1>>),
  Img("elf", <<Seg(0, 4, 2, TRUE), Seg(4, 1, 1, FALSE)>>, <<>>),
  Img("elf", <<Seg(0, 2, 3, TRUE)>>, <<>>),
  Img("elf", <<Seg(0, 4, 1, TRUE), Seg(2, 4, 1, TRUE)>>, <<>>),
  Img("elf", <<Seg(0, 0, 0, TRUE)>>, <<>>),
  Img("elf", <<Header("other", 4, 4, 4, TRUE), Seg(0, 3, 3, TRUE)>>, <<>>),
  Img("elf", <<Seg(0, 4, 4, TRUE), Header("short", 0, 0, 0, TRUE)>>, <<>>),
  Img("elf", <<Seg(0, 1, 1, TRUE), Seg(60, 6, 2, TRUE)>>, <<>>),
  Img("elf", <<>>, <<1, 0>>),
  Img("elf", <<>>, <<0, 0, 0>>),
  Img("elf", <<>>, <<1, -1>>),
  Img("bad", <<>>, <<>>),
  Img("none", <<>>, <<1>>)
}
MCRegexps == Seqs({"a", "b", ".", "*", "$", "^"}, 3) \cup {<<"a", ".", "*", "b">>, <<"a", "*", "*", "b">>, <<".", "*", "b", "$">>}
MCTexts == Seqs({"a", "b", "*"}, 3)
MCFiles == Seqs({"a", "nl"}, 5)
MCPaths == Seqs({"/", "a", "b"}, 4)

Lines4 == Seqs({"a", "|", "(", ")", ";", "&", "<"}, 4) \cup [1 .. 5 -> {"a", "|", "(", ")", "&"}]

(* Three stages; a background job in a list; a list and a redirection in   *)
(* a pipeline; a block in the background of a pipeline; a syntax error.    *)
Commands == {<<"a", "|", "a", "|", "a">>, <<"a", "&", ";", "a">>, <<"(", "a", ";", "a", ")", "|", "a", ">", "a">>,
             <<"(", "a", "|", "a", ")", "&">>, <<"a", ")">>}

(* The parts that a behaviour leaves alone.                                *)
NoMemory ==
  /\ m = Memory(0) /\ calls = 0
  /\ proc = [p \in Procs |-> NoProc]
  /\ loc = [p \in Procs |-> User]
  /\ view = [p \in Procs |-> <<>>]
NoText == txt = [kind |-> "none"]
NoShell == line = <<>> /\ ShellInit(<<>>)

PartsInit ==
  \/ part = "memory" /\ Init /\ MallocInit /\ NoText /\ NoShell
  \/ part = "text" /\ NoMemory /\ TextInit /\ MallocInit /\ NoShell
  \/ part = "malloc" /\ NoMemory /\ MallocInit /\ NoText /\ NoShell
  \/ part = "parse" /\ NoMemory /\ MallocInit /\ NoText /\ line \in Lines4 /\ ShellInit(<<>>)
  \/ /\ part = "shell" /\ NoMemory /\ MallocInit /\ NoText /\ line = <<>>
     /\ \E c \in Commands : ShellInit(<<c, <<"a">>>>)

PartsNext ==
  \/ part = "memory" /\ Next /\ UNCHANGED <<mallocVars, txt, shellVars, part>>
  \/ part = "text" /\ TextNext /\ UNCHANGED <<vars, mallocVars, shellVars, part>>
  \/ part = "malloc" /\ MallocNext /\ UNCHANGED <<vars, txt, shellVars, part>>
  \/ part = "shell" /\ ShellNext /\ UNCHANGED <<vars, mallocVars, txt, line, part>>

PartsSpec == PartsInit /\ [][PartsNext]_parts
=============================================================================
