------------------------------- MODULE Malloc -------------------------------
(***************************************************************************)
(* The user-level allocator, user/umalloc.c: a circular list of free       *)
(* blocks in address order, kept in headers of the memory it manages.      *)
(* Addresses count headers; base, in the data segment, is address 0, below *)
(* the heap.  sbrk() may fail, and the program may call it too.            *)
(***************************************************************************)
EXTENDS Integers, Sequences, FiniteSets, FiniteSetsExt

CONSTANTS HDR,        \* sizeof(Header), in bytes
          CORE,       \* the least number of headers morecore() asks for
          HEAP,       \* the number of headers sbrk() can give out
          UINT32,     \* the number of values of a uint
          Requests,   \* the arguments of malloc()
          NBLOCKS     \* bound on the blocks the program holds

NULL == -1
Base == 0

VARIABLES
  hdr, freep,  \* hdr[a]: the header [ptr, size] at a; the start of a search
  brk,         \* the first address sbrk() has not given out
  core,        \* the addresses morecore() obtained (history)
  held         \* held[a]: the bytes asked for, of each block the program has (history)

mallocVars == <<hdr, freep, brk, core, held>>

NoHeader == [ptr |-> NULL, size |-> 0]

MallocInit ==
  /\ hdr = [a \in 0 .. HEAP |-> NoHeader]
  /\ freep = NULL /\ brk = 1
  /\ core = {} /\ held = <<>>

-----------------------------------------------------------------------------
(* The free block after which free() puts bp: it lies between p and the    *)
(* next one, or outside the list where the list wraps around.              *)
RECURSIVE Before(_, _, _)
Before(h, p, bp) ==
  IF (bp > p /\ bp < h[p].ptr) \/ (p >= h[p].ptr /\ (bp > p \/ bp < h[p].ptr)) THEN p
  ELSE Before(h, h[p].ptr, bp)

(* Where blocks are joined, what was a header is memory again (NoHeader).  *)
(* Variant: a block is never joined to the one below it.                   *)
JoinLowerNot(h, p, bp) == [h EXCEPT ![p].ptr = bp]

JoinLower(h, p, bp) ==
  IF p + h[p].size = bp
  THEN [h EXCEPT ![p] = [ptr |-> h[bp].ptr, size |-> @.size + h[bp].size], ![bp] = NoHeader]
  ELSE [h EXCEPT ![p].ptr = bp]

JoinUpper(h, p, bp) ==
  LET up == h[p].ptr
  IN  IF bp + h[bp].size = up
      THEN [h EXCEPT ![bp] = [ptr |-> h[up].ptr, size |-> @.size + h[up].size], ![up] = NoHeader]
      ELSE [h EXCEPT ![bp].ptr = up]

(* free(): the headers and freep.                                          *)
Freed(h, start, bp) == LET p == Before(h, start, bp) IN [hdr |-> JoinLower(JoinUpper(h, p, bp), p, bp), freep |-> p]

(* The search of malloc(), from the block after prevp: the block before    *)
(* the first that is large enough, or NULL when it is back at freep.       *)
RECURSIVE Fit(_, _, _, _)
Fit(h, prevp, start, nunits) ==
  LET p == h[prevp].ptr
  IN  IF h[p].size >= nunits THEN prevp
      ELSE IF p = start THEN NULL
      ELSE Fit(h, p, start, nunits)

(* Variant: the size of the remainder is not reduced.                      *)
CutWhole(h, prevp, p, nunits) == [h EXCEPT ![p + h[p].size - nunits].size = nunits]

(* The block is unlinked, or its tail is cut off.                          *)
Cut(h, prevp, p, nunits) ==
  IF h[p].size = nunits THEN [h EXCEPT ![prevp].ptr = h[p].ptr, ![p].ptr = NULL]
  ELSE [h EXCEPT ![p].size = @ - nunits, ![p + h[p].size - nunits].size = nunits]

(* sizeof makes the sum one of 64 bits; the quotient becomes a uint.       *)
Nunits(nbytes) == ((nbytes + HDR - 1) \div HDR + 1) % UINT32

(* malloc() finds a block in h, searching from prevp.                      *)
Take(h, prevp, nbytes) ==
  LET p == h[prevp].ptr
      at == p + h[p].size - Nunits(nbytes)
  IN  /\ hdr' = Cut(h, prevp, p, Nunits(nbytes))
      /\ freep' = prevp
      /\ held' = [a \in DOMAIN held \cup {at} |-> IF a = at THEN nbytes ELSE held[a]]

(* The first call makes base the list.                                     *)
Listed == IF freep = NULL THEN [hdr EXCEPT ![Base] = [ptr |-> Base, size |-> 0]] ELSE hdr
Start == IF freep = NULL THEN Base ELSE freep

malloc_fit(nbytes) ==
  /\ Fit(Listed, Start, Start, Nunits(nbytes)) # NULL
  /\ Take(Listed, Fit(Listed, Start, Start, Nunits(nbytes)), nbytes)
  /\ UNCHANGED <<brk, core>>

(* Nothing fits: morecore() gets memory and frees it into the list, and    *)
(* the search goes on from the block it was put after.                     *)
Wanted(nbytes) == IF Nunits(nbytes) < CORE THEN CORE ELSE Nunits(nbytes)

(* The size of it becomes the int that sbrk() takes.                       *)
Narrowed(bytes) == ((bytes + UINT32 \div 2) % UINT32) - UINT32 \div 2
Moved(nbytes) == Narrowed(Wanted(nbytes) * HDR) \div HDR

(* Bound: the requests are small enough for the size to fit an int.  For   *)
(* a larger one sbrk() would move the break by another amount.             *)
ASSUME MallocAssumption ==
  /\ HDR \in Nat \ {0} /\ CORE \in Nat \ {0} /\ HEAP \in Nat /\ UINT32 \in Nat \ {0}
  /\ \A n \in Requests : n \in 0 .. UINT32 - 1 /\ Wanted(n) * HDR < UINT32 \div 2

malloc_more(nbytes) ==
  /\ Fit(Listed, Start, Start, Nunits(nbytes)) = NULL
  /\ IF brk + Moved(nbytes) <= HEAP + 1
     THEN \E r \in {Freed([Listed EXCEPT ![brk].size = Wanted(nbytes)], Start, brk)} :
            /\ Take(r.hdr, Fit(r.hdr, r.freep, r.freep, Nunits(nbytes)), nbytes)
            /\ core' = core \cup (brk .. brk + Moved(nbytes) - 1)
            /\ brk' = brk + Moved(nbytes)
     ELSE /\ hdr' = Listed /\ freep' = Start
          /\ UNCHANGED <<held, core, brk>>

malloc(nbytes) == Cardinality(DOMAIN held) < NBLOCKS /\ (malloc_fit(nbytes) \/ malloc_more(nbytes))

free(a) ==
  /\ a \in DOMAIN held
  /\ \E r \in {Freed(hdr, freep, a)} : hdr' = r.hdr /\ freep' = r.freep
  /\ held' = [x \in DOMAIN held \ {a} |-> held[x]]
  /\ UNCHANGED <<brk, core>>

(* The program moves the break itself.                                     *)
sbrk == brk <= HEAP /\ brk' = brk + 1 /\ UNCHANGED <<hdr, freep, core, held>>

MallocNext == (\E n \in Requests : malloc(n)) \/ (\E a \in 1 .. HEAP : free(a)) \/ sbrk

-----------------------------------------------------------------------------
(* The blocks of the list, from freep.                                     *)
RECURSIVE ListFrom(_, _)
ListFrom(p, seen) == IF p \in seen THEN seen ELSE ListFrom(hdr[p].ptr, seen \cup {p})
FreeBlocks == IF freep = NULL THEN {} ELSE ListFrom(freep, {})

Span(a) == a .. a + hdr[a].size - 1

(* The free blocks and the blocks the program holds tile the memory that   *)
(* morecore() obtained: none overlaps another, none is lost, and malloc()  *)
(* has given each at least the bytes asked for.                            *)
HeapTiled ==
  LET blocks == (FreeBlocks \ {Base}) \cup DOMAIN held
  IN  /\ FreeBlocks \cap DOMAIN held = {}
      /\ \A a, b \in blocks : a # b => Span(a) \cap Span(b) = {}
      /\ UNION {Span(a) : a \in blocks} = core
      /\ \A a \in DOMAIN held : held[a] + HDR <= hdr[a].size * HDR

(* The list is circular through base, in address order (one descent), and  *)
(* no free block ends where the next begins: free() joins neighbours on    *)
(* both sides.                                                             *)
ListSorted ==
  freep # NULL =>
    /\ Base \in FreeBlocks
    /\ Cardinality({a \in FreeBlocks : hdr[a].ptr <= a}) = 1
    /\ \A a \in FreeBlocks \ {Base} : a + hdr[a].size # hdr[a].ptr

(* malloc(), free(), morecore(): the heap and its list are exact after any *)
(* calls.                                                                  *)
HeapExact == HeapTiled /\ ListSorted
=============================================================================
