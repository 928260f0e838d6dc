---------------------------- MODULE AddressSpace ----------------------------
(***************************************************************************)
(* What the memory system calls promise a program: its address space is a  *)
(* function from pages to what is mapped there, and a call changes the     *)
(* pages it names and no other.                                            *)
(*   space[p]  what is mapped at page p: the kind of memory (ty), its      *)
(*             protection (pr), whether it is shared (sh) and the page of  *)
(*             the file (fo); Nothing where nothing is mapped              *)
(*   sound     FALSE once the implementation has met one of the cases in   *)
(*             which it is known to break the promise                      *)
(* Calls is the set of calls the program may make; NP the number of pages, *)
(* Base where the heap starts.                                             *)
(***************************************************************************)
EXTENDS Integers

CONSTANTS NP, Base, Calls

VARIABLES space, sound

SpacePages == 0 .. NP - 1
Nothing == [ty |-> "none", pr |-> {}, sh |-> FALSE, fo |-> 0]
HeapPage == [ty |-> "heap", pr |-> {"r", "w"}, sh |-> FALSE, fo |-> 0]

(* what a call asks for, and page i of a mapping whose first page is at *)
Asked(c) == [ty |-> c.ty, pr |-> c.pr, sh |-> c.sh, fo |-> IF c.ty = "file" THEN c.off ELSE 0]
Nth(at, i) == IF at.ty = "file" THEN [at EXCEPT !.fo = @ + i] ELSE at
Put(v, P, a, at) == [p \in SpacePages |-> IF p \in P THEN Nth(at, p - a) ELSE v[p]]

Free(v, P) == \A p \in P : v[p] = Nothing
Mapped(v, P) == \A p \in P : v[p] # Nothing

(* What call c may turn the space v into.                                   *)
(* mmap: where the program says, replacing what is there if it asks for     *)
(* that, and anywhere else only on free pages                               *)
Map(c, v, w) ==
  \/ c.fx = "fixed" /\ w = Put(v, c.a .. c.a + c.n - 1, c.a, Asked(c))
  \/ \E a \in 0 .. NP - c.n :
       /\ c.fx \in {"noreplace", "exact"} => a = c.a
       /\ Free(v, a .. a + c.n - 1)
       /\ w = Put(v, a .. a + c.n - 1, a, Asked(c))

Unmap(c, v, w) == w = Put(v, c.a .. c.a + c.n - 1, c.a, Nothing)

(* mprotect changes every page or none *)
Protect(c, v, w) ==
  /\ Mapped(v, c.a .. c.a + c.n - 1)
  /\ w = [p \in SpacePages |-> IF p \in c.a .. c.a + c.n - 1 THEN [v[p] EXCEPT !.pr = c.pr] ELSE v[p]]

(* mremap: the pages keep what they map, where they are or elsewhere *)
Move(c, v, w) ==
  LET old == c.a .. c.a + c.n - 1 IN
  /\ Mapped(v, old)
  /\ \E a \in 0 .. NP - c.m :
       LET new == a .. a + c.m - 1 IN
       /\ a = c.a \/ new \cap old = {}
       /\ IF c.fx = "fixed" THEN a = c.b ELSE Free(v, new \ old)
       /\ w = Put(Put(v, old, c.a, Nothing), new, a, v[c.a])

(* brk: the heap is the pages from its base to the new break; pages of it   *)
(* that the program has cut off may stay                                    *)
Break(c, v, w) ==
  LET new == Base .. c.a - 1 IN
  /\ \A p \in new : v[p].ty \in {"none", "heap"} /\ w[p] = HeapPage
  /\ \A p \in SpacePages \ new : w[p] = v[p] \/ (v[p].ty = "heap" /\ w[p] = Nothing)

(* a stack takes the free pages below it *)
GrowStack(v, w) ==
  \E a, b \in SpacePages : /\ b < NP - 1
                          /\ Free(v, a .. b)
                          /\ v[b + 1].ty = "anon"
                          /\ w = Put(v, a .. b, a, v[b + 1])

(* a program starts with memory of its own and no file mapped *)
SpaceInit == \A p \in SpacePages : space[p].ty \in {"none", "heap", "anon"}

SpaceNext ==
  \/ sound' = FALSE
  \/ /\ sound /\ sound'
     /\ \E v \in {space}, w \in {space'} :
          /\ v # w
          /\ \/ \E c \in Calls : \/ c.o = "mmap" /\ Map(c, v, w)
                                 \/ c.o = "munmap" /\ Unmap(c, v, w)
                                 \/ c.o = "mprotect" /\ Protect(c, v, w)
                                 \/ c.o = "mremap" /\ Move(c, v, w)
                                 \/ c.o = "brk" /\ Break(c, v, w)
             \/ GrowStack(v, w)

SpaceSpec == SpaceInit /\ [][SpaceNext]_<<space, sound>>
=============================================================================
