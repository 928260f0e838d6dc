-------------------------------- MODULE MCMem --------------------------------
(* Model checking of the memory system: the address space of a program and *)
(* the kernel's heaps.                                                      *)
EXTENDS Integers, Sequences, FiniteSets

VARIABLES scen,
    s, left

vars == <<scen, s, left>>

C(o, a, n) == [o |-> o, a |-> a, n |-> n, ty |-> "anon", pr |-> {"r", "w"}, sh |-> FALSE, off |-> 0, fx |-> "any", b |-> 0, m |-> 0,
               st |-> FALSE, al |-> {"r", "w"}]
Anon(n) == C("mmap", 0, n)
Fixed(a, n, c) == [c EXCEPT !.a = a, !.n = n, !.fx = "fixed"]
File(n, off, sh, pr) == [C("mmap", 0, n) EXCEPT !.ty = "file", !.off = off, !.sh = sh, !.pr = pr]
Prt(a, n, pr) == [C("mprotect", a, n) EXCEPT !.pr = pr]
Mre(a, n, m, fx, b) == [C("mremap", a, n) EXCEPT !.m = m, !.fx = fx, !.b = b]
Adv(a, n, ty) == [C("madvise", a, n) EXCEPT !.ty = ty]
U(who, calls, n, at, pokes, mem, aslr) == [who |-> who, calls |-> calls, n |-> n, at |-> at, pokes |-> pokes, mem |-> mem, aslr |-> aslr]
SpaceUses ==
    {U({1}, {Anon(2), Fixed(3,2,Anon(2)), C("munmap", 3, 2), Prt(3, 1, {"r"}), Prt(2,3,{"r","w"}), Adv(2,2,"dontneed"), Adv(3,1,"nohuge")}, 4, {2, 3}, 3, 1, FALSE),
     U({1}, {File(2,1,TRUE,{"r","w"}), C("munmap", 3, 1), C("msync",2,2), C("truncate",0,2), C("close",0,0)}, 4, {2, 3}, 3, 1, FALSE),
     U({1}, {File(2,1,FALSE,{"r"}), C("munmap", 3, 1), Prt(2,2,{"r","w"}), Prt(2,1,{"r"}), C("close",0,0)}, 4, {2, 3}, 3, 0, FALSE),
     U({1}, {Anon(2), C("brk",2,0), C("brk",3,0), C("brk",1,0), C("munmap",1,1), C("munmap",1,2), Fixed(1,2,Anon(2))}, 4, {1,2}, 3, 0, FALSE),
     U({1}, {Anon(2), Mre(2,2,3,"maymove",0), Mre(2,1,2,"fixed",5), Mre(2,2,1,"fixed",5),Fixed(4,1,Anon(1)), Mre(3,1,2,"maymove",0),Mre(2,2,1,"none",0)}, 4, {2,3,5}, 3, 0, FALSE),
     U({1}, {File(2,1,TRUE,{"r","w"}), Mre(2,2,3,"maymove",0), Mre(3,1,2,"maymove",0), Mre(2,1,1,"fixed",6), C("close",0,0), C("munmap",2,6)}, 4, {2,3,6}, 3, 0, FALSE),
     U({1}, {Fixed(2,1,Anon(1)),Fixed(3,2,File(2,1,FALSE,{"r","w"})), C("truncate",0,0), C("truncate",0,2), C("truncate",0,3),C("munmap",3,2),C("msync",3,2)}, 5, {2,3,4}, 3, 0, FALSE),
     U({1}, {Fixed(2,1,Anon(1)),Fixed(3,2,File(2,1,TRUE,{"r","w"})), C("truncate",0,0), C("truncate",0,3),C("munmap",3,2)}, 5, {2,3,4}, 3, 0, FALSE),
     U({1}, {[Fixed(6,1,Anon(1)) EXCEPT !.st = TRUE], Anon(1), Anon(2), C("munmap",5,1), Fixed(3,1,Anon(1)), Prt(5,2,{"r"})}, 3, {5,6}, 2, 0, TRUE),
     U({1}, {[Fixed(6,1,Anon(1)) EXCEPT !.st = TRUE], Anon(1), Anon(2), C("munmap",5,1), Fixed(3,1,Anon(1)), Prt(5,2,{"r"})}, 4, {3,4,5}, 2, 0, FALSE),
     U({1}, {[Fixed(3,1,Anon(1)) EXCEPT !.ty = "custom"], Fixed(3,2,Anon(2)), C("munmap",3,1), [Anon(2) EXCEPT !.fx="hint", !.a=4],[Anon(1) EXCEPT !.fx="noreplace", !.a=4]}, 4, {3,4}, 3, 1, FALSE),
     U({1,2}, {Anon(2), C("munmap", 3, 2), Prt(2,2,{"r"}), Fixed(2,1,File(2,1,FALSE,{"r"}))}, 3, {2, 3}, 2, 1, FALSE),
     U({1,2}, {File(2,1,TRUE,{"r","w"}), C("munmap", 3, 1), C("truncate",0,2), C("close",0,0), Mre(2,2,2,"fixed",5)}, 3, {2, 3}, 2, 0, FALSE),
     U({1,2}, {File(2,1,FALSE,{"r","w"}), C("munmap", 2, 1), Fixed(3,1,Anon(1))}, 3, {2, 3}, 2, 1, FALSE),
     U({1,2}, {C("brk",2,0), C("brk",3,0), C("brk",1,0), Fixed(2,1,Anon(2)), Anon(1)}, 4, {1,2}, 2, 0, FALSE)}
R(a, b) == [a |-> a, b |-> b]
Block(a, n) == [a |-> a, n |-> n]
Pg(n, ranges, sizes, parts) == [kind |-> "pages", n |-> n, ranges |-> ranges, sizes |-> sizes, parts |-> parts, mem |-> 0]
Id(n, ranges, parent, sizes, parts, mem, subs, areas, more, random, hints) ==
    [kind |-> "id", n |-> n, ranges |-> ranges, parent |-> parent, sizes |-> sizes, parts |-> parts, mem |-> mem, subs |-> subs,
     areas |-> areas, more |-> more, random |-> random, hints |-> hints]
Ob(n, sizes, mem, mall, pre, drain) == [kind |-> "objects", n |-> n, sizes |-> sizes, mem |-> mem, mall |-> mall, pre |-> pre, drain |-> drain]
Bk(n, sizes, mem, size, limit, linear, reserved) ==
    [kind |-> "backed", n |-> n, sizes |-> sizes, mem |-> mem, size |-> size, limit |-> limit, linear |-> linear, reserved |-> reserved]
HeapUses ==
    {Pg(5, <<R(0,16)>>, {1,3,4}, TRUE),
     Pg(7, <<R(0,16)>>, {1,3,4}, FALSE),
     Pg(6, <<R(1,32)>>, {1,4}, FALSE),
     Pg(4, <<R(5,28)>>, {3,4}, TRUE),
     Pg(4, <<R(0,13), R(18,30)>>, {1,3,4}, TRUE),
     Id(5, <<R(1,7)>>, 0, {1,2,3}, TRUE, 0, {}, {}, {}, TRUE, {<<1,3>>}),
     Id(4, <<R(1,7), R(8,12)>>, 0, {1,2,5}, TRUE, 0, {R(2,7),R(0,10)}, {Block(5,2),Block(6,3)}, {R(12,13),R(6,8),R(7,8)}, FALSE, {}),
     Id(5, <<>>, 12, {1,2,5}, TRUE, 1, {}, {}, {}, TRUE, {<<1,3>>,<<2,3>>}),
     Ob(5, {1,2,3,5}, 1, TRUE, 0, 4),
     Ob(6, {1,2}, 1, FALSE, 1, 8),
     Bk(5, {1,2}, 1, 5, 5, FALSE, 2),
     Bk(5, {1,2}, 0, 5, 4, TRUE, 2)}

Space == INSTANCE VMaps WITH NP <- 8, Lo <- 2, FP <- 3, Gap <- 1, StackLimit <- 3, ThpMax <- 2, HeapBase <- 1, Threads <- {1, 2}, Uses <- SpaceUses
Heap == INSTANCE Heaps WITH MaxOrder <- 2, AREA_MAX <- 16, HeadFixed <- 4, HeadPer <- 8, WORD <- 4, NEXT_BIT_COUNT <- 2, Slots <- 4, ParentPages <- 4, Uses <- HeapUses


Init ==
    \/ /\ scen = "space" /\ Space!Init
    \/ /\ scen = "heap" /\ Heap!HeapsInit

Next ==
    \/ scen = "space" /\ Space!Next /\ UNCHANGED scen
    \/ scen = "heap" /\ Heap!HeapsNext /\ UNCHANGED scen

Spec == Init /\ [][Next]_vars

(* The promise to the program (AddressSpace), which VMaps implements: the   *)
(* memory calls of mmap.c change what the program sees at the pages they    *)
(* name, in the way they say, and at no other page                          *)
Promise == INSTANCE AddressSpace WITH
    NP <- 8, Base <- 1, Calls <- UNION {u.calls : u \in SpaceUses},
    space <- IF scen = "space" THEN Space!View ELSE [p \in 0 .. 7 |-> [ty |-> "none", pr |-> {}, sh |-> FALSE, fo |-> 0]],
    sound <- IF scen = "space" THEN Space!Sound ELSE TRUE
SpacePromise == Promise!SpaceSpec

(* Under mmap, munmap, mremap, mprotect, madvise, brk, truncation, faults    *)
(* and evictions of two threads, no vmaps overlap, every page of the page   *)
(* table is one its vmap accounts for, references, frames and descriptors   *)
(* are counted exactly, and what was stored is found again: in the page if  *)
(* private, in the cache if shared                                          *)
SpacesAreSound == scen = "space" => Space!SpaceIsSound

(* No heap gives out a page or an object twice or out of alignment, each    *)
(* accounts for all of its memory and finds what is free, and the reserve   *)
(* is kept, but in the cases the slips name                                 *)
HeapsAreSound == scen = "heap" => Heap!HeapIsSound
=============================================================================
