------------------------------- MODULE VMaps -------------------------------
(***************************************************************************)
(* The address space of the program (unix/mmap.c, runtime/range.c, brk in  *)
(* unix/syscall.c, the page fault handler of unix/unix.c, and the mappings *)
(* kept by kernel/pagecache.c).  Every call and fault runs under the vmap  *)
(* lock, except where a step below says so.                                *)
(*   s.vm     the vmaps (process vmaps): pages a .. b-1, flags fl, allowed *)
(*            protections al, first page off of the file if file is TRUE;  *)
(*            hm marks the object process heap_map points to               *)
(*   s.pte    the page table: what page p maps (k), the page n of the file *)
(*            for a cache page, writable (w), its value (v), dirty (d)     *)
(*   s.maps   the mappings of the cache node; s.refs, s.dirty, s.leak the  *)
(*            cache pages' references, those dirty and those a private     *)
(*            store went to                                                *)
(*   s.used   physical pages allocated to the program; s.fd references on  *)
(*            the open file; s.th[t] what thread t does                    *)
(*   s.exp    what the program has stored at a private page since mapping  *)
(*            it; s.sw file pages stored to through a shared mapping       *)
(* One file of at most FP pages; pages 0 .. NP-1; mmap chooses addresses   *)
(* from Lo on.                                                             *)
(***************************************************************************)
EXTENDS Integers, Sequences, FiniteSets, SequencesExt, FiniteSetsExt

CONSTANTS Threads, NP, Lo, FP, Gap, StackLimit, ThpMax, HeapBase, Uses

VARIABLES s, left

vars == <<s, left>>
Pages == 0 .. NP - 1
Ordered == [i \in 1 .. NP |-> i - 1]
NoPte == [k |-> "none", n |-> 0, w |-> FALSE, v |-> 0, d |-> FALSE]
Prot == {"r", "w"}
In(p, q) == q.a <= p /\ p < q.b
R(a, b) == [a |-> a, b |-> b]
Cut(q, n) == R(Max({q.a, n.a}), Min({q.b, n.b}))
Span(q) == IF q.b > q.a THEN q.b - q.a ELSE 0
Gone(x, what) == [x EXCEPT !.panic = @ \cup {what}]
Slip(x, cond, what) == IF cond THEN [x EXCEPT !.slip = @ \cup {what}] ELSE x
Running == s.panic = {}
Idle == [pc |-> "run", a |-> 0, b |-> 0, off |-> 0, sh |-> FALSE]

(***************************************************************************)
(* Range maps (runtime/range.c)                                            *)
(***************************************************************************)
rangemap_lookup_at_or_next(V, p) ==
  LET C == {n \in V : n.b > p} IN IF C = {} THEN {} ELSE {CHOOSE n \in C : \A m \in C : n.a <= m.a}

(* rangemap_foreach_of_range: from the first node that ends after q.a, as    *)
(* long as the nodes intersect q; an empty node ends the walk               *)
Walk(V, q) == {n \in V : /\ Span(Cut(q, n)) > 0
                         /\ ~ \E m \in V : m.b > q.a /\ m.a < n.a /\ Span(Cut(q, m)) = 0}
rangemap_lookup(V, p) == Walk(V, R(p, p + 1))
rangemap_range_intersects(V, q) == Walk(V, q) # {}
(* rangemap_range_find_gaps: pages of q that no node of the walk covers *)
Gaps(V, q) == {p \in Pages : In(p, q) /\ ~ \E n \in Walk(V, q) : In(p, n)}
NodeAt(W, p) == CHOOSE n \in W : n.a = p
InOrder(F(_, _), x, W) == FoldLeft(LAMBDA y, p : IF \E n \in W : n.a = p THEN F(y, NodeAt(W, p)) ELSE y, x, Ordered)

(* rangemap_insert halts where a node with the same start is in the tree *)
rangemap_insert(x, n) ==
  IF Walk(x.vm, n) # {} THEN [x EXCEPT !.ok = FALSE]
  ELSE IF \E m \in x.vm : m.a = n.a THEN Gone(x, "insert")
  ELSE [x EXCEPT !.vm = @ \cup {n}, !.ok = TRUE]

(* rangemap_reinsert puts the node back as it was when the new range is taken *)
PutBack(x, n) == IF x.ok THEN x ELSE [x EXCEPT !.vm = @ \cup {n}]
rangemap_reinsert(x, n, q) == PutBack(rangemap_insert([x EXCEPT !.vm = @ \ {n}], [n EXCEPT !.a = q.a, !.b = q.b]), n)

(***************************************************************************)
(* Vmaps                                                                   *)
(***************************************************************************)
vmap_compare_attributes(m, k) ==
  m.fl = k.fl /\ m.al = k.al /\ m.file = k.file /\ (m.file => m.off - m.a = k.off - k.a)

(* fdesc_put: the last reference frees the file *)
PutFd(x) == [x EXCEPT !.fd = @ - 1, !.closed = @ \/ x.fd = 1]
GetFd(x) == IF x.closed THEN Gone(x, "file") ELSE [x EXCEPT !.fd = @ + 1]

deallocate_vmap_locked(x, n) == [(IF n.file THEN PutFd(x) ELSE x) EXCEPT !.heap = IF n.hm THEN "freed" ELSE @]

(* the node is joined with its neighbours when their attributes agree: the   *)
(* one before it grows, over the one after it if that agrees too, or the    *)
(* one after it grows                                                       *)
Before(x, k) == {n \in x.vm : n.a <= k.a /\ \A m \in x.vm : m.a <= k.a => m.a <= n.a}
After(x, k) == {n \in x.vm : n.a > k.a /\ \A m \in x.vm : m.a > k.a => n.a <= m.a}
JoinBefore(x, m, k, joined) ==
  IF joined = {} THEN rangemap_reinsert(x, m, R(m.a, k.b))
  ELSE LET n == CHOOSE n \in joined : TRUE
       IN  rangemap_reinsert(deallocate_vmap_locked([x EXCEPT !.vm = @ \ {n}], n), m, R(m.a, n.b))
JoinAfter(x, m, k, moved) == rangemap_reinsert([x EXCEPT !.vm = (@ \ {m}) \cup {moved}], moved, R(k.a, m.b))
Hold(x, k) == IF x.ok /\ k.file THEN GetFd(x) ELSE x
AllocateBetween(x, k, prev, next, joins, joined) ==
  IF (\E n \in prev : n.b > k.a) \/ (joins # {} /\ \E n \in next : n.a < k.b) THEN [x EXCEPT !.ok = FALSE]
  ELSE IF joins # {} THEN JoinBefore(x, CHOOSE n \in joins : TRUE, k, joined)
  ELSE IF joined # {} THEN LET m == CHOOSE n \in joined : TRUE
                           IN  JoinAfter(x, m, k, [m EXCEPT !.off = IF m.file THEN @ - (m.a - k.a) ELSE @])
  ELSE Hold(rangemap_insert(x, [k EXCEPT !.hm = FALSE]), k)
allocate_vmap_locked(x, k) ==
  AllocateBetween(x, k, Before(x, k), After(x, k), {n \in Before(x, k) : n.b = k.a /\ vmap_compare_attributes(n, k)},
                  {n \in After(x, k) : n.a = k.b /\ vmap_compare_attributes(n, k)})

Must(x) == IF x.ok THEN x ELSE Gone(x, "vmap_assert")
alter_vmap_key(n, fl, a, b) == [n EXCEPT !.fl = fl, !.a = a, !.b = b, !.hm = FALSE, !.off = IF n.file THEN @ + (a - n.a) ELSE 0]

(* the walk's node n, as it is now; ri is its part in the range *)
ReflagHead(x, n, fl, ri) == Must(allocate_vmap_locked(Must(rangemap_reinsert(x, n, R(n.a, ri.a))), alter_vmap_key(n, fl, ri.a, ri.b)))
ReflagFront(x, n, fl, ri, kept) ==
  Must(allocate_vmap_locked(Must(rangemap_reinsert([x EXCEPT !.vm = (@ \ {n}) \cup {kept}], kept, R(ri.b, n.b))),
                            alter_vmap_key(n, fl, ri.a, ri.b)))
Reflag(x, n, fl, ri) ==
  IF ri.a = n.a /\ ri.b = n.b THEN
    deallocate_vmap_locked(Must(allocate_vmap_locked([x EXCEPT !.vm = @ \ {n}], [n EXCEPT !.fl = fl])), n)
  ELSE IF ri.a = n.a THEN ReflagFront(x, n, fl, ri, [n EXCEPT !.off = IF n.file THEN @ + (ri.b - n.a) ELSE 0])
  ELSE IF ri.b = n.b THEN ReflagHead(x, n, fl, ri)
  ELSE Must(allocate_vmap_locked(ReflagHead(x, n, fl, ri), alter_vmap_key(n, n.fl, ri.b, n.b)))
vmap_update_flags_intersection(x, q, clear, set, n) ==
  IF n.fl \cap clear = set THEN x ELSE Reflag(x, n, (n.fl \ clear) \cup set, Cut(q, n))

(***************************************************************************)
(* Pages                                                                   *)
(***************************************************************************)
Present(x, q) == {p \in Pages : In(p, q) /\ x.pte[p].k # "none"}
Clear(x, P) == [x EXCEPT !.pte = [p \in Pages |-> IF p \in P THEN NoPte ELSE @[p]]]
Forget(x, q) == [x EXCEPT !.exp = [p \in Pages |-> IF In(p, q) THEN 0 ELSE @[p]]]
Owned(x, P) == Cardinality({p \in P : x.pte[p].k \in {"anon", "cow"}})

(* the physical pages under P are freed; a page of the cache is not the     *)
(* program's to free                                                        *)
FreePhys(x, P) ==
  [Clear(IF \E p \in P : x.pte[p].k = "cache" THEN Gone(x, "freed") ELSE x, P) EXCEPT !.used = @ - Owned(x, P)]

(* unmap_page clears the entry and only then finds that its page cannot be  *)
(* recorded: the page stays allocated                                       *)
LoseOne(x, q) == Clear(Slip(x, TRUE, "unfreed"), {Min(Present(x, q))})
try_unmap_and_free_phys(x, q, bad) ==
  IF bad = "buffer" THEN [x EXCEPT !.ok = FALSE]
  ELSE IF bad = "grow" /\ Present(x, q) # {} THEN [LoseOne(x, q) EXCEPT !.ok = FALSE]
  ELSE [FreePhys(x, Present(x, q)) EXCEPT !.ok = TRUE]
FreeRest(x, q) == IF x.ok THEN x ELSE FreePhys(x, Present(x, q))
unmap_and_free_phys(x, q, bad) == FreeRest(try_unmap_and_free_phys(x, q, bad), q)

unmap(x, q) == Clear(x, Present(x, q))

(* pagecache_node_unmap_intersection *)
TrimMap(m, q) ==
  LET ri == Cut(q, m)
  IN  (IF ri.a > m.a THEN {[m EXCEPT !.b = ri.a]} ELSE {})
      \cup (IF ri.b < m.b THEN {[m EXCEPT !.a = ri.b, !.off = @ + (ri.b - m.a)]} ELSE {})

(* pagecache_unmap_page_nodelocked and pagecache_node_unmap_pages_complete, *)
(* for page p of q: the file's page at that place is looked up, made dirty  *)
(* if a shared mapping was, and released if that is what p maps             *)
ReleasePage(x, p, pi) ==
  IF x.pte[p].k = "cache" /\ x.pte[p].n = pi THEN [Clear(x, {p}) EXCEPT !.refs[pi] = @ - 1, !.ok = TRUE]
  ELSE [FreePhys(x, {p}) EXCEPT !.ok = TRUE]
UnmapFilePage(x, p, pi, shared) ==
  IF pi \notin x.cached THEN Gone(x, "nopage")
  ELSE ReleasePage([x EXCEPT !.dirty = IF shared /\ x.pte[p].d THEN @ \cup {pi} ELSE @], p, pi)
UnmapFilePages(x, q, off, shared) ==
  FoldLeft(LAMBDA y, p : IF In(p, q) /\ y.pte[p].k # "none" THEN UnmapFilePage(y, p, off + p - q.a, shared) ELSE y, x, Ordered)
pagecache_node_unmap_pages(x, q, off) ==
  LET W == Walk(x.maps, q)
  IN  UnmapFilePages([x EXCEPT !.maps = (@ \ W) \cup UNION {TrimMap(m, q) : m \in W}], q, off, \E m \in W : m.sh)

(* the pages of the heap and of a stack that is not mapped by mmap stay *)
vmap_unmap_page_range(x, n, q, off, bad) ==
  IF "anon" \in n.fl THEN unmap_and_free_phys(x, q, bad)
  ELSE IF "file" \in n.fl THEN pagecache_node_unmap_pages(x, q, off)
  ELSE IF "custom" \in n.fl THEN unmap(x, q)
  ELSE Slip(x, Present(x, q) # {}, "kept")

CutHead(x, n, ri) == Must(rangemap_reinsert(x, n, R(n.a, ri.a)))
CutFrontStale(x, n, ri, kept) == Must(rangemap_reinsert(x, n, R(ri.b, n.b)))
CutFront(x, n, ri, kept) == Must(rangemap_reinsert([x EXCEPT !.vm = (@ \ {n}) \cup {kept}], kept, R(ri.b, n.b)))
CutVmap(x, n, ri) ==
  IF ri.a = n.a /\ ri.b = n.b THEN [x EXCEPT !.vm = @ \ {n}]
  ELSE IF ri.a = n.a THEN CutFront(x, n, ri, [n EXCEPT !.off = @ + (ri.b - n.a)])
  ELSE IF ri.b = n.b THEN CutHead(x, n, ri)
  ELSE Must(allocate_vmap_locked(CutHead(x, n, ri), alter_vmap_key(n, n.fl, ri.b, n.b)))
CutPages(x, n, ri, unmapping, bad) == IF unmapping THEN vmap_unmap_page_range(x, n, ri, n.off + (ri.a - n.a), bad) ELSE x
RemovePart(x, n, ri, unmapping, bad) ==
  IF ri.a = n.a /\ ri.b = n.b THEN deallocate_vmap_locked(CutPages(CutVmap(x, n, ri), n, ri, unmapping, bad), n)
  ELSE CutPages(CutVmap(x, n, ri), n, ri, unmapping, bad)
vmap_remove_intersection(x, q, unmapping, n, bad) == RemovePart(x, n, Cut(q, n), unmapping, bad)

process_remove_range_locked(x, q, unmapping, bad) ==
  InOrder(LAMBDA y, n : IF y.panic = {} THEN vmap_remove_intersection(y, q, unmapping, n, bad) ELSE y,
          Slip(x, \E t \in Threads : x.th[t].pc = "add" /\ Span(Cut(q, x.th[t])) > 0, "late"), Walk(x.vm, q))

(***************************************************************************)
(* Choosing an address                                                     *)
(***************************************************************************)
(* vmap_select_addr: range_span of a range that ends before it starts is    *)
(* huge, and the address is then anywhere                                   *)
vmap_select_addr(size, a, b, aslr) ==
  LET e == IF aslr THEN b - 1 ELSE b IN
  IF e < a THEN IF aslr THEN 0 .. NP - size ELSE {a} \cap 0 .. NP - size
  ELSE IF size > e - a THEN {}
  ELSE IF aslr THEN a .. a + (e - a + 1 - size) ELSE {a}

(* process_get_virt_range_locked: from the first gap that is large enough;  *)
(* a gap that ends at a stack is shorter by the stack's guard gap           *)
GapStarts(x) == {p \in Lo .. NP - 1 : p \in Gaps(x.vm, R(Lo, NP)) /\ (p = Lo \/ p - 1 \notin Gaps(x.vm, R(Lo, NP)))}
GapEnd(x, p) ==
  LET N == {n \in Walk(x.vm, R(Lo, NP)) : n.a > p}
      n == CHOOSE n \in N : \A m \in N : n.a <= m.a
  IN  IF N = {} THEN NP ELSE n.a - (IF "stack" \in n.fl THEN Gap ELSE 0)
Narrow(x) == \E p \in GapStarts(x) : GapEnd(x, p) - (IF left.aslr THEN 1 ELSE 0) < p
process_get_virt_range_locked(x, size) ==
  LET C(p) == vmap_select_addr(size, p, GapEnd(x, p), left.aslr)
      Fit == {p \in GapStarts(x) : C(p) # {}}
  IN  IF Fit = {} THEN {} ELSE C(Min(Fit))

(***************************************************************************)
(* System calls: c is the call, of thread t                                *)
(***************************************************************************)
Q(c) == R(c.a, c.a + c.n)
Key(c, q) == [a |-> q.a, b |-> q.b, fl |-> {"mmap", c.ty} \cup c.pr \cup (IF c.sh THEN {"shared"} ELSE {})
                                           \cup (IF c.st THEN {"stack"} ELSE {}) \cup (IF c.ty = "anon" THEN {"thp"} ELSE {}),
              al |-> IF c.ty = "file" /\ c.sh THEN c.al ELSE Prot, file |-> c.ty = "file",
              off |-> IF c.ty = "file" THEN c.off ELSE 0, hm |-> FALSE]

(* where the new mapping may go: a hint that collides is dropped *)
MmapRanges(x, c) ==
  IF c.fx \in {"fixed", "noreplace"} \/ (c.fx = "hint" /\ ~rangemap_range_intersects(x.vm, Q(c))) THEN {Q(c)}
  ELSE {R(a, a + c.n) : a \in process_get_virt_range_locked(x, c.n)}

(* the mapping under the vmap lock; a file's is registered with the cache   *)
(* after the lock is released                                               *)
MapDevice(x, c, q) ==
  IF c.ty # "custom" THEN x
  ELSE [x EXCEPT !.pte = [p \in Pages |-> IF In(p, q) THEN [NoPte EXCEPT !.k = "dev", !.w = "w" \in c.pr] ELSE @[p]]]
MakeRoom(x, c, q, bad) == IF c.fx \in {"fixed", "noreplace"} THEN process_remove_range_locked(x, q, c.ty # "custom", bad) ELSE x
NewVmap(x, t, c, q) ==
  IF x.panic # {} THEN x
  ELSE IF c.ty = "file"
  THEN [GetFd(Forget(Must(allocate_vmap_locked(x, Key(c, q))), q)) EXCEPT
          !.th[t] = [pc |-> "add", a |-> q.a, b |-> q.b, off |-> c.off, sh |-> c.sh]]
  ELSE Forget(Must(allocate_vmap_locked(x, Key(c, q))), q)
mmap(x, t, c, q, bad) ==
  NewVmap(MakeRoom(MapDevice(Slip(Slip(x, Narrow(x), "guard"), c.ty = "custom" /\ Owned(x, Present(x, q)) > 0, "custom"), c, q), c, q, bad),
          t, c, q)

Fails(x, c) == \/ c.fx = "noreplace" /\ rangemap_range_intersects(x.vm, Q(c))
               \/ c.ty = "file" /\ x.open = FALSE
               \/ c.ty = "file" /\ c.sh /\ ~(c.pr \subseteq c.al)
               \/ MmapRanges(x, c) = {}

(* pagecache_node_add_mapping, and the descriptor is put *)
AddMapping(x, t) ==
  LET o == x.th[t]
      m == [a |-> o.a, b |-> o.b, off |-> o.off, sh |-> o.sh]
      y == PutFd([x EXCEPT !.th[t] = Idle])
  IN  IF Walk(x.maps, m) # {} THEN Gone(x, "add") ELSE [y EXCEPT !.maps = @ \cup {m}]

munmap(x, c, bad) == Forget(process_remove_range_locked(x, Q(c), TRUE, bad), Q(c))

(* vmap_update_protections_locked: page by page, r.start after each node.   *)
(* update_map_flags makes every page present in the range writable, one     *)
(* that is to be copied on write included                                   *)
UpdateFlags(x, q, clear, set) ==
  FoldLeft(LAMBDA y, p : IF ~In(p, q) \/ y.panic # {} \/ rangemap_lookup(y.vm, p) = {} THEN y
                         ELSE vmap_update_flags_intersection(y, q, clear, set, CHOOSE n \in rangemap_lookup(y.vm, p) : TRUE),
           x, Ordered)
update_map_flags(x, q, w) ==
  Slip([x EXCEPT !.pte = [p \in Pages |-> IF p \in Present(x, q) THEN [@[p] EXCEPT !.w = w] ELSE @[p]]],
       w /\ \E p \in Present(x, q) : x.pte[p].k = "cache" /\ \E n \in x.vm : In(p, n) /\ "shared" \notin n.fl, "exposed")
MprotectRefusedNever(x, c) == \E n \in Walk(x.vm, Q(c)) : ~(c.pr \subseteq n.al)
MprotectRefused(x, c) == Gaps(x.vm, Q(c)) # {} \/ \E n \in Walk(x.vm, Q(c)) : ~(c.pr \subseteq n.al)
mprotect(x, c) ==
  IF MprotectRefused(x, c) THEN x
  ELSE update_map_flags(UpdateFlags(x, Q(c), Prot, c.pr), Q(c), "w" \in c.pr)

(* remap_pages moves what is mapped, over what it finds *)
remap_pages(x, new, q) ==
  LET From(p) == p - new + q.a
      Moved == {p \in Pages : From(p) \in Present(x, q)}
  IN  IF {p \in Pages : In(From(p), q)} \cap {p \in Pages : In(p, q)} # {} THEN Gone(x, "remap")
      ELSE [x EXCEPT !.pte = [p \in Pages |-> IF p \in Moved THEN @[From(p)] ELSE IF In(p, q) THEN NoPte ELSE @[p]]]
MoveStores(x, new, n, q) ==
  [x EXCEPT !.exp = [p \in Pages |-> IF In(p, R(new, new + n)) THEN (IF In(p - new + q.a, q) THEN @[p - new + q.a] ELSE 0)
                                     ELSE IF In(p, q) THEN 0 ELSE @[p]]]

(* what is mapped at old goes to new; the vmap is a copy of the old one's   *)
(* with the offset of its first page                                        *)
MovePages(x, k, old, new, remap) ==
  IF ~x.ok THEN Forget(x, old)
  ELSE IF ~remap THEN MoveStores(x, new.a, new.b - new.a, old)
  ELSE remap_pages(Slip(Slip(MoveStores(x, new.a, new.b - new.a, old), k.file, "moved"), new.b - new.a < old.b - old.a, "overrun"), new.a, old)
MoveVmap(x, k, old, new, remap) ==
  IF x.panic # {} THEN x
  ELSE MovePages(Slip(allocate_vmap_locked(x, [k EXCEPT !.a = new.a, !.b = new.b, !.hm = FALSE]), k.file /\ old.a # k.a, "offset"),
                 k, old, new, remap)
Vacate(x, c, new, bad) == IF c.fx = "fixed" THEN process_remove_range_locked(x, new, TRUE, bad) ELSE x
MoveTo(x, c, k, old, new, remap, bad) ==
  MoveVmap(Vacate(process_remove_range_locked(x, old, FALSE, bad), c, new, bad), k, old, new, remap)

(* the new places mremap may use, and whether the pages move *)
MremapChoices(x, c, k, old) ==
  IF c.fx = "fixed" THEN {<<R(c.b, c.b + c.m), TRUE>>}
  ELSE IF ~rangemap_range_intersects(x.vm, R(old.b, old.a + c.m)) /\ old.a + c.m <= NP THEN {<<R(old.a, old.a + c.m), FALSE>>}
  ELSE IF c.fx = "maymove" THEN {<<R(a, a + c.m), TRUE>> : a \in process_get_virt_range_locked(x, c.m)}
  ELSE {}

mremap(x, c, new, bad) ==
  LET k == CHOOSE n \in rangemap_lookup(x.vm, c.a) : TRUE IN
  IF c.fx # "fixed" /\ c.m <= c.n
  THEN munmap(x, [c EXCEPT !.a = c.a + c.m, !.n = c.n - c.m], bad)
  ELSE MoveTo(x, c, k, Q(c), new[1], new[2], bad)
MremapRefused(x, c) ==
  \/ rangemap_lookup(x.vm, c.a) = {}
  \/ \E k \in rangemap_lookup(x.vm, c.a) : k.b < c.a + c.n \/ "mmap" \notin k.fl \/ "custom" \in k.fl
  \/ c.fx = "fixed" /\ Span(Cut(Q(c), R(c.b, c.b + c.m))) > 0

(* madvise *)
Freed(x, q) == [x EXCEPT !.exp = [p \in Pages |-> IF In(p, q) /\ x.pte[p].k = "none" THEN 0 ELSE @[p]]]
madvise(x, c, bad) ==
  IF Gaps(x.vm, Q(c)) # {} \/ (c.ty = "dontneed" /\ \E n \in Walk(x.vm, Q(c)) : "anon" \notin n.fl) THEN x
  ELSE IF c.ty = "dontneed" THEN
    InOrder(LAMBDA y, n : IF ~y.ok THEN y
                          ELSE Freed(try_unmap_and_free_phys(y, Cut(Q(c), n), bad), Cut(Q(c), n)),
            [x EXCEPT !.ok = TRUE], Walk(x.vm, Q(c)))
  ELSE IF c.ty = "huge" THEN UpdateFlags(x, Q(c), {}, {"thp"})
  ELSE UpdateFlags(x, Q(c), {"thp"}, {})

(* brk, under the process lock: the pages are unmapped after the vmap lock   *)
(* is released.  heap_map may point to a vmap that is gone                  *)
adjust_process_heap(x, end) ==
  IF x.heap = "freed" THEN Gone(x, "heap")
  ELSE rangemap_reinsert(x, CHOOSE n \in x.vm : n.hm, R(HeapBase, end))
(* the pages of the range that no vmap has taken over *)
ForgetHeap(x, q) == [x EXCEPT !.exp = [p \in Pages |-> IF In(p, q) /\ ~(\E n \in x.vm : In(p, n)) THEN 0 ELSE @[p]]]
HeapMoved(x, t, c) ==
  IF ~x.ok \/ x.panic # {} THEN x
  ELSE IF c.a < x.brk THEN [ForgetHeap(x, R(c.a, x.brk)) EXCEPT !.th[t] = [Idle EXCEPT !.pc = "brk", !.a = c.a, !.b = x.brk]]
  ELSE [Forget(x, R(x.brk, c.a)) EXCEPT !.brk = c.a]
brk(x, t, c) == IF c.a = x.brk \/ c.a < HeapBase THEN x ELSE HeapMoved(adjust_process_heap(x, c.a), t, c)
BrkUnmap(x, t, bad) ==
  LET q == R(x.th[t].a, x.th[t].b)
  IN  [unmap_and_free_phys(Slip(x, \E n \in x.vm : Span(Cut(q, n)) > 0, "brk"), q, bad) EXCEPT !.th[t] = Idle, !.brk = q.a]

(* truncate_file_maps: a mapping that starts past the new end loses the     *)
(* pages before it, too                                                     *)
truncate_file_maps(x, len) ==
  InOrder(LAMBDA y, n : LET delta == n.off + (n.b - n.a) - len IN
            IF ~n.file \/ delta <= 0 \/ y.panic # {} THEN y
            ELSE LET v == R(n.b - delta, n.b)
                 IN  pagecache_node_unmap_pages(Slip(Slip(y, v.a < n.a, "before"), TRUE, "truncated"), v, n.off + (v.a - n.a)),
          x, x.vm)
(* filesystem_truncate, then the mappings: the stores past the end are      *)
(* discarded, the cache keeps the pages that are in use                     *)
Discard(x, c) ==
  [x EXCEPT !.sw = {i \in @ : i < c.n}, !.dirty = {i \in @ : i < c.n},
            !.exp = [p \in Pages |-> IF \E n \in x.vm : In(p, n) /\ n.file /\ n.off + (p - n.a) >= c.n THEN 0 ELSE @[p]]]
truncate(x, c) == Discard(truncate_file_maps([x EXCEPT !.len = c.n], c.n), c)

(* pagecache_scan_shared_map, for the shared mappings among M: the pages the *)
(* program has stored to become dirty in the cache and are written           *)
Scan(x, M) ==
  LET P == {p \in Pages : x.pte[p].d /\ \E m \in M : m.sh /\ In(p, m)}
      At(p) == LET m == CHOOSE m \in M : m.sh /\ In(p, m) IN m.off + p - m.a
      D == x.dirty \cup {At(p) : p \in P}
  IN  IF ~(D \subseteq x.cached) THEN Gone(x, "nopage")
      ELSE [x EXCEPT !.dirty = {}, !.sw = @ \ D, !.pte = [p \in Pages |-> IF p \in P THEN [@[p] EXCEPT !.d = FALSE] ELSE @[p]]]
(* msync: the mappings of the node that meet a shared vmap of the range *)
msync(x, c) ==
  LET Shared == {n \in Walk(x.vm, Q(c)) : {"shared", "file"} \subseteq n.fl}
  IN  IF Gaps(x.vm, Q(c)) # {} \/ Shared = {} THEN x ELSE Scan(x, UNION {Walk(x.maps, n) : n \in Shared})

(***************************************************************************)
(* Page faults                                                             *)
(***************************************************************************)
(* vmap_from_vaddr extends a stack down to p, if the gap below it remains *)
StackRoom(x, n, p) ==
  /\ "stack" \in n.fl
  /\ n.b <= p + StackLimit
  /\ \A m \in x.vm : m.a < n.a /\ (\A o \in x.vm : o.a < n.a => o.a <= m.a) => m.b <= p - Gap
vmap_from_vaddr(x, p) ==
  {IF n.a <= p THEN n ELSE [n EXCEPT !.a = p] : n \in {v \in rangemap_lookup_at_or_next(x.vm, p) : v.a <= p \/ StackRoom(x, v, p)}}
WithVmap(x, n) == [x EXCEPT !.vm = {m \in @ : m.b # n.b \/ m.a = m.b} \cup {n}]

(* VMAP_PAGE_SHRINK *)
Shrink(v, g) == LET h == g.n \div 2 IN [a |-> IF g.a + h <= v THEN g.a + h ELSE g.a, n |-> h]
Halvings == <<1, 2, 3>>
(* the largest aligned block around v within the vmap *)
GrowPage(v, n) ==
  FoldLeft(LAMBDA g, i : LET size == 2 * g.n
                             a == v - (v % size)
                         IN  IF g.n < ThpMax /\ a >= n.a /\ a + size <= n.b /\ g.n = 2^(i - 1) THEN [a |-> a, n |-> size] ELSE g,
           [a |-> v, n |-> 1], Halvings)
(* vmap_anon_ptes: shrunk until it meets no page that is present *)
AvoidPage(v, g, p) ==
  IF g.n = 0 \/ ~In(p, R(g.a, g.a + g.n)) THEN g
  ELSE IF p = v THEN [g EXCEPT !.n = 0]
  ELSE IF p < v THEN FoldLeft(LAMBDA h, i : IF h.a <= p THEN Shrink(v, h) ELSE h, g, Halvings)
  ELSE FoldLeft(LAMBDA h, i : IF h.a + h.n > p THEN Shrink(v, h) ELSE h, g, Halvings)
vmap_anon_ptes(x, v, g) == FoldLeft(LAMBDA h, p : IF x.pte[p].k # "none" THEN AvoidPage(v, h, p) ELSE h, g, Ordered)

(* new_zeroed_pages: got is TRUE if a page was allocated for the fault.     *)
(* No memory for the block: a smaller one is tried                          *)
MapZeroed(x, g, n) ==
  [x EXCEPT !.used = @ + g.n, !.ok = TRUE,
            !.pte = [p \in Pages |-> IF In(p, R(g.a, g.a + g.n)) THEN [NoPte EXCEPT !.k = "anon", !.w = "w" \in n.fl] ELSE @[p]]]
ZeroBlock(x, v, n, g, got, bad) ==
      IF g.n = 0 THEN [x EXCEPT !.used = IF got THEN @ - 1 ELSE @, !.ok = TRUE]
      ELSE IF got THEN MapZeroed([x EXCEPT !.used = @ - 1], g, n)
      ELSE IF bad = "" THEN MapZeroed(x, g, n)
      ELSE IF bad = "short" /\ g.n > 1 THEN MapZeroed(x, Shrink(v, g), n)
      ELSE [x EXCEPT !.ok = FALSE]
new_zeroed_pages(x, v, n, got, bad) ==
  ZeroBlock(x, v, n, vmap_anon_ptes(x, v, IF ~got /\ "thp" \in n.fl THEN GrowPage(v, n) ELSE [a |-> v, n |-> 1]), got, bad)

(* mmap_filebacked_page: the reference just taken is released if the page   *)
(* was mapped meanwhile                                                     *)
mmap_filebacked_page(x, p, n, off) ==
  IF x.pte[p].k = "none"
  THEN [x EXCEPT !.pte[p] = [NoPte EXCEPT !.k = "cache", !.n = off, !.w = {"shared", "w"} \subseteq n.fl]]
  ELSE [x EXCEPT !.refs[n.off + p - n.a] = @ - 1]

Anonymous(n) == n.fl \cap {"anon", "heap"} # {}

(* demand_page_internal for a new fault: done at once, or left to a handler *)
(* that runs without the lock                                               *)
OrDefer(y, x, t, p) == IF y.ok THEN y ELSE [x EXCEPT !.th[t] = [Idle EXCEPT !.pc = "anon", !.a = p]]
DemandFile(x, t, p, n, off) ==
  IF off >= x.len THEN x
  ELSE IF off \in x.cached THEN mmap_filebacked_page([x EXCEPT !.refs[off] = @ + 1], p, n, off)
  ELSE [x EXCEPT !.th[t] = [Idle EXCEPT !.pc = "file", !.a = p, !.off = off]]
DemandPage(x, t, p, n, bad) ==
  IF Anonymous(n) THEN OrDefer(new_zeroed_pages(x, p, n, FALSE, bad), x, t, p)
  ELSE IF n.file THEN DemandFile(x, t, p, n, n.off + p - n.a) ELSE x

(* pending_fault_complete, after the page was allocated, or read (got)      *)
Faulted(x, t) == vmap_from_vaddr(x, x.th[t].a)
FinishAnon(x, t, got) ==
  LET y == [x EXCEPT !.th[t] = Idle, !.used = IF got THEN @ + 1 ELSE @]
  IN  IF \E n \in Faulted(x, t) : Anonymous(n)
      THEN LET n == CHOOSE n \in Faulted(x, t) : TRUE IN new_zeroed_pages(WithVmap(y, n), x.th[t].a, n, got, "none")
      ELSE Slip(y, got, "leaked")
(* the read-ahead uses the vmap, whether there still is one or not *)
MapRead(x, p, off, n, got) ==
  IF ~n.file \/ n.off + p - n.a # off \/ off >= x.len THEN Slip(x, got, "leaked")
  ELSE IF got THEN mmap_filebacked_page(x, p, n, off) ELSE x
FinishFile(x, t, got) ==
  LET off == x.th[t].off
      y == [x EXCEPT !.th[t] = Idle, !.cached = IF got THEN @ \cup {off} ELSE @, !.refs[off] = IF got THEN @ + 1 ELSE @]
  IN  IF Faulted(x, t) = {} THEN Gone(y, "readahead")
      ELSE MapRead(y, x.th[t].a, off, CHOOSE n \in Faulted(x, t) : TRUE, got)

(* pagecache_node_do_page_cow copies the file's page *)
pagecache_node_do_page_cow(x, p, off) ==
  IF off \notin x.cached \/ x.refs[off] = 0 THEN Gone(x, "cow")
  ELSE [x EXCEPT !.used = @ + 1, !.refs[off] = @ - 1, !.pte[p] = [NoPte EXCEPT !.k = "cow", !.w = TRUE]]
handle_protection_fault(x, p, n) ==
  IF {"mmap", "w", "file"} \subseteq n.fl THEN pagecache_node_do_page_cow(x, p, n.off + p - n.a) ELSE x

(* unix_fault_handler *)
FaultIn(x, t, p, n, bad) == IF x.pte[p].k # "none" THEN handle_protection_fault(x, p, n) ELSE DemandPage(x, t, p, n, bad)
Fault(x, t, p, bad) ==
  IF vmap_from_vaddr(x, p) = {} THEN x
  ELSE LET n == CHOOSE n \in vmap_from_vaddr(x, p) : TRUE IN FaultIn(WithVmap(x, n), t, p, n, bad)

(* the processor: a store to a page that is mapped writable *)
Store(x, p) ==
  LET e == x.pte[p]
      shared == \E n \in x.vm : In(p, n) /\ {"shared", "file"} \subseteq n.fl
      y == [x EXCEPT !.pte[p] = [@ EXCEPT !.d = TRUE, !.v = IF e.k = "cache" THEN 0 ELSE 1],
                     !.exp[p] = IF shared \/ e.k = "dev" \/ ~(\E n \in x.vm : In(p, n)) THEN @ ELSE 1]
  IN  IF e.k # "cache" THEN y
      ELSE IF shared THEN [y EXCEPT !.sw = @ \cup {e.n}]
      ELSE [y EXCEPT !.leak = @ \cup {e.n}]

(***************************************************************************)
(* The program's behaviour: the calls and accesses of one use              *)
(***************************************************************************)
HeapNode == [a |-> HeapBase, b |-> HeapBase, fl |-> {"heap", "r", "w"}, al |-> {}, file |-> FALSE, off |-> 0, hm |-> TRUE]

Init ==
  /\ left \in Uses
  /\ s = [vm |-> {HeapNode}, pte |-> [p \in Pages |-> NoPte], maps |-> {}, refs |-> [i \in 0 .. FP - 1 |-> 0],
          cached |-> {}, dirty |-> {}, leak |-> {}, len |-> FP, used |-> 0, fd |-> 1, open |-> TRUE,
          closed |-> FALSE, heap |-> "held", brk |-> HeapBase, th |-> [t \in Threads |-> Idle],
          exp |-> [p \in Pages |-> 0], sw |-> {}, ok |-> TRUE, slip |-> {}, panic |-> {}]

(* a kernel that has stopped does no more *)
Settle(x) == IF x.panic = {} THEN [x EXCEPT !.ok = TRUE] ELSE [s EXCEPT !.panic = x.panic, !.slip = x.slip]
Bads == IF left.mem > 0 THEN {"", "buffer", "grow"} ELSE {""}
Spend(bad) == IF bad = "" THEN left.mem ELSE left.mem - 1

Result(x, t, c, bad) ==
  CASE c.o = "mmap" -> IF Fails(x, c) THEN {x} ELSE {mmap(x, t, c, q, bad) : q \in MmapRanges(x, c)}
    [] c.o = "munmap" -> {munmap(x, c, bad)}
    [] c.o = "mprotect" -> {mprotect(x, c)}
    [] c.o = "mremap" -> IF MremapRefused(x, c) THEN {x}
                         ELSE IF c.fx # "fixed" /\ c.m <= c.n THEN {mremap(x, c, <<>>, bad)}
                         ELSE {mremap(x, c, new, bad) : new \in MremapChoices(x, c, 0, Q(c))}
    [] c.o = "madvise" -> {madvise(x, c, bad)}
    [] c.o = "brk" -> {brk(x, t, c)}
    [] c.o = "truncate" -> {truncate(x, c)}
    [] c.o = "msync" -> {msync(x, c)}
    [] c.o = "close" -> IF x.open THEN {PutFd([x EXCEPT !.open = FALSE])} ELSE {x}

SysCall(t) ==
  /\ left.n > 0
  /\ s.th[t] = Idle
  /\ \E c \in left.calls, bad \in Bads :
       /\ bad # "" => c.o \in {"munmap", "madvise"}
       /\ c.o = "brk" => \A u \in Threads : s.th[u].pc # "brk"
       /\ \E x \in Result([s EXCEPT !.ok = TRUE], t, c, bad) : s' = Settle(x)
       /\ left' = [left EXCEPT !.n = @ - 1, !.mem = Spend(bad)]

(* an access: a store the page table allows, or else a fault *)
Access(t) ==
  /\ left.pokes > 0
  /\ s.th[t] = Idle
  /\ \E p \in left.at, write \in BOOLEAN, bad \in IF left.mem > 0 THEN {"", "short", "none"} ELSE {""} :
       /\ s.pte[p].k = "none" \/ (write /\ bad = "")
       /\ s' = Settle(IF s.pte[p].k # "none" /\ s.pte[p].w THEN Store(s, p) ELSE Fault(s, t, p, bad))
       /\ left' = [left EXCEPT !.pokes = @ - 1, !.mem = Spend(bad)]

FinishFault(t) ==
  \E got \in BOOLEAN :
    /\ got \/ left.mem > 0
    /\ \/ s.th[t].pc = "anon" /\ s' = Settle(FinishAnon(s, t, got))
       \/ s.th[t].pc = "file" /\ s' = Settle(FinishFile(s, t, got))
    /\ left' = [left EXCEPT !.mem = Spend(IF got THEN "" ELSE "bad")]

FinishCall(t) ==
  /\ \/ s.th[t].pc = "add" /\ s' = Settle(AddMapping(s, t))
     \/ s.th[t].pc = "brk" /\ s' = Settle(BrkUnmap(s, t, ""))
  /\ UNCHANGED left

(* the cache: a page nobody uses is dropped, and the timer scans the shared  *)
(* mappings                                                                 *)
Copied(x, i) == \E p \in Pages, n \in x.vm : In(p, n) /\ x.pte[p].k = "cow" /\ n.off + p - n.a = i
Evict ==
  /\ \E i \in s.cached : /\ s.refs[i] = 0
                          /\ i \notin s.dirty
                          /\ s' = [Slip(s, Copied(s, i), "evicted") EXCEPT !.cached = @ \ {i}]
  /\ UNCHANGED left
(* pagecache_check_old_page, for an evicted page of a mapping *)
Reclaim ==
  /\ \E m \in s.maps, p \in Pages :
       LET i == m.off + p - m.a IN
       /\ In(p, m)
       /\ s.pte[p].k = "cache" /\ s.pte[p].n = i /\ ~s.pte[p].d
       /\ s' = [Clear(s, {p}) EXCEPT !.refs[i] = @ - 1]
  /\ UNCHANGED left
ScanTimer ==
  /\ \E m \in s.maps : m.sh
  /\ s' = Settle(Scan(s, s.maps))
  /\ UNCHANGED left

Next ==
  /\ Running
  /\ \/ \E t \in left.who : SysCall(t) \/ Access(t) \/ FinishFault(t) \/ FinishCall(t)
     \/ Evict \/ Reclaim \/ ScanTimer

Spec == Init /\ [][Next]_vars

(***************************************************************************)
(* Properties                                                              *)
(***************************************************************************)
Excused(tags) == s.slip \cap tags # {}
VmapAt(p) == {n \in s.vm : In(p, n)}
Unmapping(p) == \E t \in Threads : s.th[t].pc = "brk" /\ In(p, s.th[t])

(* No two vmaps cover the same page (rangemap_insert) *)
VmapsAreDisjoint == \A p \in Pages : Cardinality(VmapAt(p)) <= 1

(* A page in the page table is one of its vmap's: a file's page where the   *)
(* offset says, or a page of the program's own, and writable only if the    *)
(* vmap is (demand_page_internal, update_map_flags, remap_pages)            *)
PageFits(p, n) ==
  /\ s.pte[p].w => "w" \in n.fl
  /\ s.pte[p].k = "cache" => n.file /\ (s.pte[p].n = n.off + p - n.a \/ Excused({"offset"}))
  /\ s.pte[p].k = "cow" => n.file
  /\ s.pte[p].k = "anon" => Anonymous(n)
  /\ s.pte[p].k = "dev" => "custom" \in n.fl
PagesAreCovered ==
  \A p \in Pages : s.pte[p].k # "none" =>
    \/ \E n \in VmapAt(p) : PageFits(p, n)
    \/ Unmapping(p)
    \/ Excused({"kept", "overrun"})

(* Every reference to a page of the cache is that of a page table entry,    *)
(* and every page allocated to the program is in the page table             *)
(* (pagecache_node_unmap_pages, unmap_and_free_phys)                        *)
RefsAreExact ==
  \A i \in 0 .. FP - 1 : \/ s.refs[i] = Cardinality({p \in Pages : s.pte[p].k = "cache" /\ s.pte[p].n = i})
                         \/ Excused({"leaked"})
FramesAreExact == s.used = Owned(s, Pages) \/ Excused({"leaked", "unfreed", "overrun", "custom"})

(* The file is held by its descriptor, its vmaps and the calls in progress  *)
(* (allocate_vmap_locked, deallocate_vmap_locked)                           *)
FdIsExact == s.fd = (IF s.open THEN 1 ELSE 0) + Cardinality({n \in s.vm : n.file})
                    + Cardinality({t \in Threads : s.th[t].pc = "add"})

(* A private page keeps what the program has stored in it, and is zero (or  *)
(* the file's) before that, until it is unmapped                            *)
StoresAreKept ==
  \A p \in Pages :
    \/ s.exp[p] = 1 => s.pte[p].k \in {"anon", "cow"} /\ s.pte[p].v = 1
    \/ Excused({"exposed", "brk"})
FreshIsZero ==
  \A p \in Pages : s.exp[p] = 0 /\ (\E n \in VmapAt(p) : Anonymous(n)) /\ s.pte[p].k # "none" =>
    s.pte[p].v = 0 \/ Unmapping(p) \/ Excused({"kept", "overrun"})

(* A store to a private mapping does not reach the file *)
PrivateIsPrivate == s.leak = {} \/ Excused({"exposed"})

(* A store through a shared mapping is seen by the cache, now or at its     *)
(* next scan                                                                *)
SharedReachesFile ==
  \A i \in s.sw : \/ i \in s.dirty
                  \/ \E p \in Pages : /\ s.pte[p].k = "cache" /\ s.pte[p].n = i /\ s.pte[p].d
                                      /\ \/ \E m \in s.maps : m.sh /\ In(p, m)
                                         \/ \E t \in Threads : s.th[t].pc = "add" /\ In(p, s.th[t])
                  \/ Excused({"moved", "truncated", "late", "offset"})

(* The kernel stops only for reasons that are known *)
Known == {<<"nopage", "evicted">>, <<"nopage", "before">>, <<"nopage", "offset">>, <<"nopage", "late">>, <<"freed", "offset">>, <<"vmap_assert", "guard">>,
          <<"add", "moved">>, <<"add", "late">>, <<"freed", "brk">>}
PanicsAreKnown ==
  \A what \in s.panic :
    \/ \E tag \in s.slip : <<what, tag>> \in Known
    \/ what = "insert" /\ \E n \in s.vm : n.hm /\ n.a = n.b
    \/ what = "heap" /\ s.heap = "freed"
    \/ what = "file" /\ ~s.open
    \/ what = "readahead" /\ \E t \in Threads : s.th[t].pc = "file" /\ VmapAt(s.th[t].a) = {}

SpaceIsSound == VmapsAreDisjoint /\ PagesAreCovered /\ RefsAreExact /\ FramesAreExact /\ FdIsExact /\ StoresAreKept
                /\ FreshIsZero /\ PrivateIsPrivate /\ SharedReachesFile /\ PanicsAreKnown

(* What the program sees, and the case in which that is not what it asked   *)
(* for: a part of a file mapping moved by mremap                            *)
Sound == ~Excused({"offset"})
View ==
  [p \in Pages |-> IF VmapAt(p) = {} THEN [ty |-> "none", pr |-> {}, sh |-> FALSE, fo |-> 0]
                   ELSE LET n == CHOOSE n \in VmapAt(p) : TRUE
                        IN  [ty |-> CHOOSE ty \in {"anon", "file", "custom", "heap"} : ty \in n.fl, pr |-> n.fl \cap Prot,
                             sh |-> "shared" \in n.fl, fo |-> IF n.file THEN n.off + p - n.a ELSE 0]]
=============================================================================
