------------------------------- MODULE Heaps -------------------------------
(***************************************************************************)
(* The kernel's heaps: the buddy allocator of physical pages               *)
(* (runtime/heap/page.c), the id heap over bitmaps (id.c, bitmap.c), the   *)
(* object caches and the multi-cache heap over them (objcache.c, mcache.c) *)
(* and the wrappers that map pages or keep a reserve (page_backed_heap.c,  *)
(* reserve.c).                                                             *)
(* A behaviour is a sequence of calls on one heap, left.kind; s is that    *)
(* heap.  Addresses and sizes count pages (objects: slots of a page).      *)
(*   live   what the callers hold: blocks [a, n]                           *)
(*   last   the block the last call gave, miss the size the last call could not allocate, 0 if it could       *)
(***************************************************************************)
EXTENDS Integers, Sequences, FiniteSets, SequencesExt, FiniteSetsExt

CONSTANTS
  MaxOrder,            \* the largest block of the page heap has 2^MaxOrder pages
  AREA_MAX,            \* PAGEHEAP_AREA_MAX_PAGES
  HeadFixed, HeadPer,  \* an area of n pages has a header of (HeadFixed + n) / HeadPer pages
  WORD,                \* BITMAP_WORDLEN
  NEXT_BIT_COUNT,
  Slots,               \* slots in a page of objects, the footer included
  ParentPages,         \* pages the object caches' parent has
  Uses

VARIABLES s, left
vars == <<s, left>>

Pow2(k) == 2 ^ k
find_order(n) == CHOOSE k \in 0 .. 8 : Pow2(k) >= n /\ (k = 0 \/ Pow2(k - 1) < n)
lsb(n) == CHOOSE k \in 0 .. 8 : n % Pow2(k) = 0 /\ n % Pow2(k + 1) # 0
PadTo(n, a) == ((n + a - 1) \div a) * a
DownTo(n, a) == n - (n % a)
Lesser(a, b) == IF a < b THEN a ELSE b
Greater(a, b) == IF a < b THEN b ELSE a
Block(a, n) == [a |-> a, n |-> n]
PagesOf(b) == b.a .. b.a + b.n - 1
Gone(x, what) == [x EXCEPT !.panic = @ \cup {what}]
Slip(x, cond, tag) == IF cond THEN [x EXCEPT !.slip = @ \cup {tag}] ELSE x
Running == s.panic = {}

(* the callers' side of a call that returns a block, or none *)
Given(x, a, n) == [x EXCEPT !.live = @ \cup {Block(a, n)}, !.last = Block(a, n), !.miss = 0]
Denied(x, n) == [x EXCEPT !.miss = n, !.last = Block(0, 0)]
(* a caller may free a block in parts *)
Parts(b) == {p \in [a : PagesOf(b), n : 1 .. b.n] : p.a + p.n <= b.a + b.n}
Without(x, b, part) ==
  [x EXCEPT !.miss = 0, !.last = Block(0, 0),
            !.live = (@ \ {b}) \cup {r \in {Block(b.a, part.a - b.a), Block(part.a + part.n, b.a + b.n - part.a - part.n)} : r.n > 0}]

(***************************************************************************)
(* The page heap: areas of pages, each with a header that has the free     *)
(* lists (links between page numbers of the area) and a bit for each pair  *)
(* of buddies, set when one of the two is free.  NIL, the end of a list,   *)
(* is also the number of the last page of an area of AREA_MAX pages: an    *)
(* area where that page is put on a list alone loses the list (lost).      *)
(***************************************************************************)
NIL == AREA_MAX - 1
Orders == 0 .. MaxOrder
Header(n) == (HeadFixed + n + HeadPer - 1) \div HeadPer
MinArea == Header(1) + 1

page_buddy_index(i, o) == IF (i \div Pow2(o)) % 2 = 0 THEN i + Pow2(o) ELSE i - Pow2(o)
FirstBuddy(i, o) == (i \div Pow2(o)) % 2 = 0
page_buddy_bit(i, o) == <<o, i \div Pow2(o + 1)>>
page_buddy_set(a, i, o) == [a EXCEPT !.bud = @ \cup {page_buddy_bit(i, o)}]
page_buddy_clear(a, i, o) == [a EXCEPT !.bud = @ \ {page_buddy_bit(i, o)}]

pageheap_add_free(a, i, o) ==
  [a EXCEPT !.nx[i] = a.first[o], !.first[o] = i, !.lost = @ \/ i = NIL,
            !.pv = [k \in DOMAIN @ |-> IF k = i THEN NIL ELSE IF k = a.first[o] /\ k # NIL THEN i ELSE @[k]]]
(* the links of a page that leaves a list are not read again *)
pageheap_remove_freeHead(a, i, o) ==
  [a EXCEPT !.nx = [k \in DOMAIN @ |-> IF k = i THEN NIL ELSE IF k = a.pv[i] /\ k # NIL THEN a.nx[i] ELSE @[k]],
            !.pv = [k \in DOMAIN @ |-> IF k = i THEN NIL ELSE IF k = a.nx[i] /\ k # NIL THEN a.pv[i] ELSE @[k]],
            !.first[o] = a.nx[i]]
pageheap_remove_free(a, i, o) ==
  [a EXCEPT !.nx = [k \in DOMAIN @ |-> IF k = i THEN NIL ELSE IF k = a.pv[i] /\ k # NIL THEN a.nx[i] ELSE @[k]],
            !.pv = [k \in DOMAIN @ |-> IF k = i THEN NIL ELSE IF k = a.nx[i] /\ k # NIL THEN a.pv[i] ELSE @[k]],
            !.first[o] = IF a.pv[i] = NIL THEN a.nx[i] ELSE @]
Alone(a, i) == a.pv[i] = NIL /\ a.nx[i] = NIL

RECURSIVE TailOf(_, _), FreeList(_, _)
TailOf(a, i) == IF a.nx[i] = NIL THEN i ELSE TailOf(a, a.nx[i])
FreeList(a, i) == IF i = NIL THEN {} ELSE {i} \cup FreeList(a, a.nx[i])

(* pageheap_area_new: how many pages fit, with the header that many need *)
RECURSIVE CheckAreaSize(_, _, _)
CheckAreaSize(start, end, n) ==
  LET h == Header(n)
      over == DownTo(start + h, Pow2(MaxOrder)) + n - end
      less == over - (h - Header(n - over))
      align == Pow2(MaxOrder) - 1
  IN  IF over <= 0 THEN n
      ELSE IF over >= n THEN CheckAreaSize(start, end, align + h)
      ELSE IF less = over THEN CheckAreaSize(start, end, n - over)
      ELSE CheckAreaSize(start, end, n - (IF less > align THEN less - align ELSE 1))

(* the pages from i on, in blocks as large as their alignment allows; the    *)
(* order goes up to the largest and down again at the end                    *)
UpOrder(i, o) == IF i = 0 THEN MaxOrder ELSE Greater(o, Lesser(MaxOrder, lsb(i)))
DownOrder(n, o) == Max({k \in 0 .. o : k = 0 \/ Pow2(k) <= n})
AppendFree(a, i, o) ==
  IF a.first[o] = NIL THEN [a EXCEPT !.first[o] = i]
  ELSE LET t == TailOf(a, a.first[o]) IN [a EXCEPT !.nx[t] = i, !.pv[i] = t]
(* a block that is the second of its pair, its buddy outside the area *)
Orphans(a, i, up, down, new) ==
  {page_buddy_bit(i, o) : o \in {k \in down + 1 .. up : k < MaxOrder /\ ~FirstBuddy(i, k)}}
    \cup {page_buddy_bit(i, o) : o \in {k \in {down} : k < MaxOrder /\ ~FirstBuddy(i, k) /\ new}}
RECURSIVE FillArea(_, _, _)
FillArea(a, i, o) ==
  IF i >= a.n THEN IF o < MaxOrder /\ ~FirstBuddy(a.n, o) THEN page_buddy_set(a, a.n, o) ELSE a
  ELSE LET up == UpOrder(i, o)
           down == DownOrder(a.n - i, up)
           b == [a EXCEPT !.bud = @ \cup Orphans(a, i, up, down, up # o \/ down # up \/ i = a.from)]
       IN  FillArea(AppendFree(b, i, down), i + Pow2(down), down)

NewArea(start, n) ==
  LET at == start + Header(n) IN
  FillArea([n |-> n, base |-> DownTo(at, Pow2(MaxOrder)), from |-> at % Pow2(MaxOrder), bud |-> {}, lost |-> FALSE, first |-> [o \in Orders |-> NIL],
            pv |-> [i \in 0 .. AREA_MAX |-> NIL], nx |-> [i \in 0 .. AREA_MAX |-> NIL]], at % Pow2(MaxOrder), 0)
MaxFree(a) == Max({-1} \cup {o \in Orders : a.first[o] # NIL})

Unlist(lists, k) == [o \in Orders |-> SelectSeq(lists[o], LAMBDA j : j # k)]
ListFirst(lists, k, order) == [o \in Orders |-> IF o = order THEN <<k>> \o lists[o] ELSE lists[o]]
ListLast(lists, k, order) == [o \in Orders |-> IF o = order THEN Append(lists[o], k) ELSE lists[o]]

(* the range's next area does not cross a boundary of AREA_MAX pages *)
NextBoundary(p) == PadTo(p + 1, AREA_MAX)
Start(r) == IF r.init + MinArea > NextBoundary(r.init) THEN NextBoundary(r.init) ELSE r.init
HasRoom(r) == r.init + MinArea <= r.b /\ Start(r) + MinArea <= r.b
pageheap_area_new(x, k) ==
  LET r == x.ranges[k]
      end == Lesser(r.b, NextBoundary(Start(r)))
      n == CheckAreaSize(Start(r), end, AREA_MAX)
      a == NewArea(Start(r), n)
  IN  [x EXCEPT !.ranges[k].init = Start(r) + Header(n) + n - a.from,
                !.areas = @ @@ (Start(r) :> a),
                !.lists = ListFirst(@, Start(r), MaxFree(a))]

RECURSIVE DeallocPage(_, _, _, _), DeallocFrom(_, _, _, _)
(* pageheap_dealloc_page; upd is the last order whose list became empty, or   *)
(* stopped being so                                                          *)
DeallocPage(a, i, o, upd) ==
  LET b == page_buddy_index(i, o) IN
  IF o < MaxOrder /\ page_buddy_bit(i, o) \in a.bud
  THEN DeallocPage(pageheap_remove_free(page_buddy_clear(a, i, o), b, o), Lesser(i, b), o + 1, IF Alone(a, b) THEN o ELSE upd)
  ELSE [a |-> pageheap_add_free(IF o < MaxOrder THEN page_buddy_set(a, i, o) ELSE a, i, o),
        upd |-> IF a.first[o] = NIL THEN o ELSE upd]
(* pageheap_dealloc_locked: the range in blocks of the order of its alignment *)
DeallocOrder(i, end) ==
  LET o == IF i > 0 THEN Lesser(lsb(i), find_order(end - i)) ELSE find_order(end - i)
  IN  IF i + Pow2(o) > end THEN o - 1 ELSE o
DeallocFrom(a, i, end, upd) ==
  IF i >= end THEN [a |-> a, upd |-> upd]
  ELSE LET o == DeallocOrder(i, end)
           r == DeallocPage(a, i, o, -1)
       IN  DeallocFrom(r.a, i + Pow2(o), end, Greater(upd, r.upd))

pageheap_area_from_page(x, p) ==
  LET r == CHOOSE r \in Range(x.ranges) : r.a <= p /\ p < r.b IN Greater(DownTo(p, AREA_MAX), r.a)

PagesFreed(x, k, r, n) ==
  LET top == Max({0} \cup {o \in r.upd .. MaxOrder : r.a.first[o] # NIL}) IN
  [x EXCEPT !.areas[k] = r.a, !.alc = @ - n,
            !.lists = IF r.upd >= 0 /\ top = r.upd THEN ListFirst(Unlist(@, k), k, top) ELSE @]
pageheap_dealloc(x, p, n) ==
  LET k == pageheap_area_from_page(x, p)
      a == x.areas[k]
  IN  IF p - a.base >= a.n THEN Gone(x, "area")
      ELSE PagesFreed(x, k, DeallocFrom(a, p - a.base, p - a.base + n, -1), n)

(* the block is split down to the order asked for, and what was not asked     *)
(* for goes back                                                             *)
Split(a, i, from, o) ==
  FoldLeft(LAMBDA b, j : pageheap_add_free(page_buddy_set(b, i, from - j), page_buddy_index(i, from - j), from - j),
           a, [j \in 1 .. from - o |-> j])
TakePages(x, k, lo, o, n) ==
  LET a == x.areas[k]
      f == Min({j \in o .. MaxOrder : a.first[j] # NIL})
      i == a.first[f]
      b == pageheap_remove_free(IF f < MaxOrder THEN page_buddy_clear(a, i, f) ELSE a, i, f)
      c == DeallocFrom(Split(b, i, f, o), i + n, i + Pow2(o), -1).a
      below == Max({-1} \cup {j \in 0 .. lo - 1 : c.first[j] # NIL})
      gone == Alone(a, i) /\ f = lo
  IN  Given([x EXCEPT !.areas[k] = c, !.alc = @ + n,
                      !.lists = IF ~gone THEN @ ELSE IF below < 0 THEN Unlist(@, k) ELSE ListLast(Unlist(@, k), k, below)],
            a.base + i, n)
RECURSIVE pageheap_alloc(_, _)
pageheap_alloc(x, n) ==
  LET o == find_order(n)
      listed == {j \in o .. MaxOrder : x.lists[j] # <<>>}
      roomy == {k \in DOMAIN x.ranges : HasRoom(x.ranges[k])}
  IN  IF o > MaxOrder THEN Denied(x, n)
      ELSE IF listed # {} /\ MaxFree(x.areas[Head(x.lists[Min(listed)])]) < o THEN Gone(x, "lost")
      ELSE IF listed # {} THEN TakePages(x, Head(x.lists[Min(listed)]), Min(listed), o, n)
      ELSE IF roomy = {} THEN Denied(x, n)
      ELSE pageheap_alloc(pageheap_area_new(x, Min(roomy)), n)
pageheap_add_range(x, r) == [x EXCEPT !.ranges = Append(@, [a |-> r.a, b |-> r.b, init |-> r.a]), !.total = @ + r.b - r.a]

(***************************************************************************)
(* The id heap: ranges of pages, each with a bitmap that starts at a word  *)
(* boundary (bs) and, for each order, where to look next (nb)              *)
(***************************************************************************)
Bits(bit, n) == bit .. bit + n - 1
(* bitmap_alloc_internal: from start in steps of the stride, and at each new *)
(* word from its first bit; of a block that leaves its word, the bits in the *)
(* word are looked at                                                       *)
Places(n, start, end) ==
  LET stride == Pow2(find_order(n)) IN
  {p \in start .. end - n : IF stride >= WORD \/ p \div WORD = start \div WORD THEN (p - start) % stride = 0 ELSE (p % WORD) % stride = 0}
LookedAt(p, n) == IF Pow2(find_order(n)) >= WORD THEN Bits(p, n) ELSE {q \in Bits(p, n) : q \div WORD = p \div WORD}
bitmap_alloc_within_range(map, n, start, end) ==
  LET free == {p \in Places(n, start, end) : LookedAt(p, n) \cap map = {}} IN IF free = {} THEN -1 ELSE Min(free)

get_next_bit(r, o) == r.nb[Lesser(o, NEXT_BIT_COUNT - 1)]
set_next_bit(r, o, bit) == IF o < NEXT_BIT_COUNT THEN [r EXCEPT !.nb[o] = bit] ELSE r

(* where a search may start: anywhere when the heap is randomized *)
StartBits(x, r, n, st, en) ==
  LET rounded == Pow2(find_order(n))
      span == DownTo(en - st, rounded)
      margin == IF span > rounded THEN span - rounded ELSE 0
      next == get_next_bit(r, find_order(n))
  IN  IF x.rnd /\ margin > 0 THEN Bits(st, margin)
      ELSE IF st <= next /\ next < en THEN {Lesser(next, st + margin)} ELSE {st}
FindBit(r, n, bit, st, en) ==
  LET first == bitmap_alloc_within_range(r.map, n, bit, Lesser(en, r.b - r.bs))
  IN  IF first = -1 /\ bit > st THEN bitmap_alloc_within_range(r.map, n, st, bit) ELSE first
TakeBits(x, k, n, start, bit) ==
  LET r == x.ranges[k]
      o == find_order(n)
  IN  Given(Slip([x EXCEPT !.ranges[k] = set_next_bit([r EXCEPT !.map = @ \cup Bits(bit, n)], o, bit + Pow2(o)), !.alc = @ + n],
                 start % Pow2(o) # 0, "unaligned"), r.bs + bit, n)
(* id_alloc_from_range: the states it may lead to, none if it finds nothing *)
id_alloc_from_range(x, k, n, sub) ==
  LET r == x.ranges[k]
      a == Greater(r.a, sub.a)
      b == Lesser(r.b, sub.b)
      st == PadTo(a, Pow2(find_order(n))) - r.bs
      en == b - r.bs
  IN  IF a >= b \/ en - st < n THEN {}
      ELSE {TakeBits(x, k, n, p[1], p[2]) : p \in {q \in {<<bit, FindBit(r, n, bit, st, en)>> : bit \in StartBits(x, r, n, st, en)} : q[2] >= 0}}
(* a randomized search may miss what another start would find *)
MayMiss(x, k, n, sub) ==
  LET r == x.ranges[k]
      a == Greater(r.a, sub.a)
      st == PadTo(a, Pow2(find_order(n))) - r.bs
      en == Lesser(r.b, sub.b) - r.bs
  IN  a >= Lesser(r.b, sub.b) \/ en - st < n \/ \E bit \in StartBits(x, r, n, st, en) : FindBit(r, n, bit, st, en) < 0

(* id_add_range: a range that fails after it was inserted stays there *)
id_add_range(x, a, n, bad) ==
  LET r == [a |-> a, b |-> a + n, bs |-> DownTo(a, WORD), map |-> Bits(0, a % WORD), nb |-> [o \in 0 .. NEXT_BIT_COUNT - 1 |-> 0], dead |-> bad = "bitmap"]
      before == SelectSeq(x.ranges, LAMBDA q : q.a < a)
  IN  IF bad = "node" THEN Gone(x, "node")
      ELSE IF \E q \in Range(x.ranges) : q.a < r.b /\ a < q.b THEN x
      ELSE [x EXCEPT !.ranges = before \o <<r>> \o SubSeq(x.ranges, Len(before) + 1, Len(x.ranges)),
                     !.total = IF bad = "bitmap" THEN @ ELSE @ + n]
(* the parent gives blocks of its page size, one after the other *)
id_get_backed_page(x, n, bad) ==
  LET len == PadTo(n, x.par.size) IN
  IF x.par.left < len THEN x
  ELSE id_add_range([x EXCEPT !.par = [@ EXCEPT !.next = @ + len, !.left = @ - len]], x.par.next, len, bad)

Whole == [a |-> 0, b |-> 1000]
RECURSIVE AllocFrom(_, _, _, _)
AllocFrom(x, k, n, sub) ==
  IF k > Len(x.ranges) THEN {Denied(x, n)}
  ELSE IF x.ranges[k].dead THEN {Gone(x, "range")}
  ELSE id_alloc_from_range(x, k, n, sub) \cup (IF MayMiss(x, k, n, sub) THEN AllocFrom(x, k + 1, n, sub) ELSE {})
id_alloc(x, n, bad) ==
  UNION {IF y.miss = 0 \/ y.panic # {} \/ x.par.size = 0 THEN {y}
         ELSE LET z == id_get_backed_page(y, n, bad)
                  new == {k \in DOMAIN z.ranges : ~\E j \in DOMAIN y.ranges : y.ranges[j].a = z.ranges[k].a}
                  got == IF new = {} \/ bad # "" THEN {} ELSE id_alloc_from_range(z, Min(new), n, Whole)
              IN  IF got = {} THEN {z} ELSE got
         : y \in AllocFrom(x, 1, n, Whole)}
alloc_subrange(x, n, sub) == IF sub.a >= sub.b \/ sub.b - sub.a < n THEN {Denied(x, n)} ELSE AllocFrom(x, 1, n, sub)

(* the ranges that an operation on q goes through, in order, up to a gap *)
Meets(r, q) == r.a < q.a + q.n /\ q.a < r.b
Reached(x, q) == SelectSeq([k \in DOMAIN x.ranges |-> k], LAMBDA k : Meets(x.ranges[k], q) /\ \A p \in q.a .. x.ranges[k].a - 1 : \E j \in DOMAIN x.ranges : x.ranges[j].a <= p /\ p < x.ranges[j].b)
Covered(x, q) == \A p \in PagesOf(q) : \E j \in DOMAIN x.ranges : x.ranges[j].a <= p /\ p < x.ranges[j].b
CutBits(r, q) == {p - r.bs : p \in {p \in PagesOf(q) : r.a <= p /\ p < r.b}}
AnyDead(x) == \E r \in Range(x.ranges) : r.dead

dealloc_from_range(x, k, q) ==
  LET r == x.ranges[k]
      bits == CutBits(r, q)
      n == Cardinality(bits)
      o == find_order(n)
  IN  IF ~(bits \subseteq r.map) THEN x
      ELSE [x EXCEPT !.alc = @ - n,
                     !.ranges[k] = IF n = Pow2(o) /\ (Min(bits) + r.bs) % n = 0 /\ Min(bits) < get_next_bit(r, o)
                                   THEN set_next_bit([r EXCEPT !.map = @ \ bits], o, Min(bits)) ELSE [r EXCEPT !.map = @ \ bits]]
id_dealloc(x, q) ==
  IF AnyDead(x) THEN Gone(x, "range") ELSE FoldLeft(LAMBDA y, k : dealloc_from_range(y, k, q), x, Reached(x, q))

(* set_area: the bits of each range in turn; one that fails leaves those of   *)
(* the ranges before it                                                      *)
set_intersection(y, k, q, validate, allocate) ==
  LET bits == CutBits(y.ranges[k], q) IN
  IF ~y.ok \/ (validate /\ IF allocate THEN bits \cap y.ranges[k].map # {} ELSE ~(bits \subseteq y.ranges[k].map)) THEN [y EXCEPT !.ok = FALSE]
  ELSE [y EXCEPT !.ranges[k].map = IF allocate THEN @ \cup bits ELSE @ \ bits]
set_area(x, q, validate, allocate) ==
  LET y == FoldLeft(LAMBDA z, k : set_intersection(z, k, q, validate, allocate), [x EXCEPT !.ok = TRUE], Reached(x, q))
      ok == y.ok /\ Covered(x, q)
      z == Slip([y EXCEPT !.ok = ok, !.miss = 0, !.last = Block(0, 0)], ~ok /\ y.ranges # x.ranges, "partial")
  IN  IF AnyDead(x) THEN Gone(x, "range")
      ELSE IF ~ok THEN z
      ELSE [z EXCEPT !.resv = IF allocate THEN @ \cup PagesOf(q) ELSE @ \ PagesOf(q),
                     !.alc = IF ~validate THEN @ ELSE IF allocate THEN @ + q.n ELSE @ - q.n,
                     !.slip = IF validate THEN @ ELSE @ \cup {"uncounted"}]
set_next(x, n, next) ==
  [x EXCEPT !.ranges = [k \in DOMAIN @ |-> IF @[k].a <= next /\ next < @[k].b THEN set_next_bit(@[k], find_order(n), next - @[k].bs)
                                           ELSE IF @[k].a > next THEN set_next_bit(@[k], find_order(n), 0) ELSE @[k]]]

(***************************************************************************)
(* The object caches, one for each of the sizes 1 and 2, and the heap over  *)
(* them; the parent gives whole pages.  An address is a page's number times *)
(* Slots, plus a slot; the last slot of a page is its footer.               *)
(***************************************************************************)
Caches == {1, 2}
Threshold == 2
objs_per_page(c) == (Slots - 1) \div c
NoPage == [c |-> 0, free |-> <<>>, head |-> 0, avail |-> 0]
FreePage == [NoPage EXCEPT !.c = -1]

(* the parent heap: n pages in a row, or none *)
Runs(x, n) == {p \in 1 .. ParentPages - n + 1 : \A q \in p .. p + n - 1 : x.pg[q] = FreePage}
PutPages(x, P, to) == [x EXCEPT !.pg = [q \in DOMAIN @ |-> IF q \in P THEN to ELSE @[q]]]

(* objcache_addpage, objcache_removepage *)
objcache_addpage(x, c, p) ==
  [PutPages(x, {p}, [c |-> c, free |-> <<>>, head |-> 0, avail |-> objs_per_page(c)]) EXCEPT !.fl[c] = <<p>> \o @, !.tot[c] = @ + objs_per_page(c)]
objcache_removepage(x, c, p) ==
  [PutPages(x, {p}, FreePage) EXCEPT !.fl[c] = SelectSeq(@, LAMBDA q : q # p), !.tot[c] = @ - objs_per_page(c)]

(* the object taken from page p: a recycled one, or else the next unused one *)
TakeObject(x, c, p, n) ==
  LET g == x.pg[p]
      i == IF g.free # <<>> THEN Head(g.free) ELSE g.head
      y == [x EXCEPT !.pg[p] = IF g.free # <<>> THEN [g EXCEPT !.free = Tail(@), !.avail = @ - 1] ELSE [g EXCEPT !.head = @ + 1, !.avail = @ - 1],
                     !.alc[c] = @ + 1]
  IN  IF g.free = <<>> /\ g.head >= objs_per_page(c) THEN Gone(x, "head")
      ELSE Given([y EXCEPT !.fl[c] = IF g.avail = 1 THEN SelectSeq(@, LAMBDA q : q # p) ELSE @,
                           !.full[c] = IF g.avail = 1 THEN Append(@, p) ELSE @], p * Slots + i * c, n)
objcache_allocate(x, c, n, bad) ==
  IF x.fl[c] # <<>> THEN TakeObject(x, c, Head(x.fl[c]), n)
  ELSE IF x.only \/ bad \/ Runs(x, 1) = {} THEN Denied(x, n)
  ELSE TakeObject(objcache_addpage(x, c, Min(Runs(x, 1))), c, Min(Runs(x, 1)), n)

objcache_deallocate(x, c, a) ==
  LET p == a \div Slots
      g == x.pg[p]
  IN  IF g.avail >= objs_per_page(c) \/ x.alc[c] = 0 THEN Gone(x, "avail")
      ELSE [x EXCEPT !.pg[p] = [g EXCEPT !.free = <<(a % Slots) \div c>> \o @, !.avail = @ + 1], !.alc[c] = @ - 1,
                     !.full[c] = SelectSeq(@, LAMBDA q : q # p),
                     !.fl[c] = IF g.avail = 0 THEN <<p>> \o @ ELSE @]

(* objcache_drain: empty pages are given back, first those that come after    *)
(* enough of what is kept, then those beyond it                              *)
DrainFirst(d, c, p, size, retain) ==
  IF d.out >= size THEN d
  ELSE IF d.kept >= retain /\ d.x.pg[p].avail = objs_per_page(c) THEN [d EXCEPT !.x = objcache_removepage(@, c, p), !.out = @ + Slots]
  ELSE [d EXCEPT !.kept = @ + d.x.pg[p].avail * c]
DrainMore(d, c, p, size, retain) ==
  IF d.out >= size \/ d.stop \/ d.kept < retain + Slots THEN [d EXCEPT !.stop = TRUE]
  ELSE IF d.x.pg[p].avail # objs_per_page(c) THEN d
  ELSE [d EXCEPT !.x = objcache_removepage(@, c, p), !.out = @ + Slots, !.kept = @ - Slots]
objcache_drain(x, c, size, retain) ==
  LET one == FoldLeft(LAMBDA d, p : DrainFirst(d, c, p, size, retain), [x |-> x, kept |-> 0, out |-> 0, stop |-> FALSE], x.fl[c])
  IN  FoldLeft(LAMBDA d, p : DrainMore(d, c, p, size, retain), one, one.x.fl[c]).x

(* objcache_validate: what must hold of a page on the free list, of one on    *)
(* the full list, and of the counts                                          *)
ValidFree(x, c, p) ==
  LET g == x.pg[p] IN
  /\ g.c = c /\ g.avail > 0
  /\ \A i \in DOMAIN g.free : g.free[i] < objs_per_page(c)
  /\ g.head <= objs_per_page(c)
  /\ Len(g.free) + objs_per_page(c) - g.head = g.avail
ValidFull(x, c, p) == LET g == x.pg[p] IN g.c = c /\ g.avail = 0 /\ g.free = <<>> /\ g.head >= objs_per_page(c)
objcache_validate(x, c) ==
  /\ \A p \in Range(x.fl[c]) : ValidFree(x, c, p)
  /\ \A p \in Range(x.full[c]) : ValidFull(x, c, p)
  /\ (Len(x.fl[c]) + Len(x.full[c])) * objs_per_page(c) = x.tot[c]
  /\ x.tot[c] - FoldLeft(LAMBDA n, p : n + x.pg[p].avail, 0, x.fl[c]) = x.alc[c]

(* mcache_alloc: the smallest cache that fits, or the parent; mcache_dealloc, *)
(* with a size (n) or, from free(), without one (0)                          *)
PageCount(n) == (n + Slots - 1) \div Slots
CacheFor(n) == Min({c \in Caches : n <= c})
mcache_alloc(x, n, bad) ==
  IF n <= Threshold
  THEN LET y == objcache_allocate(x, CacheFor(n), n, bad) IN IF y.miss # 0 THEN y ELSE [y EXCEPT !.all = @ + CacheFor(n)]
  ELSE IF bad \/ Runs(x, PageCount(n)) = {} THEN Denied(x, n)
  ELSE LET p == Min(Runs(x, PageCount(n)))
           y == PutPages(x, p .. p + PageCount(n) - 1, NoPage)
       IN  Given([y EXCEPT !.all = @ + PageCount(n) * Slots, !.fb[p] = IF x.mall THEN n ELSE @], p * Slots, n)
FreeFallback(x, p, n) ==
  IF \E q \in p .. p + PageCount(n) - 1 : x.pg[q].c > 0 THEN Gone(x, "stale")
  ELSE [PutPages(x, p .. p + PageCount(n) - 1, FreePage) EXCEPT !.all = @ - PageCount(n) * Slots]
mcache_dealloc(x, a, n) ==
  LET p == a \div Slots
      noted == IF n = 0 /\ a % Slots = 0 THEN x.fb[p] ELSE 0
      y == IF noted > 0 THEN [x EXCEPT !.fb[p] = 0] ELSE x
  IN  IF n > Threshold THEN FreeFallback(Slip(y, x.fb[p] > 0, "sized"), p, n)
      ELSE IF noted > 0 THEN FreeFallback(y, p, noted)
      ELSE IF y.pg[p].c <= 0 THEN Slip(y, TRUE, "nocache")
      ELSE IF y.all < y.pg[p].c THEN Gone(y, "count")
      ELSE objcache_deallocate([y EXCEPT !.all = @ - y.pg[p].c], y.pg[p].c, a)

(***************************************************************************)
(* The backed heaps over a physical and a virtual heap of pages, and the   *)
(* wrapper that keeps a reserve: its check and the allocation are not one  *)
(* step                                                                    *)
(***************************************************************************)
Frames(x, n) == {p \in 0 .. x.size - n : \A q \in p .. p + n - 1 : q \notin x.phys}
(* page_backed_alloc_map: virtual addresses may run out after the physical *)
page_backed_alloc_map(x, n, bad) ==
  IF Frames(x, n) = {} \/ bad THEN Denied(x, n)
  ELSE Given([x EXCEPT !.phys = @ \cup Bits(Min(Frames(x, n)), n), !.map = @ \cup Bits(Min(Frames(x, n)), n)], Min(Frames(x, n)), n)
(* linear_backed_alloc_internal: pages past the limit have no address *)
linear_backed_alloc_internal(x, n) ==
  IF Frames(x, n) = {} THEN Denied(x, n)
  ELSE LET p == Min(Frames(x, n)) IN
       IF p + n > x.limit THEN Denied(x, n) ELSE Given([x EXCEPT !.phys = @ \cup Bits(p, n)], p, n)
BackedAlloc(x, n, bad) == IF x.linear THEN linear_backed_alloc_internal(x, n) ELSE page_backed_alloc_map(x, n, bad)
page_backed_dealloc_unmap(x, b) == [x EXCEPT !.phys = @ \ PagesOf(b), !.map = @ \ PagesOf(b)]
HeapFree(x) == x.size - Cardinality(x.phys)
reservelock_alloc(x, t, n) ==
  IF HeapFree(x) < x.reserved + n THEN Denied(x, n) ELSE [x EXCEPT !.th[t] = n, !.miss = 0, !.last = Block(0, 0)]
ReservedAlloc(x, t, bad) ==
  LET y == BackedAlloc([x EXCEPT !.th[t] = 0], x.th[t], bad)
  IN  Slip([y EXCEPT !.over = HeapFree(y) < y.reserved /\ y.miss = 0], HeapFree(x) < x.reserved + x.th[t], "raced")

(***************************************************************************)
(* The calls                                                               *)
(***************************************************************************)
Common == [live |-> {}, last |-> Block(0, 0), miss |-> 0, slip |-> {}, panic |-> {}, ok |-> TRUE]
PageHeap(u) ==
  FoldLeft(LAMBDA x, r : pageheap_add_range(x, r),
           Common @@ [ranges |-> <<>>, areas |-> <<>>, lists |-> [o \in Orders |-> <<>>], alc |-> 0, total |-> 0], u.ranges)
IdHeap(u) ==
  LET x == Common @@ [ranges |-> <<>>, alc |-> 0, total |-> 0, rnd |-> FALSE, resv |-> {},
                      par |-> [next |-> 0, left |-> u.parent, size |-> IF u.parent > 0 THEN WORD ELSE 0]]
  IN  FoldLeft(LAMBDA y, r : id_add_range(y, r.a, r.b - r.a, ""), IF u.parent > 0 THEN id_get_backed_page(x, 1, "") ELSE x, u.ranges)
ObjHeap(u) ==
  FoldLeft(LAMBDA x, p : objcache_addpage(x, 1, p),
           Common @@ [pg |-> [p \in 1 .. ParentPages |-> FreePage], fl |-> [c \in Caches |-> <<>>], full |-> [c \in Caches |-> <<>>],
                      tot |-> [c \in Caches |-> 0], alc |-> [c \in Caches |-> 0], all |-> 0, fb |-> [p \in 1 .. ParentPages |-> 0],
                      mall |-> u.mall, only |-> u.pre > 0], [p \in 1 .. u.pre |-> p])
Backed(u) == Common @@ [phys |-> {}, map |-> {}, size |-> u.size, limit |-> u.limit, linear |-> u.linear, reserved |-> u.reserved,
                        th |-> [t \in {1, 2} |-> 0], over |-> FALSE]

HeapsInit ==
  /\ left \in Uses
  /\ s = CASE left.kind = "pages" -> PageHeap(left)
            [] left.kind = "id" -> IdHeap(left)
            [] left.kind = "objects" -> ObjHeap(left)
            [] left.kind = "backed" -> Backed(left)

Heap(kind) == left.kind = kind /\ left.n > 0
Spend(bad) == left' = [left EXCEPT !.n = @ - 1, !.mem = IF bad THEN @ - 1 ELSE @]
Fails == IF left.mem > 0 THEN BOOLEAN ELSE {FALSE}
FreeParts(b) == IF left.parts THEN Parts(b) ELSE {b}

PageAlloc == Heap("pages") /\ Spend(FALSE) /\ \E n \in left.sizes : s' = pageheap_alloc(s, n)
PageFree ==
  /\ Heap("pages") /\ Spend(FALSE)
  /\ \E b \in s.live : \E q \in FreeParts(b) : s' = pageheap_dealloc(Without(s, b, q), q.a, q.n)

IdAlloc == Heap("id") /\ \E n \in left.sizes, bad \in IF left.mem > 0 THEN {"", "node", "bitmap"} ELSE {""} :
             s' \in id_alloc(s, n, bad) /\ Spend(bad # "")
IdAllocIn == Heap("id") /\ Spend(FALSE) /\ \E n \in left.sizes, sub \in left.subs : s' \in alloc_subrange(s, n, sub)
IdFree ==
  /\ Heap("id") /\ Spend(FALSE)
  /\ \E b \in s.live : \E q \in FreeParts(b) : s' = id_dealloc(Without(s, b, q), q)
(* a driver marks a fixed area, or gives back one it has marked *)
IdSetArea ==
  /\ Heap("id") /\ Spend(FALSE)
  /\ \E q \in left.areas, validate, allocate \in BOOLEAN :
       /\ ~allocate => PagesOf(q) \subseteq s.resv
       /\ ~validate => PagesOf(q) \cap UNION {PagesOf(b) : b \in s.live} = {}
       /\ s' = set_area(s, q, validate, allocate)
IdAddRange == Heap("id") /\ \E r \in left.more, bad \in IF left.mem > 0 THEN {"", "node", "bitmap"} ELSE {""} :
                s' = id_add_range([s EXCEPT !.miss = 0, !.last = Block(0, 0)], r.a, r.b - r.a, bad) /\ Spend(bad # "")
set_randomize == Heap("id") /\ left.random /\ ~s.rnd /\ Spend(FALSE) /\ s' = [s EXCEPT !.rnd = TRUE]
IdSetNext == Heap("id") /\ Spend(FALSE) /\ \E h \in left.hints : s' = set_next(s, h[1], h[2])

ObjAlloc == Heap("objects") /\ \E n \in left.sizes, bad \in Fails : s' = mcache_alloc(s, n, bad) /\ Spend(bad)
ObjFree ==
  /\ Heap("objects") /\ Spend(FALSE)
  /\ \E b \in s.live, sized \in BOOLEAN :
       /\ sized \/ s.mall
       /\ s' = mcache_dealloc(Without(s, b, b), b.a, IF sized THEN b.n ELSE 0)
ObjDrain == Heap("objects") /\ Spend(FALSE) /\ \E c \in Caches, retain \in {0, 1, Slots} :
              s' = objcache_drain([s EXCEPT !.miss = 0], c, left.drain, retain)

WrapAlloc == Heap("backed") /\ Spend(FALSE) /\ \E t \in {1, 2}, n \in left.sizes : s.th[t] = 0 /\ s' = reservelock_alloc(s, t, n)
WrapFinish == /\ left.kind = "backed"
              /\ \E t \in {1, 2}, bad \in Fails : s.th[t] > 0 /\ s' = ReservedAlloc(s, t, bad) /\ left' = [left EXCEPT !.mem = IF bad THEN @ - 1 ELSE @]
DirectAlloc == Heap("backed") /\ \E n \in left.sizes, bad \in Fails : s' = BackedAlloc([s EXCEPT !.over = FALSE], n, bad) /\ Spend(bad)
BackedFree == Heap("backed") /\ Spend(FALSE) /\ \E b \in s.live : s' = page_backed_dealloc_unmap(Without([s EXCEPT !.over = FALSE], b, b), b)

HeapsNext ==
  /\ Running
  /\ \/ PageAlloc \/ PageFree
     \/ IdAlloc \/ IdAllocIn \/ IdFree \/ IdSetArea \/ IdAddRange \/ set_randomize \/ IdSetNext
     \/ ObjAlloc \/ ObjFree \/ ObjDrain
     \/ WrapAlloc \/ WrapFinish \/ DirectAlloc \/ BackedFree

Spec == HeapsInit /\ [][HeapsNext]_vars

(***************************************************************************)
(* Properties                                                              *)
(***************************************************************************)
Excused(tags) == s.slip \cap tags # {}
LostPage == left.kind = "pages" /\ \E k \in DOMAIN s.areas : s.areas[k].lost
Sane(kind) == left.kind = kind /\ Running
Held == UNION {PagesOf(b) : b \in s.live}
Sizes(B) == MapThenSumSet(LAMBDA b : b.n, B)

(* No two callers hold the same page or object, and a block is aligned to    *)
(* its size (id_alloc_from_range, pageheap_alloc)                            *)
BlocksAreApart == \A b, c \in s.live : b # c => PagesOf(b) \cap PagesOf(c) = {} \/ Excused({"unaligned"}) \/ LostPage
BlocksAreAligned ==
  left.kind \in {"pages", "id"} /\ s.last.n > 0 => s.last.a % Pow2(find_order(s.last.n)) = 0 \/ Excused({"unaligned"})

(* The page heap: the blocks on an area's free lists and what the callers    *)
(* hold make up the area, a block and its buddy are never both free, and an  *)
(* area is listed under its largest free block                              *)
FreeBlocks(a) == {<<i, o>> \in (0 .. AREA_MAX) \X Orders : i \in FreeList(a, a.first[o])}
FreePages(a) == UNION {a.base + b[1] .. a.base + b[1] + Pow2(b[2]) - 1 : b \in FreeBlocks(a)}
AreaPages(a) == a.base + a.from .. a.base + a.n - 1
PagesAreAccounted ==
  Sane("pages") =>
    /\ s.alc = Sizes(s.live)
    /\ \A k \in DOMAIN s.areas :
         LET a == s.areas[k] IN
         \/ LostPage
         \/ /\ FreePages(a) \cap Held = {}
            /\ AreaPages(a) \subseteq FreePages(a) \cup Held
            /\ FreePages(a) \subseteq AreaPages(a)
            /\ \A b \in FreeBlocks(a) : b[2] < MaxOrder => <<page_buddy_index(b[1], b[2]), b[2]>> \notin FreeBlocks(a)
            /\ \A o \in Orders : k \in Range(s.lists[o]) <=> o = MaxFree(a)
(* A block is refused only when no area has one of that size *)
PagesAreFound ==
  Sane("pages") /\ s.miss > 0 /\ find_order(s.miss) <= MaxOrder =>
    /\ \A k \in DOMAIN s.areas : MaxFree(s.areas[k]) < find_order(s.miss)
    /\ \A r \in Range(s.ranges) : ~HasRoom(r)

(* The id heap: the bits set are what is held or reserved, and are counted;   *)
(* a block is refused only when there is none of that size and alignment     *)
SetPages == UNION {{r.bs + bit : bit \in r.map \ Bits(0, r.a - r.bs)} : r \in Range(s.ranges)}
IdsAreAccounted ==
  Sane("id") =>
    /\ SetPages = Held \cup s.resv \/ Excused({"partial", "unaligned"})
    /\ s.alc = Cardinality(SetPages) \/ Excused({"partial", "unaligned", "uncounted"})
IdsAreFound ==
  Sane("id") /\ s.miss > 0 /\ ~s.rnd /\ left.subs = {} =>
    \A r \in Range(s.ranges) : r.dead \/ \A p \in r.a .. r.b - s.miss : p % Pow2(find_order(s.miss)) = 0 => Bits(p - r.bs, s.miss) \cap r.map # {}

(* The object caches are consistent and count what they give, and the parent *)
(* gets its pages back                                                       *)
ObjectsAreAccounted ==
  Sane("objects") =>
    /\ \A c \in Caches : objcache_validate(s, c) /\ s.alc[c] = Cardinality({b \in s.live : b.n <= Threshold /\ CacheFor(b.n) = c})
    /\ s.all = MapThenSumSet(LAMBDA b : IF b.n <= Threshold THEN CacheFor(b.n) ELSE PageCount(b.n) * Slots, s.live)
    /\ \A p \in 1 .. ParentPages : s.pg[p].c = 0 <=> \E b \in s.live : b.n > Threshold /\ p \in b.a \div Slots .. b.a \div Slots + PageCount(b.n) - 1

(* What is mapped is what is held, and an allocation through the wrapper      *)
(* leaves the reserve                                                        *)
ReserveIsKept ==
  Sane("backed") =>
    /\ s.phys = Held
    /\ s.linear \/ s.map = s.phys
    /\ s.over => Excused({"raced"})

(* The heaps fail only where they are known to *)
FailuresAreKnown ==
  \A what \in s.panic : \/ what \in {"node", "range"} /\ left.kind = "id"
                        \/ what = "stale" /\ Excused({"sized"})
                        \/ what = "lost" /\ LostPage
                        \/ what = "area" /\ Cardinality(DOMAIN s.areas) > 1

HeapIsSound ==
  /\ BlocksAreApart /\ BlocksAreAligned /\ PagesAreAccounted /\ PagesAreFound
  /\ IdsAreAccounted /\ IdsAreFound /\ ObjectsAreAccounted /\ ReserveIsKept /\ FailuresAreKnown
=============================================================================
