------------------------------ MODULE PageCache ------------------------------
(***************************************************************************)
(* The page cache (kernel/pagecache.c) for one node, with writers, readers,*)
(* page faults and stores through mappings, writeback, fsync, the periodic *)
(* scan, truncation, removal and memory reclaim.  A page has two blocks;   *)
(* a block's content is the number of the write that put it there (0 for   *)
(* zeros, Junk for memory nobody initialized).  The spinlocks make one     *)
(* action of each critical section; what happens between two of them, and  *)
(* while a request is at the device, is interleaved.                       *)
(***************************************************************************)
EXTENDS Integers, Sequences, FiniteSets, SequencesExt

CONSTANTS
  MaxPages,  \* pages that one wave of writeback may pin (max_pages)
  Uses       \* what a behaviour may do: bounds for each kind of operation

VARIABLES
  s,         \* the node, its pages, the device and the threads
  left       \* what remains of the behaviour's bounds

pcVars == <<s, left>>

P == left.pages         \* pages of the node are 0 .. P-1
PgSet == 0 .. P - 1
Blk == 0 .. 2 * P - 1
Junk == -1
Least(a, b) == IF a < b THEN a ELSE b
PadPage(b) == IF b % 2 = 0 THEN b ELSE b + 1
BlocksOf(i) == {2 * i, 2 * i + 1}
Span(a, b) == [k \in 1 .. (IF b > a THEN b - a ELSE 0) |-> a + k - 1]
PagesOf(a, b) == Span(a \div 2, PadPage(b) \div 2)
Without(q, i) == SelectSeq(q, LAMBDA j : j # i)
Each(Op(_, _), x, q) == FoldLeft(Op, x, q)

--------------------------------------------------------------------------
(* Pages, their states and their references.                              *)

Bad(x, b) == [x EXCEPT !.bad = @ \/ b]

(* change_page_state_locked: the lists follow the state; the node is held  *)
(* once for each page that is dirty or being written                       *)
change_page_state_locked(x, i, st) ==
  LET old == x.pg[i].st
      hold == \/ st = "writing" /\ old \notin {"writing", "dirty"}
              \/ st = "dirty" /\ old # "writing"
      drop == st = "new" /\ old = "writing"
      list(q, name) == IF st = name THEN Append(Without(q, i), i) ELSE Without(q, i)
  IN  [x EXCEPT !.pg[i].st = st,
         !.new = list(@, "new"), !.active = list(@, "active"), !.writing = list(@, "writing"),
         !.nref = @ + (IF hold THEN 1 ELSE 0) - (IF drop THEN 1 ELSE 0),
         !.slip = IF st = "dirty" THEN @ \ {i} ELSE @,
         !.bad = \/ @
                 \/ st = "free" /\ old \notin {"new", "active", "alloc"}
                 \/ st = "reading" /\ old # "alloc"
                 \/ st = "active" /\ old # "new"]

Ref(x, i) == [x EXCEPT !.pg[i].ref = @ + 1]

(* pagecache_page_release_locked, and the deletion of the page descriptor  *)
(* when the node's lock is free                                            *)
pagecache_page_release_locked(x, i, full) ==
  LET y == [x EXCEPT !.pg[i].ref = @ - 1]
      z == change_page_state_locked(Bad(y, y.pg[i].wc # 0), i, "free")
  IN  IF y.pg[i].ref > 0 THEN y
      ELSE [z EXCEPT !.pg[i].st = IF full THEN "none" ELSE "free", !.pg[i].val = <<Junk, Junk>>]

Release(x, i) == pagecache_page_release_locked(x, i, FALSE)

(* allocate_page_nodelocked; realloc_pagelocked for a page still in the tree *)
allocate_page(x, i) ==
  [Bad(x, x.pg[i].ref # 0) EXCEPT !.pg[i] =
     [st |-> "alloc", ref |-> 1, wc |-> 0, ev |-> FALSE, pend |-> FALSE,
      comp |-> <<>>, val |-> <<Junk, Junk>>]]
Lookup(x, i) == IF x.pg[i].st \in {"none", "free"} THEN allocate_page(x, i) ELSE x

(* a merge's part completes for the thread t *)
Signal(x, t, ok) ==
  IF t = "none" THEN x
  ELSE [x EXCEPT !.th[t].need = @ - 1, !.th[t].ok = @ /\ ok]
Await(x, t) == [x EXCEPT !.th[t].need = @ + 1]
enqueue_page_completion(x, i, t) == Await([x EXCEPT !.pg[i].comp = Append(@, t)], t)
pagecache_page_queue_completions(x, i, ok) ==
  [Each(LAMBDA y, t : Signal(y, t, ok), x, x.pg[i].comp) EXCEPT !.pg[i].comp = <<>>]

pagecache_set_dirty(x, q) ==
  Each(LAMBDA y, i : IF y.pg[i].pend THEN y
                     ELSE [y EXCEPT !.pg[i].pend = TRUE, !.pg[i].ref = @ + 1, !.nref = @ + 1],
       [x EXCEPT !.map = @ \cup {q[k] : k \in DOMAIN q},
                 !.stuck = @ \ {q[k] : k \in DOMAIN q}], q)

(* a page becomes dirty and holds a reference for it *)
MakeDirty(x, i) ==
  IF x.pg[i].st = "dirty" THEN x ELSE Ref(change_page_state_locked(x, i, "dirty"), i)

--------------------------------------------------------------------------
(* Filling pages.                                                         *)

OnDisk(x, i) == [k \in 1 .. 2 |-> IF 2 * i + k - 1 < x.len THEN x.disk[2 * i + k - 1] ELSE 0]

(* touch_or_fill_page_nodelocked with a merge: the caller gets a reference; *)
(* an unfilled page is read up to the node's length, or zeroed beyond it    *)
touch_or_fill_page(x, i, t) ==
  LET st == x.pg[i].st IN
  CASE st = "reading" -> Ref(enqueue_page_completion(x, i, t), i)
    [] st = "alloc" /\ 2 * i < x.len ->
         LET y == Ref(change_page_state_locked(enqueue_page_completion(x, i, t), i, "reading"), i)
         IN  [y EXCEPT !.ios = @ \cup {[k |-> "get", a |-> i, b |-> i + 1, by |-> t,
                                        data |-> <<OnDisk(x, i)>>]}]
    [] st = "alloc" /\ 2 * i >= x.len ->
         Ref([change_page_state_locked(x, i, "new") EXCEPT !.pg[i].val = <<0, 0>>], i)
    [] st = "active" -> Ref([x EXCEPT !.active = Append(Without(@, i), i)], i)
    [] st = "new" -> Ref(change_page_state_locked(x, i, "active"), i)
    [] OTHER -> Ref(x, i)

(* touch_page_locked; reading pages are waited for, unfilled ones to be read *)
touch_page_locked(x, i, t) ==
  CASE x.pg[i].st = "reading" -> enqueue_page_completion(x, i, t)
    [] x.pg[i].st = "alloc" -> change_page_state_locked(x, i, "reading")
    [] x.pg[i].st = "new" -> change_page_state_locked(x, i, "active")
    [] x.pg[i].st = "active" ->
         [x EXCEPT !.active = Append(Without(@, i), i)]
    [] OTHER -> x

(* pagecache_node_fetch_internal: pages that must be read are collected into *)
(* requests of consecutive pages; "hold" is the page handler's reference     *)
pagecache_node_fetch(x, q, t, hold) ==
  LET step(y, i) ==
        LET a == Lookup(y, i)
            b == touch_page_locked(a, i, t)
            fetch == a.pg[i].st = "alloc"
            c == IF fetch THEN [Ref(b, i) EXCEPT !.sg = Append(@, i)] ELSE [b EXCEPT !.sg = Append(@, -1)]
        IN  IF hold THEN Ref(c, i) ELSE c
      y == Each(step, [x EXCEPT !.sg = <<>>], q)
      runs == {<<j, k>> \in (1 .. Len(y.sg)) \X (1 .. Len(y.sg)) :
                 /\ j <= k /\ \A m \in j .. k : y.sg[m] # -1
                 /\ (j = 1 \/ y.sg[j - 1] = -1) /\ (k = Len(y.sg) \/ y.sg[k + 1] = -1)}
  IN  [y EXCEPT !.sg = <<>>, !.th[t].need = @ + Cardinality(runs),
         !.ios = @ \cup {[k |-> "fetch", a |-> y.sg[r[1]], b |-> y.sg[r[2]] + 1, by |-> t,
                          data |-> [m \in 1 .. r[2] - r[1] + 1 |-> OnDisk(x, y.sg[r[1] + m - 1])]]
                            : r \in runs}]

(* pagecache_read_page_complete: the page counts as filled even on an error *)
pagecache_read_page_complete(x, io, ok) ==
  LET y == change_page_state_locked([x EXCEPT !.ios = @ \ {io}], io.a, "new")
  IN  pagecache_page_queue_completions(
        [y EXCEPT !.pg[io.a].val = IF ok THEN io.data[1] ELSE @,
                  !.garbage = IF ok THEN @ ELSE @ \cup {io.a}], io.a, ok)

pagecache_node_fetch_complete(x, io, ok) ==
  LET step(y, i) ==
        LET z == change_page_state_locked(y, i, IF ok THEN "new" ELSE "alloc")
        IN  Release(pagecache_page_queue_completions(
              [z EXCEPT !.pg[i].val = IF ok THEN io.data[i - io.a + 1] ELSE @], i, ok), i)
  IN  Signal(Each(step, [x EXCEPT !.ios = @ \ {io}], Span(io.a, io.b)), io.by, ok)

--------------------------------------------------------------------------
(* Writing to the cache.                                                  *)

(* pagecache_write_sg: references to all pages are taken, the first and    *)
(* last page are filled when the write covers them partly, and the length  *)
(* grows.  When page number "oom" cannot be allocated, what precedes it is *)
(* written first and the rest again (pagecache_write_sg_next).             *)
pagecache_write_sg(x, t, a, b, oom) ==
  LET tailfill == b % 2 # 0 /\ b < x.len
      whole == Span((a + 1) \div 2, IF tailfill THEN b \div 2 ELSE PadPage(b) \div 2)
      fill(y, i) == touch_or_fill_page(Lookup(y, i), i, t)
      head == IF a % 2 # 0 THEN fill(x, a \div 2) ELSE x
      tail == IF tailfill THEN fill(head, b \div 2) ELSE head
      prepare(y, i) ==
        LET z == Lookup(y, i)
            w == IF i # b \div 2 THEN z
                 ELSE IF y.pg[i].st = "none" THEN [z EXCEPT !.pg[i].val[2] = 0]
                 ELSE [z EXCEPT !.garbage = @ \cup (IF z.pg[i].st = "alloc" THEN {i} ELSE {})]
        IN  Ref(IF w.pg[i].st = "reading" THEN enqueue_page_completion(w, i, t) ELSE w, i)
      cut == IF oom = -1 THEN 0 ELSE 2 * oom - a
      y == Each(prepare, tail, SelectSeq(whole, LAMBDA i : oom = -1 \/ i < oom))
  IN  [y EXCEPT !.len = IF b > @ THEN b ELSE @,
                !.th[t].pi = a \div 2, !.th[t].a = a, !.th[t].pc = "finish",
                !.th[t].b = IF cut > 0 THEN a + cut ELSE b,
                !.th[t].next = IF cut > 0 THEN b ELSE 0,
                !.th[t].ok = oom = -1 \/ cut > 0,
                !.drift = [i \in PgSet |-> @[i] + (IF cut > 0 /\ tailfill /\ i = b \div 2 THEN 1 ELSE 0)],
                !.th[t].held = (IF a % 2 # 0 THEN {a \div 2} ELSE {})
                               \cup (IF tailfill /\ cut <= 0 THEN {b \div 2} ELSE {})
                               \cup {i \in PgSet : i \in {whole[k] : k \in DOMAIN whole}
                                                 /\ (oom = -1 \/ i < oom)}]

(* pagecache_write_sg_finish: on an error the pages' references are given   *)
(* back; otherwise the data is copied page by page, stopping at a page that *)
(* is being read, and the whole range becomes dirty                         *)
Copy(x, i, a, b, n) ==
  LET in(k) == 2 * i + k - 1 \in a .. b - 1 IN
  [x EXCEPT !.pg[i].val = [k \in 1 .. 2 |-> IF in(k) THEN n ELSE @[k]],
            !.file = [c \in Blk |-> IF c \in a .. b - 1 /\ c \div 2 = i THEN n ELSE @[c]]]
pagecache_write_sg_finish(x, t, n) ==
  LET me == x.th[t]
      end == PadPage(me.b) \div 2
      drop(y, i) == IF y.pg[i].st \in {"none", "free"} \/ y.over THEN y
                    ELSE IF i \in me.held THEN Release(y, i) ELSE [y EXCEPT !.over = TRUE]
      put(y, i) ==
        IF y.th[t].pi # i THEN y
        ELSE IF y.pg[i].st = "reading" THEN enqueue_page_completion(y, i, t)
        ELSE LET z == [Copy(y, i, me.a, me.b, n) EXCEPT !.th[t].pi = i + 1, !.th[t].held = @ \ {i}]
             IN  IF z.pg[i].st = "dirty" THEN Release(z, i)
                 ELSE change_page_state_locked(z, i, "dirty")
      y == Each(put, x, Span(me.pi, end))
  IN  IF ~me.ok THEN [Each(drop, x, Span(me.pi, end)) EXCEPT !.th[t].pc = "done",
                        !.stuck = @ \cup (me.a \div 2 .. me.pi - 1)]
      ELSE IF y.th[t].pi < end THEN y
      ELSE [pagecache_set_dirty(y, PagesOf(me.a, me.b)) EXCEPT
              !.th[t].pc = IF me.next > 0 THEN "next" ELSE "done"]

--------------------------------------------------------------------------
(* Writeback: commits are queued on the node and run one at a time.       *)

Idle == [run |-> "idle", n |-> 0, out |-> 0, ok |-> TRUE]
StartCommit(x) == [x EXCEPT !.cur = [Idle EXCEPT !.run = "loop"]]

DirtyRuns(x) ==
  LET S == {r \in PgSet \X (1 .. P) : /\ r[1] < r[2] /\ \A i \in r[1] .. r[2] - 1 : i \in x.map
                                      /\ r[1] - 1 \notin x.map /\ r[2] \notin x.map}
  IN  SetToSortSeq({<<2 * r[1], 2 * r[2]>> : r \in S}, LAMBDA p, q : p[1] < q[1])

(* dirty_range_handler: the map's reference becomes the operation's *)
dirty_range_handler(x) ==
  [x EXCEPT !.map = {}, !.pg = [i \in PgSet |-> [@[i] EXCEPT !.pend = @ /\ i \notin x.map]]]

(* pagecache_commit_dirty_node, on behalf of t ("none" for the scan) *)
pagecache_commit_dirty_node(x, t) ==
  LET op(k) == Append(x.ops, [k |-> k, d |-> DirtyRuns(x), who |-> t])
      y == Await(x, t)
  IN  IF x.trunc /\ x.lock # t THEN IF t = "none" THEN x ELSE [x EXCEPT !.th[t].ok = FALSE]
      ELSE IF x.map # {} THEN
        LET z == [dirty_range_handler(IF t = "none" THEN x ELSE y) EXCEPT !.ops = op("commit")]
        IN  IF x.ops = <<>> THEN StartCommit(z) ELSE z
      ELSE IF t # "none" /\ x.ops # <<>> THEN [y EXCEPT !.ops = op("complete")]
      ELSE x

(* commit_dirty_node_complete: waiters queued behind this commit are told, *)
(* and the next commit starts                                              *)
commit_dirty_node_complete(x, ok) ==
  LET rest == Tail(x.ops)
      n == Cardinality({k \in DOMAIN rest : \A j \in 1 .. k : rest[j].k = "complete"})
      told == Each(LAMBDA y, o : Signal(y, o.who, ok), x, SubSeq(rest, 1, n))
      y == Signal([told EXCEPT !.ops = SubSeq(rest, n + 1, Len(rest)), !.cur = Idle],
                  x.ops[1].who, ok)
  IN  IF y.ops # <<>> THEN StartCommit(y) ELSE y

(* pagecache_discard_commit_range: pages that a truncation removed *)
pagecache_discard_commit_range(x, a, b) ==
  LET step(y, i) ==
        LET pg == y.pg[i]
            z == IF pg.st = "dirty" /\ ~pg.pend /\ pg.wc = 0
                 THEN [Release(change_page_state_locked(y, i, "new"), i) EXCEPT !.nref = @ - 1]
                 ELSE y
        IN  [Release(z, i) EXCEPT !.nref = @ - 1]
  IN  Each(step, x, PagesOf(a, b))

(* one request of pagecache_commit_dirty_ranges: the operation's reference  *)
(* to a page becomes the write's; a wave stops at MaxPages                  *)
Submit(x, a, b) ==
  LET q == SubSeq(PagesOf(a, b), 1, Least(Len(PagesOf(a, b)), MaxPages - x.cur.n))
      end == Least(b, 2 * (q[Len(q)] + 1))
      step(y, i) ==
        LET z == IF y.pg[i].st = "dirty" THEN y ELSE Ref(y, i)
            w == [change_page_state_locked(z, i, "writing") EXCEPT !.pg[i].wc = @ + 1]
        IN  [Release(w, i) EXCEPT !.nref = @ - 1]
      y == Each(step, x, q)
  IN  [y EXCEPT !.cur.n = @ + Len(q), !.cur.out = @ + 1,
         !.ios = @ \cup {[k |-> "write", a |-> q[1], b |-> q[Len(q)] + 1, by |-> "none",
                          data |-> <<>>, from |-> a, to |-> end]},
         !.ops[1].d = IF end < b THEN <<<<end, b>>>> \o Tail(@) ELSE Tail(@)]

commit_dirty_ranges(x) ==
  LET d == x.ops[1].d
      a == d[1][1]
      b == d[1][2]
      lim == PadPage(x.len)
      cut == IF b > lim THEN pagecache_discard_commit_range(x, lim, b) ELSE x
      consume == [x EXCEPT !.ops[1].d = Tail(d)]
  IN  IF d = <<>> \/ x.cur.n >= MaxPages THEN [x EXCEPT !.cur.run = "wait"]
      ELSE IF a >= x.len THEN pagecache_discard_commit_range(consume, a, b)
      ELSE Submit(cut, a, Least(b, x.len))

(* the wave has completed: go on, or on an error make the rest dirty again *)
Redirty(x) ==
  LET page(y, i) == [Release(MakeDirty(y, i), i) EXCEPT !.nref = @ - 1]
      range(y, r) == Each(page, pagecache_set_dirty(y, PagesOf(r[1], r[2])), PagesOf(r[1], r[2]))
  IN  Each(range, x, x.ops[1].d)
commit_wave_done(x) ==
  IF ~x.cur.ok THEN commit_dirty_node_complete(Redirty(x), FALSE)
  ELSE IF x.ops[1].d = <<>> THEN commit_dirty_node_complete(x, TRUE)
  ELSE StartCommit(x)

(* mutant: a page written to while its write was in progress counts as clean *)
pagecache_commit_completeCleans(x, io, ok) ==
  LET step(y, i) == Release(pagecache_page_queue_completions(
                       [change_page_state_locked(y, i, "new") EXCEPT !.pg[i].wc = @ - 1], i, ok), i)
  IN  [Each(step, [x EXCEPT !.ios = @ \ {io}], Span(io.a, io.b)) EXCEPT !.cur.out = @ - 1]

(* pagecache_commit_complete: a page written to in the meantime stays dirty *)
pagecache_commit_complete(x, io, ok) ==
  LET step(y, i) ==
        LET last == y.pg[i].wc = 1
            w == [Bad(y, y.pg[i].wc = 0) EXCEPT !.pg[i].wc = @ - 1]
            z == IF last /\ w.pg[i].st # "dirty"
                 THEN change_page_state_locked(w, i, IF ok THEN "new" ELSE "dirty") ELSE w
            told == IF last THEN pagecache_page_queue_completions(z, i, ok) ELSE z
        IN  IF ok \/ told.pg[i].st # "dirty" THEN Release(told, i)
            ELSE [told EXCEPT !.drift[i] = @ + (IF y.pg[i].st = "dirty" THEN 1 ELSE 0)]
      y == Each(step, [x EXCEPT !.ios = @ \ {io}], Span(io.a, io.b))
      z == IF ok THEN y ELSE pagecache_set_dirty(y, Span(io.a, io.b))
  IN  [z EXCEPT !.cur.out = @ - 1, !.cur.ok = @ /\ ok]

(* pagecache_finish_pending_writes: wait for the page written last *)
pagecache_finish_pending_writes(x, t) ==
  IF x.writing = <<>> THEN x ELSE enqueue_page_completion(x, x.writing[Len(x.writing)], t)

--------------------------------------------------------------------------
(* Reclaim.                                                               *)

(* evict_from_list_locked: the cache gives up its reference to eligible    *)
(* pages, oldest first, until n of them were freed                         *)
evict_from_list_locked(x, q, n, full) ==
  LET step(e, i) ==
        IF e.n >= n THEN e
        ELSE [n |-> e.n + (IF e.x.pg[i].ref = 1 THEN 1 ELSE 0),
              x |-> pagecache_page_release_locked([e.x EXCEPT !.pg[i].ev = TRUE], i, full)]
  IN  Each(step, [n |-> 0, x |-> x], SelectSeq(q, LAMBDA i : ~x.pg[i].ev))
evict_pages_locked(x, n, full) ==
  LET e == evict_from_list_locked(x, x.new, n, full)
  IN  IF e.n >= n THEN e.x ELSE evict_from_list_locked(e.x, e.x.active, n - e.n, full).x

(* balance_page_lists_locked *)
balance_page_lists_locked(x) ==
  LET idle == SelectSeq(x.active, LAMBDA i : x.pg[i].ref = 1)
      dp == (Len(x.active) - Len(x.new)) \div 2
  IN  Each(LAMBDA y, i : change_page_state_locked(y, i, "new"), x,
           SubSeq(idle, 1, IF dp < 0 THEN 0 ELSE Least(dp, Len(idle))))

(* pagecache_delete_pages_locked *)
pagecache_delete_pages_locked(x) ==
  [x EXCEPT !.pg = [i \in PgSet |-> IF @[i].st = "free" THEN [@[i] EXCEPT !.st = "none"] ELSE @[i]]]

(* pagecache_check_old_page: mapped pages used since the last scan are      *)
(* touched, evicted ones not used since are to be unmapped                  *)
Cached(x, i) == x.pte[i].kind \in {"shared", "cow"}
pagecache_scan_old_maps(x) ==
  LET S == {i \in PgSet : Cached(x, i) /\ ~x.pte[i].dirty}
      used == {i \in S : x.pte[i].acc}
      y == Each(LAMBDA z, i : touch_page_locked(z, i, "none"), x, SetToSortSeq(used, <))
  IN  [y EXCEPT !.pte = [i \in PgSet |-> [@[i] EXCEPT !.acc = @ /\ i \notin used]],
                !.th["d"].marked = {i \in S \ used : x.pg[i].ev}]

NoPte == [kind |-> "none", dirty |-> FALSE, acc |-> FALSE]
(* pagecache_inval_complete *)
pagecache_inval_complete(x) ==
  LET step(y, i) == IF Cached(y, i) /\ ~y.pte[i].dirty /\ ~y.pte[i].acc
                    THEN pagecache_page_release_locked([y EXCEPT !.pte[i] = NoPte], i, TRUE)
                    ELSE y
  IN  [Each(step, x, SetToSortSeq(x.th["d"].marked, <)) EXCEPT !.th["d"].marked = {}]

--------------------------------------------------------------------------
(* Mappings.                                                              *)

(* pagecache_get_private_page: steal the page if nobody else has it, or copy *)
pagecache_get_private_page(x, i) ==
  IF x.pg[i].ref = 2 /\ ~x.pg[i].ev
  THEN [change_page_state_locked(x, i, "free") EXCEPT
          !.pg[i].ref = 0, !.pg[i].st = "none", !.pg[i].val = <<Junk, Junk>>]
  ELSE pagecache_page_release_locked(x, i, TRUE)

(* get_page_finish, and the page fault's mapping of the page *)
get_page_finish(x, i, kind) ==
  LET y == IF kind = "copy" THEN pagecache_get_private_page(x, i) ELSE x
  IN  [y EXCEPT !.pte[i] = [kind |-> kind, dirty |-> FALSE, acc |-> TRUE]]

(* pagecache_check_dirty_page for all pages of the shared mappings *)
pagecache_scan_shared_map(x, t) ==
  LET S == {i \in PgSet : x.pte[i].kind = "shared" /\ x.pte[i].dirty}
      q == SetToSortSeq(S, <)
  IN  [Each(LAMBDA y, i : pagecache_set_dirty(MakeDirty(y, i), <<i>>), x, q) EXCEPT
         !.th[t].marked = S]

(* pagecache_clean_ptes, once no processor has the entries cached *)
pagecache_clean_ptes(x, t) ==
  LET S == x.th[t].marked IN
  [x EXCEPT !.pte = [i \in PgSet |-> [@[i] EXCEPT !.dirty = @ /\ i \notin S]],
            !.slip = @ \cup {i \in S : x.pg[i].st # "dirty"},
            !.th[t].marked = {}]

(* pagecache_node_unmap_pages_complete *)
pagecache_node_unmap_page(x, i) ==
  LET dirty == x.pte[i].kind = "shared" /\ x.pte[i].dirty
      y == IF dirty THEN MakeDirty(pagecache_set_dirty(x, <<i>>), i) ELSE x
      z == [y EXCEPT !.pte[i] = NoPte]
  IN  IF x.pte[i].kind = "copy" THEN z ELSE Release(z, i)

--------------------------------------------------------------------------
(* The threads.                                                           *)

Thread == [pc |-> "idle", need |-> 0, ok |-> TRUE, pi |-> 0, a |-> 0, b |-> 0, next |-> 0,
           held |-> {}, marked |-> {}, snap |-> <<>>, n |-> 0, kind |-> "none"]
Threads == {"w", "r", "m", "f", "t", "k", "d"}

PageCacheInit ==
  \E u \in Uses :
    /\ left = u
    /\ LET content == [b \in Blk |-> IF b < u.len THEN 1 ELSE 0] IN
       s = [pg |-> [i \in PgSet |-> [st |-> "none", ref |-> 0, wc |-> 0, ev |-> FALSE, pend |-> FALSE,
                                     comp |-> <<>>, val |-> <<Junk, Junk>>]],
            new |-> <<>>, active |-> <<>>, writing |-> <<>>, nref |-> 1, map |-> {}, ops |-> <<>>,
            cur |-> Idle, len |-> u.len, lock |-> "none", trunc |-> FALSE, gone |-> FALSE,
            pte |-> [i \in PgSet |-> NoPte], ios |-> {}, disk |-> content, file |-> content,
            sg |-> <<>>, th |-> [t \in Threads |-> Thread], ver |-> 1,
            slip |-> {}, garbage |-> {}, stuck |-> {}, late |-> {}, drift |-> [i \in PgSet |-> 0],
            over |-> FALSE, bad |-> FALSE, wrong |-> {}]

Spend(f) == left[f] > 0 /\ left' = [left EXCEPT ![f] = @ - 1]
Keep == UNCHANGED left
At(t, pc) == s.th[t].pc = pc
Ready(t, pc) == At(t, pc) /\ s.th[t].need = 0
Go(x, t, pc) == [x EXCEPT !.th[t].pc = pc]
Reset(x, t) == [x EXCEPT !.th[t] = Thread]
OomAt(a, b) == {-1} \cup (IF left.o > 0 THEN {i \in a \div 2 .. (b - 1) \div 2 :
                            s.pg[i].st \in {"none", "free"} /\ (a % 2 = 0 \/ i # a \div 2)
                            /\ ~(b % 2 # 0 /\ b < s.len /\ i = b \div 2)} ELSE {})
SpendOom(oom, f) ==
  left' = [left EXCEPT !.o = @ - (IF oom # -1 THEN 1 ELSE 0), ![f] = @ - 1]

(* pagecache_write_serialized: writers and truncation take turns *)
WriteStart ==
  /\ At("w", "idle") /\ s.lock = "none" /\ ~s.gone /\ left.w > 0
  /\ \E r \in left.ranges : \E oom \in OomAt(r[1], r[2]) :
       /\ s' = pagecache_write_sg([s EXCEPT !.lock = "w", !.ver = @ + 1, !.th["w"].n = s.ver + 1],
                                  "w", r[1], r[2], oom)
       /\ SpendOom(oom, "w")
WriteFinish == Ready("w", "finish") /\ s' = pagecache_write_sg_finish(s, "w", s.th["w"].n) /\ Keep
WriteNext == At("w", "next") /\ Keep /\ s' = pagecache_write_sg(s, "w", s.th["w"].b, s.th["w"].next, -1)
WriteDone == At("w", "done") /\ s' = [Reset(s, "w") EXCEPT !.lock = "none"] /\ Keep

(* pagecache_read_sg; pagecache_read_sg_finish copies what is cached, and   *)
(* keeps its references when the pages could not be read                    *)
ReadStart ==
  /\ At("r", "idle") /\ ~s.gone /\ s.len > 0 /\ Spend("r")
  /\ LET q == Span(0, PadPage(s.len) \div 2)
     IN  s' = [pagecache_node_fetch(s, q, "r", TRUE) EXCEPT
                 !.th["r"].pc = "finish", !.th["r"].held = {q[k] : k \in DOMAIN q}]
ReadFinish ==
  LET me == s.th["r"]
      wrong == \E i \in me.held : \E k \in 1 .. 2 :
                 /\ 2 * i + k - 1 < s.len /\ i \notin s.garbage /\ 2 * i + k - 1 \notin s.late
                 /\ ~(At("t", "zero") \/ At("t", "zwait")) /\ s.pg[i].val[k] # s.file[2 * i + k - 1]
      drop(y, i) == Release(y, i)
  IN  /\ Ready("r", "finish") /\ Keep
      /\ s' = IF me.ok
              THEN Reset([Each(drop, s, SetToSortSeq(me.held, <)) EXCEPT
                            !.wrong = @ \cup (IF wrong THEN {"read"} ELSE {})], "r")
              ELSE Reset([s EXCEPT !.drift = [i \in PgSet |-> @[i] + (IF i \in me.held THEN 1 ELSE 0)]], "r")

Fault(i) ==
  /\ At("m", "idle") /\ ~s.gone /\ s.pte[i].kind = "none" /\ 2 * i < PadPage(s.len) /\ Spend("m")
  /\ \E kind \in left.kinds :
       LET x == touch_or_fill_page(Lookup(s, i), i, "m")
       IN  s' = IF x.th["m"].need = 0 THEN get_page_finish(x, i, kind)
                ELSE [x EXCEPT !.th["m"].pc = "finish", !.th["m"].pi = i, !.th["m"].kind = kind]
FaultFinish ==
  LET i == s.th["m"].pi IN
  /\ Ready("m", "finish") /\ Keep
  /\ s' = IF s.th["m"].ok THEN Reset(get_page_finish(s, i, s.th["m"].kind), "m")
          ELSE Reset([s EXCEPT !.drift[i] = @ + 1], "m")

(* a program stores through a shared mapping *)
Store(b) ==
  LET i == b \div 2 IN
  /\ s.pte[i].kind = "shared" /\ b < s.len /\ ~s.gone /\ Spend("s")
  /\ s' = [s EXCEPT !.pte[i].dirty = TRUE, !.pte[i].acc = TRUE, !.ver = @ + 1,
                    !.pg[i].val[(b % 2) + 1] = s.ver + 1, !.file[b] = s.ver + 1,
                    !.late = @ \cup (IF At("t", "zero") \/ At("t", "zwait") \/ At("t", "length")
                                     THEN {b} ELSE {})]

(* a program stores to a private mapping: pagecache_node_do_page_cow *)
pagecache_node_do_page_cow(i) ==
  /\ s.pte[i].kind = "cow" /\ Keep
  /\ s' = pagecache_page_release_locked([s EXCEPT !.pte[i].kind = "copy"], i, TRUE)

Unmap(i) == s.pte[i].kind # "none" /\ Spend("u") /\ s' = pagecache_node_unmap_page(s, i)

(* pagecache_node_scan: mark what the page tables say is dirty, clean them, *)
(* then commit; for fsync, for the owner of a truncation and for the scan   *)
Mark(t) == At(t, "mark") /\ s' = Go(pagecache_scan_shared_map(s, t), t, "clean") /\ Keep
Clean(t) == At(t, "clean") /\ s' = Go(pagecache_clean_ptes(s, t), t, "commit") /\ Keep
Commit(t) ==
  /\ At(t, "commit") /\ Keep
  /\ s' = Go(IF t = "k" THEN pagecache_finish_pending_writes(pagecache_commit_dirty_node(s, "none"), t)
             ELSE pagecache_commit_dirty_node(s, t), t, "wait")

(* pagecache_sync_node *)
SyncStart ==
  /\ At("f", "idle") /\ s.lock = "none" /\ ~s.gone /\ Spend("f")
  /\ s' = [Go(s, "f", "mark") EXCEPT !.lock = "f", !.th["f"].snap = s.file]
SyncDone ==
  LET me == s.th["f"]
      lost == me.ok /\ \E b \in Blk : b < s.len /\ s.disk[b] < me.snap[b] /\ b \div 2 \notin s.slip
                                      /\ b \div 2 \notin s.garbage \cup s.stuck
  IN  /\ Ready("f", "wait") /\ Keep
      /\ s' = [Reset(s, "f") EXCEPT !.lock = "none", !.wrong = @ \cup (IF lost THEN {"sync"} ELSE {})]

(* pagecache_scan_timer, unless the previous writeback goes on *)
pagecache_scan_timer == At("k", "idle") /\ Spend("k") /\ s' = Go(s, "k", "mark")
pagecache_writeback_complete == Ready("k", "wait") /\ s' = Reset(s, "k") /\ Keep

(* a truncation (tfs_shrink): pagecache_node_begin_truncate, sync_locked,   *)
(* removal of the extents, zero_cached_range, the length, end_truncate      *)
pagecache_node_begin_truncate ==
  /\ At("t", "idle") /\ s.lock = "none" /\ ~s.gone /\ Spend("t")
  /\ \E b \in 0 .. s.len - 1 :
       s' = [Go(s, "t", "mark") EXCEPT !.lock = "t", !.trunc = TRUE, !.th["t"].b = b]
Shrink ==
  LET to == s.th["t"].b
      cut(f) == [b \in Blk |-> IF b >= to THEN 0 ELSE f[b]]
  IN  /\ Ready("t", "wait") /\ Keep
      /\ s' = IF s.th["t"].ok
              THEN Go([s EXCEPT !.disk = cut(@), !.file = cut(@), !.late = @ \cap 0 .. to - 1], "t", "zero")
              ELSE [Reset(s, "t") EXCEPT !.lock = "none", !.trunc = FALSE]
pagecache_node_zero_cached_range ==
  LET to == s.th["t"].b
      S == {i \in PgSet : 2 * i + 1 >= to /\ s.pg[i].st \notin {"none", "free"}}
      reading == {i \in S : s.pg[i].st = "reading"}
      cut(f) == [b \in Blk |-> IF b >= to THEN 0 ELSE f[b]]
  IN  \/ /\ At("t", "zero") /\ Keep
         /\ s' = IF reading # {}
                 THEN LET i == CHOOSE i \in reading : \A j \in reading : i <= j
                      IN  [Go(Ref(enqueue_page_completion(s, i, "t"), i), "t", "zwait") EXCEPT !.th["t"].pi = i]
                 ELSE Go([s EXCEPT !.pg = [i \in PgSet |->
                            IF i \notin S THEN @[i]
                            ELSE [@[i] EXCEPT !.val = [k \in 1 .. 2 |-> IF 2 * i + k - 1 >= to THEN 0 ELSE @[k]]]],
                                   !.file = cut(@)],
                         "t", "length")
      \/ /\ Ready("t", "zwait") /\ Keep
         /\ s' = Go(Release(s, s.th["t"].pi), "t", "zero")
pagecache_node_end_truncate ==
  /\ At("t", "length") /\ Keep
  /\ s' = [Reset(s, "t") EXCEPT !.len = s.th["t"].b, !.lock = "none", !.trunc = FALSE,
                               !.file = [b \in Blk |-> IF b >= s.th["t"].b THEN 0 ELSE @[b]]]

(* pagecache_purge_node, for a file nobody refers to any more; then the     *)
(* node's own reference goes, and with the last one its pages               *)
pagecache_purge_node ==
  LET q == SetToSortSeq(s.map, <)
      step(y, i) ==
        LET z == IF y.pg[i].st = "dirty"
                 THEN [Release(change_page_state_locked(y, i, "alloc"), i) EXCEPT !.nref = @ - 1] ELSE y
        IN  [Release([Bad(z, ~z.pg[i].pend) EXCEPT !.pg[i].pend = FALSE], i) EXCEPT !.nref = @ - 1]
      x == [Each(step, s, q) EXCEPT !.map = {}, !.gone = TRUE]
  IN  /\ ~s.gone /\ \A t \in Threads \ {"k", "d"} : At(t, "idle")
      /\ \A i \in PgSet : s.pte[i].kind = "none"
      /\ Spend("p")
      /\ s' = Go(IF s.ops = <<>> THEN x
                 ELSE Await([x EXCEPT !.ops = Append(@, [k |-> "complete", d |-> <<>>, who |-> "t"])], "t"),
                 "t", "purged")
PurgeDone == Ready("t", "purged") /\ Keep /\ s' = [Reset(s, "t") EXCEPT !.nref = @ - 1]
pagecache_node_free ==
  LET step(y, i) ==
        IF y.pg[i].st = "none" THEN y
        ELSE LET z == IF ~y.pg[i].ev /\ y.pg[i].st # "free" THEN Release(y, i) ELSE y
             IN  [Bad(z, z.pg[i].st # "free" /\ z.drift[i] = 0) EXCEPT !.pg[i].st = "none"]
  IN  s.gone /\ s.nref = 0 /\ Keep /\ s' = [Each(step, s, Span(0, P)) EXCEPT !.nref = -1]

(* pagecache_drain: eviction and balancing; then, when it may wait, unmapping *)
pagecache_drain ==
  /\ At("d", "idle") /\ Spend("d")
  /\ \E n \in 1 .. P, full \in BOOLEAN, maps \in BOOLEAN :
       LET x == balance_page_lists_locked(evict_pages_locked(s, n, full))
           y == IF maps /\ full THEN pagecache_delete_pages_locked(x) ELSE x
       IN  s' = IF maps THEN Go(pagecache_scan_old_maps(y), "d", "inval") ELSE y
DrainMaps == At("d", "inval") /\ Keep /\ s' = Reset(pagecache_inval_complete(s), "d")

(* the commit in progress *)
CommitRanges == s.cur.run = "loop" /\ s' = commit_dirty_ranges(s) /\ Keep
WaveDone == s.cur.run = "wait" /\ s.cur.out = 0 /\ s' = commit_wave_done(s) /\ Keep

(* the device: it reads the memory of a write some time before completing it *)
DmaRead ==
  \E io \in s.ios :
    /\ io.k = "write" /\ io.data = <<>> /\ Keep
    /\ s' = [s EXCEPT !.ios = (@ \ {io}) \cup
               {[io EXCEPT !.data = [k \in 1 .. io.to - io.from |->
                   s.pg[(io.from + k - 1) \div 2].val[((io.from + k - 1) % 2) + 1]]]}]
IoDone ==
  \E io \in s.ios, ok \in BOOLEAN :
    /\ io.data # <<>>
    /\ IF ok THEN Keep ELSE Spend("e")
    /\ s' = CASE io.k = "get" -> pagecache_read_page_complete(s, io, ok)
              [] io.k = "fetch" -> pagecache_node_fetch_complete(s, io, ok)
              [] io.k = "write" ->
                   LET x == pagecache_commit_complete(s, io, ok)
                   IN  IF ok THEN [x EXCEPT !.disk = [b \in Blk |->
                                     IF b \in io.from .. io.to - 1 THEN io.data[b - io.from + 1] ELSE @[b]]]
                       ELSE x

PageCacheNext ==
  /\ ~s.over
  /\ \/ WriteStart \/ WriteFinish \/ WriteNext \/ WriteDone \/ ReadStart \/ ReadFinish
     \/ (\E i \in PgSet : Fault(i) \/ pagecache_node_do_page_cow(i) \/ Unmap(i)) \/ FaultFinish
     \/ (\E b \in Blk : Store(b)) \/ SyncStart \/ SyncDone
     \/ (\E t \in {"f", "t", "k"} : Mark(t) \/ Clean(t) \/ Commit(t))
     \/ pagecache_scan_timer \/ pagecache_writeback_complete
     \/ pagecache_node_begin_truncate \/ Shrink \/ pagecache_node_zero_cached_range
     \/ pagecache_node_end_truncate \/ pagecache_purge_node \/ PurgeDone \/ pagecache_node_free
     \/ pagecache_drain \/ DrainMaps \/ CommitRanges \/ WaveDone \/ DmaRead \/ IoDone

PageCacheSpec == PageCacheInit /\ [][PageCacheNext]_pcVars

--------------------------------------------------------------------------
(* Properties.                                                            *)

Filled == {"new", "active", "dirty", "writing"}
One(c) == IF c THEN 1 ELSE 0
Covers(r, i) == i \in {PagesOf(r[1], r[2])[j] : j \in DOMAIN PagesOf(r[1], r[2])}
InOps(i) == {<<n, k>> \in (1 .. Len(s.ops)) \X (1 .. P) :
               k \in DOMAIN s.ops[n].d /\ Covers(s.ops[n].d[k], i)}
Holders(i) ==
  LET pg == s.pg[i] IN
    One(pg.st \notin {"none", "free"} /\ ~pg.ev) + One(pg.st = "dirty") + One(pg.pend) + pg.wc
  + Cardinality(InOps(i)) + One(Cached(s, i))
  + Cardinality({io \in s.ios : io.k = "fetch" /\ i \in io.a .. io.b - 1})
  + One(At("w", "finish") /\ i \in s.th["w"].held)
  + One(At("r", "finish") /\ i \in s.th["r"].held)
  + One(At("m", "finish") /\ i = s.th["m"].pi) + One(At("t", "zwait") /\ i = s.th["t"].pi)

(* A page is referenced once by the cache unless it is evicted, by its dirty *)
(* state, by the dirty map, by each commit and write that covers it, by each *)
(* mapping and by each operation in progress: no page is freed in use, and   *)
(* none is kept for ever.  drift counts the references that the error paths  *)
(* of reads and writes forget, and a write that cannot allocate its first    *)
(* page releases later ones that it never took (over, where a behaviour      *)
(* ends); the node counts its dirty pages likewise.                          *)
RefsAreExact ==
  ~s.over =>
    /\ ~s.bad
    /\ \A i \in PgSet : s.pg[i].ref = Holders(i) + s.drift[i]
    /\ s.nref # -1 =>
         LET count(S) == Cardinality({i \in PgSet : s.pg[i].st \in S})
             queued == UNION {{i} \X InOps(i) : i \in PgSet}
         IN  s.nref = One(~s.gone \/ At("t", "purged")) + count({"dirty", "writing"})
                      + Cardinality({i \in PgSet : s.pg[i].pend}) + Cardinality(queued)

(* A dirty page is in the dirty map, in a queued commit, or being written to *)
(* by a writer that will put it there: writeback forgets no page, but those  *)
(* that a write had filled when it failed on a later page (stuck).           *)
DirtyIsQueued ==
  ~s.over => \A i \in PgSet :
    s.pg[i].st = "dirty" =>
      \/ i \in s.map \/ InOps(i) # {}
      \/ At("w", "finish") /\ i \in s.th["w"].a \div 2 .. s.th["w"].pi - 1
      \/ i \in s.stuck

Removing(b) == (At("t", "zero") \/ At("t", "zwait")) /\ b >= s.th["t"].b

(* The cached content of a page is the file's, and what is not cached as     *)
(* dirty is on the disk as it should be, but for pages whose entry was       *)
(* cleaned after a commit had already taken the page (slip), for pages that  *)
(* a failed read left unfilled or a reallocation uninitialized (garbage) and *)
(* for stores that raced a truncation (late).                                *)
CacheIsTheFile ==
  ~s.over /\ ~s.gone => \A i \in PgSet : \A b \in BlocksOf(i) :
    b < s.len /\ b \notin s.late /\ i \notin s.garbage =>
      /\ s.pg[i].st \in Filled /\ ~Removing(b) => s.pg[i].val[(b % 2) + 1] = s.file[b]
      /\ s.pg[i].st \notin {"dirty", "writing"} /\ ~s.pg[i].pend /\ InOps(i) = {} /\ i \notin s.slip
           /\ ~(s.pte[i].kind = "shared" /\ s.pte[i].dirty) => s.disk[b] = s.file[b]

(* A read returns the file's content, and when fsync reports success all     *)
(* that was written before it is on the disk.                                *)
ResultsAreTrue == s.wrong = {}

(* A page is being read only while the device has a request for it, and      *)
(* those who wait for a page wait for a request that is on its way; a commit *)
(* that is queued is run.                                                    *)
NobodyWaitsForNothing ==
  /\ \A i \in PgSet :
       /\ s.pg[i].st = "reading" => \E io \in s.ios : io.k # "write" /\ i \in io.a .. io.b - 1
       /\ s.pg[i].comp # <<>> => s.pg[i].st = "reading" \/ s.pg[i].wc > 0
  /\ s.ops # <<>> => s.cur.run # "idle" /\ s.ops[1].k = "commit"

=============================================================================
