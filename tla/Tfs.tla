-------------------------------- MODULE Tfs --------------------------------
(***************************************************************************)
(* The data path of the TFS file system (fs/tfs.c) for one file: extents,  *)
(* their uninitialized state and page maps, data writes counted by         *)
(* generation, the publication cycle that logs "these blocks may be read"  *)
(* only after a device flush covers them, shrinking, and the release of    *)
(* storage.  Lengths are in blocks.  The disk may lose or keep, block by   *)
(* block, everything written since the last flush that covers it, and      *)
(* applies concurrent requests in any order.                               *)
(*                                                                         *)
(* The log is kept as the sequence of the metadata states it describes:    *)
(* hist[1] is durable, the last one is the state in memory, and a crash    *)
(* leaves any one of them (module Tlog is about how it is written).        *)
(***************************************************************************)
EXTENDS Integers, Sequences, FiniteSets, SequencesExt

CONSTANTS
  N,      \* blocks of the file are 0 .. N-1
  D,      \* blocks of the disk are 1 .. D
  Syncs,  \* concurrent fsync callers
  Uses    \* what a behaviour may do: bounds, format version, blocks per page

VARIABLES
  s,      \* the file system, the device and the page cache's writeback
  left    \* what remains of the behaviour's bounds

tfsVars == <<s, left>>

Blocks == 0 .. N - 1
Disk == 1 .. D
Bpp == left.bpp         \* tfs_blocks_per_page
Junk == <<-1, 0>>       \* what a disk block held for somebody else
Zero == <<-2, 0>>
MinOf(S) == CHOOSE a \in S : \A b \in S : a <= b
MaxOf(S) == CHOOSE a \in S : \A b \in S : a >= b
Least(a, b) == IF a < b THEN a ELSE b
Longest(S) == MaxOf(S \cup {0})

--------------------------------------------------------------------------
(* The device.                                                            *)

(* storage requests: a write may reach the medium at any time from now on *)
Issue(x, w, gen, conv) ==
  [x EXCEPT !.reqs = @ \cup {[w |-> w, gen |-> gen, conv |-> conv]},
            !.cand = [b \in Disk |-> @[b] \cup (IF b \in DOMAIN w THEN {w[b]} ELSE {})],
            !.toks = [i \in DOMAIN @ |-> [@[i] EXCEPT !.since =
                         [b \in Disk |-> @[b] \cup (IF b \in DOMAIN w THEN {w[b]} ELSE {})]]]]

(* mutant: any flush ends the cycle, whether or not its writes are done *)
tfs_device_flushEarly(x, who, k) ==
  [x EXCEPT !.toks = Append(@, [who |-> who, k |-> k, base |-> x.cur,
     cyc |-> IF x.active THEN x.cycle ELSE 0,
     since |-> [b \in Disk |-> {r.w[b] : r \in {r \in x.reqs : b \in DOMAIN r.w}}]])]

(* tfs_device_flush: observes the cycle whose writes it covers *)
tfs_device_flush(x, who, k) ==
  [x EXCEPT !.toks = Append(@, [who |-> who, k |-> k, base |-> x.cur,
     cyc |-> IF x.active /\ x.drained THEN x.cycle ELSE 0,
     since |-> [b \in Disk |-> {r.w[b] : r \in {r \in x.reqs : b \in DOMAIN r.w}}]])]

Outstanding(x, gen) ==
  \/ \E r \in x.reqs : r.gen = gen
  \/ \E a \in DOMAIN x.ex : \E i \in DOMAIN x.ex[a].defer : x.ex[a].defer[i].gen = gen

--------------------------------------------------------------------------
(* Metadata.                                                              *)

Md(x) == x.hist[Len(x.hist)]
Log(x, md) == IF md = Md(x) THEN x ELSE [x EXCEPT !.hist = Append(@, md), !.flag = TRUE]
LogEx(x, a, e) == Log(x, [Md(x) EXCEPT !.ex = [q \in DOMAIN @ \cup {a} |-> IF q = a THEN e ELSE @[q]]])
LogNoEx(x, a) == Log(x, [Md(x) EXCEPT !.ex = [q \in DOMAIN @ \ {a} |-> @[q]]])

Pages(len) == 0 .. ((len + Bpp - 1) \div Bpp) - 1   \* tfs_map_pages_for
InMap(e, p) == e.mapped /\ p \in e.map

(* filesystem_allocate_storage: the first gap that is large enough *)
filesystem_allocate_storage(x, n) ==
  LET fits == {b \in Disk : b .. b + n - 1 \subseteq x.free}
  IN  IF fits = {} THEN 0 ELSE MinOf(fits)

(* create_extent: halves the request until it fits; no length, no space *)
create_extent(x, lo, hi) ==
  LET ok == {n \in {hi - lo, (hi - lo) \div 2, (hi - lo) \div 4} \ {0} :
                filesystem_allocate_storage(x, n) # 0}
      n == Longest(ok)
  IN  [blk |-> filesystem_allocate_storage(x, n), len |-> n, alloc |-> n,
       un |-> "uninit", mapped |-> FALSE, map |-> {}, pub |-> {}, bad |-> FALSE, defer |-> <<>>]

(* add_extent_to_file *)
add_extent_to_file(x, a, e) ==
  LogEx([x EXCEPT !.ex = [q \in DOMAIN @ \cup {a} |-> IF q = a THEN e ELSE @[q]],
                  !.free = @ \ (e.blk .. e.blk + e.alloc - 1)],
        a, [blk |-> e.blk, len |-> e.len, alloc |-> e.alloc, un |-> TRUE, map |-> {}])

--------------------------------------------------------------------------
(* Publication of written data.                                           *)

(* tfs_pub_entry, tfs_pub_register, tfs_pub_register_pages *)
tfs_pub_register(x, a, init, len, bits) ==
  LET mine == {i \in DOMAIN x.pubs : x.pubs[i].gen = x.wgen /\ x.pubs[i].ex = a
                 /\ \A j \in i .. Len(x.pubs) : x.pubs[j].gen = x.wgen}
      new == [ex |-> a, gen |-> x.wgen, len |-> len, init |-> init, bits |-> bits]
      add(p) == [p EXCEPT !.len = IF len > @ THEN len ELSE @, !.init = @ \/ init, !.bits = @ \cup bits]
  IN  IF mine # {} THEN [x EXCEPT !.pubs[MaxOf(mine)] = add(@)]
      ELSE [x EXCEPT !.pubs = Append(@, new), !.armed = TRUE, !.flag = TRUE]

(* tfs_pub_make_eager, and what the end of a generation's last write does *)
tfs_pub_launch(x) ==
  IF x.active /\ x.drained /\ x.eager /\ ~x.issued
  THEN [x EXCEPT !.issued = TRUE, !.launch = @ + 1] ELSE x
tfs_pub_make_eager(x) == tfs_pub_launch([x EXCEPT !.eager = TRUE])

tfs_pub_start(x, eager) ==
  LET y == [x EXCEPT !.active = TRUE, !.cycle = @ + 1, !.cgen = x.wgen, !.wgen = 1 - @,
                     !.drained = ~Outstanding(x, x.wgen), !.eager = eager, !.issued = FALSE]
  IN  IF eager THEN tfs_pub_launch(y) ELSE [y EXCEPT !.armed = TRUE]

(* tfs_pub_wake: the callers waiting for publication go on, or fail *)
tfs_pub_wake(x, ok) ==
  [x EXCEPT !.waiters = {},
            !.sync = [f \in Syncs |-> IF f \in x.waiters
                        THEN [@[f] EXCEPT !.pc = IF ok THEN "log" ELSE "idle"] ELSE @[f]]]

(* tfs_pub_cycle *)
tfs_pub_cycle(x, who) ==
  IF x.active THEN tfs_pub_make_eager([x EXCEPT !.next = @ \cup who])
  ELSE LET y == [x EXCEPT !.waiters = @ \cup x.next \cup who, !.next = {}]
       IN  CASE y.err -> tfs_pub_wake([y EXCEPT !.pubs = <<>>], FALSE)
             [] ~y.err /\ y.pubs = <<>> -> tfs_pub_wake(y, TRUE)
             [] OTHER -> tfs_pub_start(y, TRUE)

tfs_pub_lazy(x) == IF ~x.active /\ ~x.err /\ x.pubs # <<>> THEN tfs_pub_start(x, FALSE) ELSE x

(* tfs_pub_stage_map: publishes pages; a complete map is dropped *)
tfs_pub_stage_map(x, p) ==
  LET e == x.ex[p.ex]
      pub == e.pub \cup p.bits
      y == LogEx(x, p.ex, [Md(x).ex[p.ex] EXCEPT !.un = FALSE])
  IN  IF Pages(e.len) \subseteq pub
      THEN [LogEx(y, p.ex, [Md(y).ex[p.ex] EXCEPT !.map = {}])
              EXCEPT !.ex[p.ex] = [@ EXCEPT !.un = "init", !.mapped = FALSE, !.map = {}, !.pub = {}]]
      ELSE LogEx([x EXCEPT !.ex[p.ex].pub = pub], p.ex, [Md(x).ex[p.ex] EXCEPT !.map = pub])

(* tfs_pub_stage: length first, then the end of "uninited", then the pages *)
tfs_pub_stage(x, p) ==
  LET len == Least(p.len, x.ex[p.ex].len)
      old == Md(x).ex[p.ex]
      y == IF len > old.len THEN LogEx(x, p.ex, [old EXCEPT !.len = len]) ELSE x
      z == IF p.init THEN LogEx(y, p.ex, [Md(y).ex[p.ex] EXCEPT !.un = FALSE]) ELSE y
  IN  IF p.bits # {} /\ x.ex[p.ex].mapped THEN tfs_pub_stage_map(z, p) ELSE z

(* tfs_pub_finish.  The log has room for the first n publications; the rest *)
(* stays registered for a later cycle                                        *)
tfs_pub_finish(x, n) ==
  LET old == SelectSeq(x.pubs, LAMBDA p : p.gen = x.cgen /\ p.ex >= 0)
      kept == SelectSeq(x.pubs, LAMBDA p : p.gen # x.cgen)
      fail == n < Len(old)
      later == [i \in 1 .. Len(old) - n |-> [old[n + i] EXCEPT !.gen = x.wgen]]
      y == IF x.err THEN [x EXCEPT !.pubs = kept]
           ELSE [FoldLeft(tfs_pub_stage, x, SubSeq(old, 1, n)) EXCEPT !.pubs = later \o kept]
      z == tfs_pub_wake([y EXCEPT !.active = FALSE], ~x.err /\ ~fail)
  IN  IF z.next # {} THEN tfs_pub_cycle(z, {})
      ELSE [z EXCEPT !.armed = @ \/ z.pubs # <<>>]

--------------------------------------------------------------------------
(* Writing.  c is the number of the writeback, 0 for zeros, Reserve for a *)
(* reservation, which writes nothing.                                     *)

Reserve == -1
Content(e, a, lo, hi, c) ==
  [k \in e.blk + lo - a .. e.blk + hi - 1 - a |-> IF c = 0 THEN Zero ELSE <<k - e.blk + a, c>>]
Zeros(e, lo, hi) == [k \in e.blk + lo .. e.blk + hi - 1 |-> Zero]

tfs_data_write(x, w, conv) == IF DOMAIN w = {} THEN x ELSE Issue(x, w, x.wgen, conv)

(* write_extent, version 6: only the pages concerned, tracked in a map *)
write_pages(x, a, lo, hi, c) ==
  LET e == x.ex[a]
      rs == lo - a  re == hi - a
      p0 == rs \div Bpp  p1 == (re - 1) \div Bpp
      tail == Least((p1 + 1) * Bpp, e.len)
      zero(y, p, from, to) == tfs_data_write(y, IF p \in e.map THEN <<>> ELSE Zeros(e, from, to), -1)
  IN  [tfs_data_write(zero(zero(tfs_pub_register(x, a, FALSE, 0, p0 .. p1), p0, p0 * Bpp, rs), p1, re, tail),
                      Content(e, a, lo, hi, c), -1)
         EXCEPT !.ex[a] = [@ EXCEPT !.mapped = TRUE, !.map = @ \cup p0 .. p1]]

(* write_extent: the first write converts the whole extent; a write of zeros *)
(* (the gap before an extension) writes those zeros only                     *)
convert_extent(x, a, lo, hi, c) ==
  LET e == x.ex[a]
      zero(y, from, to) == tfs_data_write(y, IF c = 0 THEN <<>> ELSE Zeros(e, from, to), a)
      y == [tfs_pub_register(x, a, TRUE, 0, {}) EXCEPT !.ex[a].un = "conv",
              !.slip = @ \cup IF c # 0 THEN {} ELSE (a .. a + e.len - 1) \ (lo .. hi - 1)]
  IN  tfs_data_write(zero(zero(y, 0, lo - a), hi - a, e.len), Content(e, a, lo, hi, c), a)

(* tfs_uninited_defer *)
tfs_uninited_defer(x, a, lo, hi, c) ==
  [x EXCEPT !.ex[a].defer = Append(@, [w |-> Content(x.ex[a], a, lo, hi, c), gen |-> x.wgen])]

write_extent(x, a, from, to, c) ==
  LET e == x.ex[a]
      lo == MaxOf({from, a})  hi == Least(to, a + e.len)
  IN  CASE e.un = "uninit" /\ x.v6 /\ (e.mapped \/ lo = a) -> write_pages(x, a, lo, hi, c)
        [] e.un = "uninit" /\ ~(x.v6 /\ (e.mapped \/ lo = a)) -> convert_extent(x, a, lo, hi, c)
        [] e.un = "conv" -> tfs_uninited_defer(x, a, lo, hi, c)
        [] OTHER -> tfs_data_write(x, Content(e, a, lo, hi, c), -1)

(* extend: how far the extent before the range can take it.  An older        *)
(* publication of a length the extent had before it was cut covers the new  *)
(* blocks as well: slip                                                      *)
Take(x, a, n) ==
  LET e == x.ex[a]
  IN  IF n = 0 THEN x
      ELSE LogEx([x EXCEPT !.free = @ \ (e.blk + e.alloc .. e.blk + e.alloc + n - 1), !.ex[a].alloc = @ + n],
                 a, [Md(x).ex[a] EXCEPT !.alloc = e.alloc + n])
Lengthen(x, a, len, c) ==
  LET early == \E i \in DOMAIN x.pubs :
                 x.pubs[i].ex = a /\ x.pubs[i].gen # x.wgen /\ x.pubs[i].len > x.ex[a].len
      new == IF early /\ c # Reserve THEN a + x.ex[a].len .. a + len - 1 ELSE {}
  IN  [(IF c = Reserve THEN LogEx(x, a, [Md(x).ex[a] EXCEPT !.len = len])
        ELSE tfs_pub_register(x, a, FALSE, len, {})) EXCEPT !.ex[a].len = len, !.slip = @ \cup new]
WriteFrom(x, a, from, to, c) ==
  IF c # Reserve /\ from < to THEN write_extent(x, a, from, to, c) ELSE x
extend(x, a, lo, to, c) ==
  LET e == x.ex[a]
      own == a + e.alloc
      hi == Least(to, own + D - (e.blk + e.alloc) + 1)
      got == hi > own /\ e.blk + e.alloc .. e.blk + e.alloc + (hi - own) - 1 \subseteq x.free
      y == Take(x, a, IF got THEN hi - own ELSE 0)
      iLo == MaxOf({lo, a + e.len})  iHi == Least(hi, IF got THEN hi ELSE own)
      gap == IF c = Reserve THEN iLo ELSE a + e.len
  IN  IF (c = Reserve /\ (e.un # "uninit" \/ lo # a + e.len)) \/ e.mapped
      THEN [x |-> x, at |-> lo]
      ELSE IF iLo >= iHi THEN [x |-> y, at |-> lo]
      ELSE [x |-> WriteFrom(WriteFrom(Lengthen(y, a, iHi - a, c), a, gap, iLo, 0), a, iLo, iHi, c), at |-> iHi]

(* fill_gap, as often as needed *)
RECURSIVE fill_gap(_, _, _, _)
fill_gap(x, lo, hi, c) ==
  LET e == create_extent(x, lo, hi)
      y == add_extent_to_file(x, lo, e)
  IN  IF lo >= hi THEN [ok |-> TRUE, x |-> x]
      ELSE IF e.len = 0 THEN [ok |-> FALSE, x |-> x]
      ELSE fill_gap(IF c = Reserve THEN y ELSE write_extent(y, lo, lo, lo + e.len, c), lo + e.len, hi, c)

(* extents_range_handler for blocks lo .. hi-1: the gap before an extent, *)
(* the extent, and what is after it                                        *)
FillFrom(e, hi, c) == fill_gap(e.x, e.at, hi, c)
ThenWrite(f, a, lo, hi, c) ==
  IF f.ok /\ a < hi /\ c # Reserve THEN [f EXCEPT !.x = write_extent(f.x, a, lo, hi, c)] ELSE f
RECURSIVE RangeHandler(_, _, _, _)
RangeRest(f, lo, hi, c) == IF f.ok /\ lo < hi THEN RangeHandler(f.x, lo, hi, c) ELSE f
RangeHandler(x, lo, hi, c) ==
  LET before == {a \in DOMAIN x.ex : a <= lo}
      near == IF before = {} THEN -1 ELSE MaxOf(before)
      hit == near >= 0 /\ near + x.ex[near].len > lo
      after == {a \in DOMAIN x.ex : a > lo}
      next == IF hit THEN near ELSE IF after = {} THEN hi ELSE MinOf(after)
      limit == Least(hi, next)
      e == IF lo < limit /\ near >= 0 /\ ~hit THEN extend(x, near, lo, limit, c) ELSE [x |-> x, at |-> lo]
  IN  RangeRest(ThenWrite(FillFrom(e, limit, c), next, lo, hi, c),
                IF next >= hi THEN hi ELSE next + x.ex[next].len, hi, c)
Grow(r, hi) ==
  IF ~r.ok \/ Md(r.x).flen >= hi THEN r ELSE [r EXCEPT !.x = Log(r.x, [Md(r.x) EXCEPT !.flen = hi])]
extents_range_handler(x, lo, hi, c) == Grow(RangeHandler(x, lo, hi, c), hi)

--------------------------------------------------------------------------
(* Completions.                                                           *)

(* tfs_data_write_done and uninited_complete *)
data_write_done(x, r, ok) ==
  LET a == r.conv
      y == [x EXCEPT !.reqs = @ \ {r}, !.err = @ \/ ~ok, !.commit.bad = @ \/ ~ok,
                     !.cur = [b \in Disk |-> IF ok /\ b \in DOMAIN r.w THEN r.w[b] ELSE @[b]]]
      last == a >= 0 /\ \A q \in y.reqs : q.conv # a
      bad == x.ex[a].bad \/ ~ok
      z == IF a < 0 THEN y ELSE [y EXCEPT !.ex[a].bad = bad]
      go == LET q == z.ex[a].defer
                base == [z EXCEPT !.ex[a] = [@ EXCEPT !.un = "done", !.defer = <<>>, !.bad = FALSE]]
            IN  IF bad THEN [base EXCEPT !.commit.bad = TRUE, !.err = TRUE]
                ELSE FoldLeft(LAMBDA st, d : Issue(st, d.w, d.gen, -1), base, q)
      v == IF last THEN go ELSE z
  IN  tfs_pub_launch(IF x.active /\ ~Outstanding(v, x.cgen) THEN [v EXCEPT !.drained = TRUE] ELSE v)

(* tfs_shrink: extents beyond block n go, the one across n is cut *)
shrink_extent(n, x, a) ==
  LET e == x.ex[a]
      keep == n - a
      md == Md(x).ex[a]
      gone == [LogNoEx(x, a) EXCEPT
                 !.ex = [q \in DOMAIN @ \ {a} |-> @[q]],
                 !.pubs = [i \in DOMAIN @ |-> IF @[i].ex = a THEN [@[i] EXCEPT !.ex = -1] ELSE @[i]],
                 !.rel = @ \cup e.blk .. e.blk + e.alloc - 1]
      y == IF keep >= md.len THEN x ELSE LogEx(x, a, [md EXCEPT !.len = keep])
      z == [y EXCEPT !.ex[a] = [@ EXCEPT !.len = keep, !.alloc = keep,
                                         !.map = @ \cap Pages(keep), !.pub = @ \cap Pages(keep)],
                     !.pubs = [i \in DOMAIN @ |-> IF @[i].ex # a THEN @[i]
                                 ELSE [@[i] EXCEPT !.bits = @ \cap Pages(keep)]],
                     !.rel = @ \cup e.blk + keep .. e.blk + e.alloc - 1]
  IN  IF a >= n THEN gone
      ELSE IF a + e.len > n THEN LogEx(z, a, [Md(z).ex[a] EXCEPT !.alloc = keep])
      ELSE x

--------------------------------------------------------------------------
(* The actors.                                                            *)

(* pagecache_set_dirty: by whole pages *)
pagecache_set_dirty(x, lo, hi) ==
  [x EXCEPT !.dirty = @ \cup {b \in Blocks : b < Md(x).flen /\ b \div Bpp \in lo \div Bpp .. (hi - 1) \div Bpp}]

(* pagecache: write(2) reserves storage, then dirties the pages *)
Write(lo, hi) ==
  /\ left.w > 0
  /\ \E r \in {extents_range_handler(s, lo, hi, Reserve)} :
       s' = IF r.ok THEN pagecache_set_dirty(r.x, lo, hi) ELSE r.x
  /\ left' = [left EXCEPT !.w = @ - 1]

(* a store through a shared mapping dirties a page without a reservation *)
Store(b) ==
  /\ left.m > 0 /\ b < Md(s).flen
  /\ s' = pagecache_set_dirty(s, b, b + 1)
  /\ left' = [left EXCEPT !.m = @ - 1]

(* filesystem_alloc: new uninitialized extents in the gaps *)
filesystem_alloc(lo, hi) ==
  LET gaps == {b \in lo .. hi - 1 : \A a \in DOMAIN s.ex : b \notin a .. a + s.ex[a].len - 1}
      first == MinOf(gaps)
      end == MaxOf({b \in gaps : first .. b \subseteq gaps}) + 1
      r == fill_gap(s, first, end, Reserve)
  IN  /\ left.a > 0 /\ gaps # {} /\ gaps = first .. end - 1
      /\ s' = IF ~r.ok THEN s ELSE Log(r.x, [Md(r.x) EXCEPT !.flen = MaxOf({@, hi})])
      /\ left' = [left EXCEPT !.a = @ - 1]

(* pagecache_commit_dirty_node *)
commit(x) == [x EXCEPT !.commit = [live |-> TRUE, todo |-> x.dirty, all |-> x.dirty,
                                   bad |-> FALSE, waiters |-> {}],
                       !.dirty = {}, !.c = @ + 1]
Commit ==
  /\ ~s.commit.live /\ s.dirty # {} /\ s.c < left.c
  /\ s' = commit(s)
  /\ UNCHANGED left

(* tfs_write of the next dirty range *)
tfs_write ==
  LET lo == MinOf(s.commit.todo)
      hi == MaxOf({b \in s.commit.todo : lo .. b \subseteq s.commit.todo}) + 1
  IN  /\ s.commit.live /\ s.commit.todo # {}
      /\ \E r \in {extents_range_handler(s, lo, hi, s.c)} :
           s' = [r.x EXCEPT !.commit.todo = @ \ (lo .. hi - 1), !.commit.bad = @ \/ ~r.ok]
      /\ UNCHANGED left

tfs_data_write_done(r, ok) ==
  /\ ok \/ left.e > 0
  /\ s' = data_write_done(s, r, ok)
  /\ left' = IF ok THEN left ELSE [left EXCEPT !.e = @ - 1]

(* commit_dirty_node_complete: those waiting for the cache go on, or fail *)
CommitDone ==
  /\ s.commit.live /\ s.commit.todo = {} /\ s.reqs = {}
  /\ \A a \in DOMAIN s.ex : s.ex[a].defer = <<>>
  /\ LET k == s.commit
     IN  s' = [s EXCEPT !.commit.live = FALSE, !.commit.all = {}, !.commit.waiters = {}, !.commit.bad = FALSE,
                        !.dirty = IF k.bad THEN @ \cup k.all ELSE @,
                        !.have = [b \in Blocks |-> IF b \in k.all /\ ~k.bad THEN s.c ELSE @[b]],
                        !.sync = [f \in Syncs |-> IF f \in k.waiters
                           THEN [@[f] EXCEPT !.pc = IF k.bad THEN "idle" ELSE "synced"] ELSE @[f]]]
  /\ UNCHANGED left

(* fsfile_flush: whether the log needs flushing is decided here; snap is    *)
(* what the caller has written so far                                       *)
Written == [b \in Blocks |-> IF b \in s.dirty THEN s.c + 1 ELSE IF b \in s.commit.all THEN s.c ELSE s.have[b]]
fsfile_flush(f) ==
  /\ left.f > 0 /\ s.sync[f].pc = "idle"
  /\ s' = [s EXCEPT !.sync[f] = [@ EXCEPT !.pc = "cache", !.logs = s.flag, !.snap = Written], !.flag = FALSE]
  /\ left' = [left EXCEPT !.f = @ - 1]

(* pagecache_sync_node *)
pagecache_sync_node(f) ==
  /\ s.sync[f].pc = "cache"
  /\ s.dirty = {} \/ (~s.commit.live /\ s.c < left.c)
  /\ s' = IF ~s.commit.live /\ s.dirty = {} THEN [s EXCEPT !.sync[f].pc = "synced"]
          ELSE LET x == IF s.commit.live THEN s ELSE commit(s)
               IN  [x EXCEPT !.commit.waiters = @ \cup {f}, !.sync[f].pc = "writing"]
  /\ UNCHANGED left

(* fs_cache_sync_complete, first and second pass *)
fs_cache_sync_complete(f) ==
  /\ s.sync[f].pc = "synced"
  /\ LET x == [s EXCEPT !.sync[f].pc = IF s.sync[f].logs THEN "pub" ELSE "flush"]
     IN  s' = IF s.sync[f].logs THEN tfs_pub_cycle(x, {f}) ELSE tfs_device_flush(x, f, 0)
  /\ UNCHANGED left
FlushLog(f) ==
  /\ s.sync[f].pc = "log"
  /\ s' = tfs_device_flush([s EXCEPT !.sync[f].pc = "flush"], f, Len(s.hist))
  /\ UNCHANGED left

(* filesystem_flush_reclaim *)
Reclaim ==
  /\ left.r > 0 /\ ~s.commit.live
  /\ LET x == tfs_pub_lazy(s) IN s' = tfs_device_flush(x, "reclaim", Len(s.hist))
  /\ left' = [left EXCEPT !.r = @ - 1]

tfs_pub_timer_expired ==
  /\ s.armed
  /\ LET x == [s EXCEPT !.armed = FALSE]
     IN  s' = IF x.active THEN tfs_pub_make_eager(x) ELSE tfs_pub_lazy(x)
  /\ UNCHANGED left

tfs_pub_flush ==
  /\ s.launch > 0
  /\ s' = tfs_device_flush([s EXCEPT !.launch = @ - 1], "pub", 0)
  /\ UNCHANGED left

(* tfs_release_start: released storage waits for the log and a flush *)
tfs_release_start ==
  /\ s.rel # {} /\ s.releasing = {}
  /\ s' = tfs_device_flush([s EXCEPT !.releasing = s.rel, !.rel = {}], "release", Len(s.hist))
  /\ UNCHANGED left

(* the device has flushed: tfs_flush_relay, tfs_flush_done, tfs_release_flushed *)
FlushDone(i, ok) ==
  LET t == s.toks[i]
      drop == IF ok /\ t.k > 1 THEN t.k - 1 ELSE 0
      x == [s EXCEPT
        !.toks = [j \in 1 .. Len(@) - 1 |->
                    LET q == @[IF j < i THEN j ELSE j + 1]
                    IN  [q EXCEPT !.k = IF @ = 0 THEN 0 ELSE MaxOf({1, @ - drop})]],
        !.hist = SubSeq(@, drop + 1, Len(@)),
        !.cand = IF ok THEN [b \in Disk |-> @[b] \cap ({t.base[b]} \cup t.since[b])] ELSE @,
        !.fin = IF t.cyc = 0 THEN @ ELSE @ \cup {[cyc |-> t.cyc, ok |-> ok]}]
      promise(p, now) == [b \in Blocks |-> IF now THEN MaxOf({p[b], s.sync[t.who].snap[b]}) ELSE p[b]]
  IN  /\ ok \/ left.e > 0
      /\ left' = IF ok THEN left ELSE [left EXCEPT !.e = @ - 1]
      /\ s' = IF t.who \in Syncs
              THEN [x EXCEPT !.sync[t.who] = [@ EXCEPT !.pc = "idle", !.snap = [b \in Blocks |-> 0]],
                             !.prom = promise(@, ok /\ s.sync[t.who].logs),
                             !.prom0 = promise(@, ok)]
              ELSE IF t.who = "release"
              THEN [x EXCEPT !.free = IF ok THEN @ \cup s.releasing ELSE @,
                             !.rel = IF ok THEN @ ELSE @ \cup s.releasing, !.releasing = {}]
              ELSE x

(* tfs_flush_finish *)
tfs_flush_finish(t, n) ==
  LET x == [s EXCEPT !.fin = @ \ {t}, !.err = @ \/ ~t.ok]
      mine == Len(SelectSeq(s.pubs, LAMBDA p : p.gen = s.cgen /\ p.ex >= 0))
      ours == s.active /\ s.cycle = t.cyc
  IN  /\ IF ours THEN n <= mine /\ (n = mine \/ left.n > 0) ELSE n = 0
      /\ s' = IF ours THEN tfs_pub_finish(x, n) ELSE x
      /\ left' = IF ours /\ n < mine THEN [left EXCEPT !.n = @ - 1] ELSE left

(* tfs_truncate to a longer length *)
tfs_truncate_up(n) ==
  /\ left.t > 0 /\ n > Md(s).flen
  /\ s' = Log(s, [Md(s) EXCEPT !.flen = n])
  /\ left' = [left EXCEPT !.t = @ - 1]

(* ... to a shorter length: the cache has been written back *)
tfs_truncate(n) ==
  LET x == FoldLeft(LAMBDA st, a : shrink_extent(n, st, a), s, SetToSortSeq(DOMAIN s.ex, <))
      cut(v) == [b \in Blocks |-> IF b >= n THEN 0 ELSE v[b]]
  IN  /\ left.t > 0 /\ n < Md(s).flen
      /\ ~s.commit.live /\ s.dirty = {}
      /\ s' = [Log(x, [Md(x) EXCEPT !.flen = n, !.base = [b \in Blocks |-> IF b >= n THEN s.c ELSE @[b]]])
                 EXCEPT !.slip = {b \in @ : b < n}, !.have = cut(@), !.prom = cut(@), !.prom0 = cut(@),
                        !.sync = [f \in Syncs |-> [@[f] EXCEPT !.snap = cut(@)]]]
      /\ left' = [left EXCEPT !.t = @ - 1]

(* filesystem_log_complete, ingest_extent: the file as the log describes it, *)
(* empty or a block of zeros followed by a hole                              *)
Mounted(old) == IF ~old THEN [a \in {} |-> 0]
  ELSE 0 :> [blk |-> 1, len |-> 1, alloc |-> 1, un |-> "init", mapped |-> FALSE, map |-> {}, pub |-> {},
             bad |-> FALSE, defer |-> <<>>]
Recorded(old) == IF ~old THEN [a \in {} |-> 0]
  ELSE 0 :> [blk |-> 1, len |-> 1, alloc |-> 1, un |-> FALSE, map |-> {}]
OnDisk(old) == [b \in Disk |-> IF old /\ b = 1 THEN Zero ELSE Junk]

TfsInit ==
  \E u \in Uses :
    /\ left = u
    /\ s = [ex |-> Mounted(u.old), free |-> IF u.old THEN Disk \ {1} ELSE Disk, rel |-> {}, releasing |-> {}, v6 |-> u.v6, flag |-> FALSE,
            hist |-> <<[flen |-> IF u.old THEN N ELSE 0, ex |-> Recorded(u.old), base |-> [b \in Blocks |-> 0]]>>,
            cur |-> OnDisk(u.old), cand |-> [b \in Disk |-> {OnDisk(u.old)[b]}],
            reqs |-> {}, toks |-> <<>>, fin |-> {}, launch |-> 0,
            pubs |-> <<>>, wgen |-> 0, active |-> FALSE, cycle |-> 0, cgen |-> 0, drained |-> FALSE,
            eager |-> FALSE, issued |-> FALSE, err |-> FALSE, armed |-> FALSE, waiters |-> {}, next |-> {},
            dirty |-> {}, slip |-> {}, c |-> 0, have |-> [b \in Blocks |-> 0],
            commit |-> [live |-> FALSE, todo |-> {}, all |-> {}, bad |-> FALSE, waiters |-> {}],
            prom |-> [b \in Blocks |-> 0], prom0 |-> [b \in Blocks |-> 0],
            sync |-> [f \in Syncs |-> [pc |-> "idle", logs |-> FALSE, snap |-> [b \in Blocks |-> 0]]]]

TfsNext ==
  \/ \E lo \in Blocks, hi \in 1 .. N : lo < hi /\ (Write(lo, hi) \/ filesystem_alloc(lo, hi))
  \/ \E b \in Blocks : Store(b) \/ tfs_truncate(b) \/ tfs_truncate_up(b + 1)
  \/ Commit \/ CommitDone \/ Reclaim \/ tfs_pub_timer_expired \/ tfs_pub_flush \/ tfs_release_start
  \/ tfs_write
  \/ \E r \in s.reqs, ok \in BOOLEAN : tfs_data_write_done(r, ok)
  \/ \E f \in Syncs : fsfile_flush(f) \/ pagecache_sync_node(f) \/ fs_cache_sync_complete(f) \/ FlushLog(f)
  \/ \E i \in DOMAIN s.toks, ok \in BOOLEAN : FlushDone(i, ok)
  \/ \E t \in s.fin, n \in 0 .. Len(s.pubs) : tfs_flush_finish(t, n)

TfsSpec == TfsInit /\ [][TfsNext]_tfsVars

--------------------------------------------------------------------------
(* Properties.                                                            *)

(* What block b of the file may read as when the disk holds, of each block, *)
(* one of vals: read_extent over the extents ex of metadata read from disk. *)
AfterCrash(md, b) ==
  LET on == {a \in DOMAIN md.ex : b \in a .. a + md.ex[a].len - 1}
      a == MaxOf(on)
      e == md.ex[a]
  IN  IF on = {} \/ b >= md.flen \/ (e.un /\ (b - a) \div Bpp \notin e.map) THEN {Zero}
      ELSE s.cand[e.blk + b - a]

(* No stale data: whatever prefix of the log and whatever subset of the    *)
(* unflushed writes a crash leaves, a block of the file reads as zeros or  *)
(* as data written to that block of the file since it was last cut off;    *)
(* never as what the disk block held before (the publication cycle of      *)
(* tfs.c).                                                                 *)
NoStaleData ==
  \A i \in DOMAIN s.hist : \A b \in Blocks : \A v \in AfterCrash(s.hist[i], b) :
     b \in s.slip \/ v = Zero \/ (v[1] = b /\ v[2] > s.hist[i].base[b])

(* What a successful fsync that flushed the log has promised survives any  *)
(* crash: the block reads as that data or as later data.                   *)
FsyncedSurvives ==
  \A i \in DOMAIN s.hist : \A b \in Blocks : s.prom[b] > 0 =>
     \A v \in AfterCrash(s.hist[i], b) : v[1] = b /\ v[2] >= s.prom[b]

(* The same promise for every successful fsync. *)
EveryFsyncSurvives ==
  \A i \in DOMAIN s.hist : \A b \in Blocks : s.prom0[b] > 0 =>
     \A v \in AfterCrash(s.hist[i], b) : v[1] = b /\ v[2] >= s.prom0[b]

(* read_extent now *)
Now(b) ==
  LET on == {a \in DOMAIN s.ex : b \in a .. a + s.ex[a].len - 1}
      a == MaxOf(on)
      e == s.ex[a]
  IN  IF on = {} \/ (e.un = "uninit" /\ ~InMap(e, (b - a) \div Bpp)) \/ e.un = "conv" THEN Zero
      ELSE s.cur[e.blk + b - a]

(* What was written back last is what is read, whatever order the device   *)
(* completed the data, the zeros of a conversion and the deferred writes   *)
(* in.                                                                     *)
ReadsBack ==
  ~s.commit.live /\ s.dirty = {} =>
     \A b \in Blocks : (s.have[b] = 0 /\ b \in s.slip) \/ Now(b) = IF s.have[b] = 0 THEN Zero ELSE <<b, s.have[b]>>

(* A caller waiting for publication waits for a cycle that will end: its   *)
(* writes are still in flight, or its flush is due, on its way or done.    *)
WaitersAreServed ==
  s.waiters \cup s.next # {} =>
     /\ s.active /\ s.eager
     /\ \/ ~s.drained /\ Outstanding(s, s.cgen)
        \/ s.launch > 0
        \/ \E i \in DOMAIN s.toks : s.toks[i].cyc = s.cycle
        \/ \E t \in s.fin : t.cyc = s.cycle
=============================================================================
