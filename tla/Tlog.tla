-------------------------------- MODULE Tlog --------------------------------
(***************************************************************************)
(* The metadata log of the TFS filesystem (kernel/src/fs/tlog.c) and the   *)
(* release of storage it protects (kernel/src/fs/tfs.c): records are       *)
(* staged, flushed into linked extensions, compacted into a new log that   *)
(* the superblock then links, and read back after a crash.                 *)
(*                                                                         *)
(* The device has a volatile cache: a write stays in `vol' until a device  *)
(* flush issued after its completion completes, and a crash keeps any      *)
(* subset of those writes.  One write request is kept or lost as a whole.  *)
(* A log frame takes one slot; a record may be split into several frames.  *)
(***************************************************************************)
EXTENDS Naturals, Sequences, FiniteSets

CONSTANTS
    Exts,           \* storage extents of an extension's size (numbers, 0 is the superblock)
    K, C,           \* slots in a block; slots in an extension
    Size,           \* frames of each record, in the order they are logged
    Syncs,          \* callers of fsync
    Flusher,        \* whether log_set_dirty flushes a half-full staging buffer
    Uses            \* bounds of a behaviour: records, errors, compactions, crashes, data

VARIABLES
    m,              \* the logs, their extensions' buffers, storage map, device writes
    disk,           \* what the device keeps over a crash
    rel,            \* the release cycle
    sync,           \* callers of fsync
    w,              \* the record whose writer has released the filesystem lock
    alloc,          \* an allocation of file storage
    logged, set,    \* records staged; of these, operations that have returned
    deps,           \* (history) operations that had returned when a record was staged
    promised,       \* (history) records a completed fsync covers
    slip, left         \* what is left of the bounds

tlVars == <<m, disk, rel, sync, w, alloc, logged, set, deps, promised, slip, left>>

Records == DOMAIN Size
Hdr == [k |-> "hdr"]
End == [k |-> "end"]
Junk == [k |-> "junk"]
Link(e) == [k |-> "link", to |-> e]
Root(S) == [k |-> "root", recs |-> S]
Pieces(r) == [p \in 1..Size[r] |-> [k |-> "rec", r |-> r, p |-> p]]
Blocks == 1..(C \div K)
Lowest(S) == IF S = {} THEN 0 ELSE CHOOSE e \in S : \A f \in S : e <= f
Written(S) == [b \in Blocks |-> IF b = 1 THEN S ELSE <<>>]

NoLog == [live |-> FALSE, st |-> "INIT", dirty |-> FALSE, flushing |-> FALSE,
          restaged |-> FALSE, staging |-> <<>>, cur |-> 0, first |-> 0, exts |-> {}, now |-> {},
          next |-> {}, timer |-> FALSE, pending |-> 0, ok |-> TRUE, check |-> 0]

-----------------------------------------------------------------------------
(* Extensions.  x is the value of m; each operator returns the next one. *)

(* filesystem_reserve_log_space: the extent put aside, and another put aside *)
CanReserve(x, f) == x[f] # 0 \/ x.free # {}
Reserved(x, f) == IF x[f] # 0 THEN x[f] ELSE Lowest(x.free)
filesystem_reserve_log_space(x, f) ==
    LET rest == x.free \ {Reserved(x, f)} IN
    [x EXCEPT ![f] = Lowest(rest), !.free = rest \ {Lowest(rest)}]

open_log_extension(x, l, e) ==
    [x EXCEPT !.ext[e] = [mem |-> <<Hdr>>, start |-> 1],
              !.logs[l].exts = @ \cup {e}, !.logs[l].cur = e]

(* (mutant) the next flush begins after the block written last, full or not *)
flush_log_extensionSkips(x, e, release, then) ==
    LET c  == Append(x.ext[e].mem, End)
        hi == (Len(c) + K - 1) \div K
        bl == [b \in x.ext[e].start..hi |->
                 SubSeq(c, (b-1) * K + 1, IF b = hi THEN Len(c) ELSE b * K)]
    IN [x EXCEPT !.vol = Append(@, [at |-> e, blks |-> bl, then |-> then,
                                    done |-> FALSE, flushed |-> {}]),
                 !.ext[e].start = hi + 1]

(* Writes the blocks from the first one not written before, END_OF_LOG last *)
flush_log_extension(x, e, release, then) ==
    LET c  == Append(x.ext[e].mem, End)
        hi == (Len(c) + K - 1) \div K
        bl == [b \in x.ext[e].start..hi |->
                 SubSeq(c, (b-1) * K + 1, IF b = hi THEN Len(c) ELSE b * K)]
    IN [x EXCEPT !.vol = Append(@, [at |-> e, blks |-> bl, then |-> then,
                                    done |-> FALSE, flushed |-> {}]),
                 !.ext[e].start = IF release THEN @ ELSE (Len(c) - 1) \div K + 1]

(* The link to a new extension is written when the extension has been.     *)
log_extend_link(x, from, to, then) ==
    flush_log_extension([x EXCEPT !.ext[from].mem = Append(@, Link(to))], from, TRUE, then)

(* The superblock buffer of a new log: the header and the link *)
LinkSuperblock(x, to, l) ==
    [x EXCEPT !.vol = Append(@, [at |-> 0, blks |-> Written(<<Hdr, Link(to), End>>),
                                 then |-> [k |-> "switch", l |-> l],
                                 done |-> FALSE, flushed |-> {}])]

log_extend(x, l) ==
    LET e == Reserved(x, "extend")
        old == x.logs[l].cur
        y == open_log_extension(filesystem_reserve_log_space(x, "extend"), l, e)
    IN flush_log_extension([y EXCEPT !.logs[l].pending = @ + 1], e, FALSE,
                           [k |-> "link", from |-> old, to |-> e, l |-> l])

RECURSIVE log_write_internal(_, _)
log_write_internal(x, l) ==
    LET t == x.logs[l] IN
    IF t.staging = <<>> THEN x
    ELSE IF Len(x.ext[t.cur].mem) + 2 <= C
    THEN log_write_internal([x EXCEPT !.ext[t.cur].mem = Append(@, Head(t.staging)),
                                      !.logs[l].staging = Tail(@)], l)
    ELSE IF CanReserve(x, "extend") THEN log_write_internal(log_extend(x, l), l)
    ELSE [x EXCEPT !.logs[l].ok = FALSE, !.logs[l].st = "FAILED"]

-----------------------------------------------------------------------------
(* Flushing.  "" stands for no completion; an asynchronous completion is   *)
(* put in `ready' with its status.                                         *)

log_flush(x, l, who) ==
    LET t == x.logs[l]
        whoS == {who} \ {""}
    IN IF ~t.dirty /\ t.st # "COMPACTING"
       THEN [x EXCEPT !.ready = @ \cup {<<s, TRUE>> : s \in whoS}]
       ELSE IF t.flushing \/ t.st = "COMPACTING"
       THEN IF t.restaged THEN [x EXCEPT !.logs[l].next = @ \cup whoS]
            ELSE [x EXCEPT !.logs[l].now = @ \cup whoS]
       ELSE LET y == log_write_internal(
                       [x EXCEPT !.logs[l] = [t EXCEPT !.now = @ \cup whoS, !.timer = FALSE,
                           !.flushing = TRUE, !.restaged = FALSE, !.pending = 1, !.ok = TRUE,
                           !.check = @ + (IF x.budget > 0 THEN 1 ELSE 0)]], l)
            IN flush_log_extension(y, y.logs[l].cur, FALSE, [k |-> "flush", l |-> l])

log_flush_restaged(x, l) ==
    LET t == x.logs[l] IN
    IF ~t.restaged \/ t.flushing \/ t.st = "COMPACTING" THEN x
    ELSE IF t.next # {}
    THEN log_flush([x EXCEPT !.logs[l].now = @ \cup t.next, !.logs[l].next = {}], l, "")
    ELSE [x EXCEPT !.logs[l].timer = TRUE]

log_flush_complete(x, l) ==
    LET t == x.logs[l] IN
    log_flush_restaged([x EXCEPT !.logs[l] = [t EXCEPT !.dirty = t.restaged, !.now = {},
                                                       !.flushing = FALSE],
                                 !.ready = @ \cup {<<s, t.ok>> : s \in t.now}], l)

log_set_dirty(x, l) ==
    LET t == x.logs[l]
        y == [x EXCEPT !.logs[l].restaged = @ \/ t.flushing \/ t.st = "COMPACTING",
                       !.logs[l].dirty = TRUE,
                       !.logs[l].timer = @ \/ ~t.dirty]
    IN IF t.dirty /\ Flusher /\ Len(t.staging) >= C \div 2 THEN log_flush(y, l, "") ELSE y

log_write_eav(x, l, frames) ==
    IF x.logs[l].st = "FAILED" THEN x
    ELSE log_set_dirty([x EXCEPT !.logs[l].staging = @ \o frames], l)

(* log_flush after it takes the lock again: a log with many obsolete       *)
(* entries is rebuilt from the tree in memory, filesystem_log_rebuild.     *)
Checked(x, l) == [x EXCEPT !.logs[l].check = @ - 1]
MayCompact(x, l) == x.budget > 0 /\ x.logs[l].st = "LINKED" /\ CanReserve(x, "new") /\ ~x.logs[3-l].live
StartCompaction(x, l, tree) ==
    LET e == Reserved(x, "new")
        y == [filesystem_reserve_log_space(x, "new") EXCEPT
                !.logs[l].st = "COMPACTING", !.temp = 3 - l, !.budget = @ - 1,
                !.logs[3-l] = [NoLog EXCEPT !.live = TRUE, !.first = e]]
    IN log_flush(log_write_eav(open_log_extension(y, 3-l, e), 3-l, <<Root(tree)>>), 3-l, "rebuild")

RECURSIVE FlushAll(_, _, _)
FlushAll(x, l, S) ==
    IF S = {} THEN x
    ELSE LET s == CHOOSE s \in S : TRUE IN FlushAll(log_flush(x, l, s), l, S \ {s})

(* log_switch_complete, but for the storage of the log that goes *)
log_switch_complete(x, ok, old) ==
    LET used == IF ok THEN 3 - old ELSE old
        t == x.logs[old]
        y == [x EXCEPT !.logs[3-used].live = FALSE, !.logs[3-used].timer = FALSE,
                       !.logs[used].st = "LINKED", !.tl = used, !.temp = 0,
                       !.ready = @ \cup {<<s, ok>> : s \in t.now}]
        z == FlushAll([y EXCEPT !.logs[old].now = {}, !.logs[old].next = {}], used, t.next)
    IN IF ok THEN z ELSE log_flush_restaged(z, old)

-----------------------------------------------------------------------------
(* Reading the log back *)

Over(d, wr) == [d EXCEPT ![wr.at] = [b \in DOMAIN @ |->
                  IF b \in DOMAIN wr.blks THEN wr.blks[b] ELSE @[b]]]
RECURSIVE Image(_, _, _)
Image(d, v, S) ==   \* the device with the writes S of v, in order
    IF S = {} THEN d
    ELSE LET i == CHOOSE i \in S : \A j \in S : i <= j IN Image(Over(d, v[i]), v, S \ {i})

(* A link is not kept without the writes of the extension it names *)
LinksAfterTargets(v, S) ==
    \A i \in S : \A b \in DOMAIN v[i].blks : \A n \in DOMAIN v[i].blks[b] :
        v[i].blks[b][n].k = "link" =>
            \A j \in 1..(i-1) : v[j].at = v[i].blks[b][n].to => j \in S

RECURSIVE Slots(_, _)
Slots(ext, b) == IF b > C \div K THEN <<>> ELSE ext[b] \o Slots(ext, b + 1)
Until(s) ==  \* the frames up to END_OF_LOG or the link
    LET stop == Lowest({i \in DOMAIN s : s[i].k \in {"end", "link"}})
    IN SubSeq(s, 1, stop)

(* log_read_complete: frames of the chain of extensions from e, the last   *)
(* extension, or a failure                                                 *)
RECURSIVE log_read(_, _, _)
log_read(d, e, seen) ==
    LET s == Until(Slots(d[e], 1)) IN
    IF s = <<>> \/ e \in seen \/ s[1] # Hdr THEN [ok |-> FALSE, frames |-> <<>>, last |-> e, exts |-> {}]
    ELSE IF s[Len(s)] = End
    THEN [ok |-> TRUE, frames |-> SubSeq(s, 2, Len(s) - 1), last |-> e, exts |-> {e}]
    ELSE LET r == log_read(d, s[Len(s)].to, seen \cup {e})
         IN [r EXCEPT !.frames = SubSeq(s, 2, Len(s) - 1) \o @, !.exts = @ \cup {e}]

(* A frame continues the record of the frame before it, or begins one when *)
(* none is incomplete.                                                     *)
InOrder(s) ==
    \A i \in DOMAIN s :
        /\ s[i].k # "junk"
        /\ (s[i].k = "rec" /\ s[i].p > 1) =>
              i > 1 /\ s[i-1].k = "rec" /\ s[i-1].r = s[i].r /\ s[i-1].p = s[i].p - 1
        /\ (i > 1 /\ s[i-1].k = "rec" /\ s[i-1].p < Size[s[i-1].r]) =>
              s[i].k = "rec" /\ s[i].r = s[i-1].r
Mountable(d) == LET r == log_read(d, 0, {}) IN r.ok /\ InOrder(r.frames)
Recovered(d) ==
    LET s == log_read(d, 0, {}).frames IN
    UNION {IF s[i].k = "root" THEN s[i].recs
           ELSE IF s[i].k = "rec" /\ s[i].p = Size[s[i].r] THEN {s[i].r} ELSE {} : i \in DOMAIN s}
Partial(d) ==
    LET s == log_read(d, 0, {}).frames IN
    s # <<>> /\ s[Len(s)].k = "rec" /\ s[Len(s)].p < Size[s[Len(s)].r]

(* A mounted volume: the log goes on after the last record read *)
Mounted(d, budget) ==
    LET r == log_read(d, 0, {})
        own == Until(Slots(d[r.last], 1))
    IN [tl |-> 1, temp |-> 0, ready |-> {}, vol |-> <<>>, new |-> 0, extend |-> 0, budget |-> budget,
        free |-> Exts \ r.exts,
        ext |-> [e \in Exts |-> [mem |-> IF e = r.last THEN SubSeq(own, 1, Len(own) - 1) ELSE <<>>,
                                 start |-> 1]],
        logs |-> <<[NoLog EXCEPT !.live = TRUE, !.st = "LINKED", !.cur = r.last,
                                 !.exts = r.exts \ {0}], NoLog>>]

IdleRelease == [deferred |-> {}, releasing |-> {}, active |-> FALSE, device |-> FALSE, sched |-> FALSE,
                timer |-> FALSE, gen |-> 0]
IdleSync == [st |-> "idle", need |-> {}]

(* A volume made by mkfs: an empty log in extent 1 *)
TlogInit ==
    /\ disk = [e \in Exts \cup {0} |->
                 IF e = 0 THEN Written(<<Hdr, Link(1), End>>)
                 ELSE IF e = 1 THEN Written(<<Hdr, End>>)
                 ELSE [b \in Blocks |-> <<Junk>>]]
    /\ left \in Uses
    /\ m = Mounted(disk, left.compactions)
    /\ rel = IdleRelease /\ sync = [s \in Syncs |-> IdleSync]
    /\ w = [r |-> 0, l |-> 1] /\ alloc = [st |-> "idle", gen |-> 0]
    /\ logged = 0 /\ set = {} /\ deps = [r \in Records |-> {}] /\ promised = {}
    /\ slip = {}

-----------------------------------------------------------------------------
(* Releasing storage (tfs.c) *)

tfs_release_schedule(r) == [r EXCEPT !.sched = @ \/ ~r.active]
tfs_release_defer(r) == [r EXCEPT !.timer = @ \/ ~(r.sched \/ r.active)]
filesystem_release_storage(r, S) ==
    IF S = {} THEN r ELSE tfs_release_defer([r EXCEPT !.deferred = @ \cup S])

(* A wake-up of the allocation that waits *)
tfs_release_wake == alloc' = IF alloc.st = "wait" THEN [alloc EXCEPT !.st = "woken"] ELSE alloc

tfs_release_timer_expired ==
    /\ rel.timer
    /\ rel' = LET r == [rel EXCEPT !.timer = FALSE]
              IN IF r.deferred = {} THEN r ELSE tfs_release_schedule(r)
    /\ UNCHANGED <<m, disk, sync, w, alloc, logged, set, deps, promised, slip, left>>

tfs_release_start ==
    /\ rel.sched
    /\ IF rel.active THEN rel' = [rel EXCEPT !.sched = FALSE] /\ UNCHANGED <<m, alloc>>
       ELSE IF rel.deferred = {}
       THEN rel' = [rel EXCEPT !.sched = FALSE] /\ tfs_release_wake /\ m' = m
       ELSE /\ rel' = [rel EXCEPT !.sched = FALSE, !.active = TRUE,
                                  !.releasing = rel.deferred, !.deferred = rel.releasing]
            /\ m' = log_flush(m, m.tl, "release")
            /\ alloc' = alloc
    /\ UNCHANGED <<disk, sync, w, logged, set, deps, promised, slip, left>>

(* create_extent and filesystem_check_or_reserve_extent: file data takes an *)
(* extent of the size of an extension, and waits for a release that is on.  *)
LogSpace(x) == LET y == IF x.extend # 0 THEN x ELSE [x EXCEPT !.extend = Lowest(x.free), !.free = @ \ {Lowest(x.free)}]
               IN IF y.new # 0 THEN y ELSE [y EXCEPT !.new = Lowest(y.free), !.free = @ \ {Lowest(y.free)}]
file_write ==
    /\ \/ alloc.st = "idle" /\ left.data > 0
       \/ alloc.st = "woken"
    /\ LET x == LogSpace(m)
           e == Lowest(x.free)
       IN IF x.extend # 0 /\ x.new # 0 /\ e # 0
          THEN /\ m' = [x EXCEPT !.free = @ \ {e},
                                 !.vol = Append(@, [at |-> e, blks |-> [b \in Blocks |-> <<Junk>>],
                                           then |-> [k |-> "none"], done |-> TRUE, flushed |-> {}])]
               /\ alloc' = [alloc EXCEPT !.st = "idle"] /\ rel' = rel
               /\ left' = [left EXCEPT !.data = @ - 1]
          ELSE IF (rel.deferred # {} \/ rel.active) /\ (alloc.st = "woken" => alloc.gen # rel.gen)
          THEN /\ m' = x /\ rel' = tfs_release_schedule(rel)
               /\ alloc' = [st |-> "wait", gen |-> rel.gen] /\ left' = left
          ELSE /\ m' = x /\ rel' = rel   \* -ENOSPC
               /\ alloc' = [alloc EXCEPT !.st = "idle"]
               /\ left' = [left EXCEPT !.data = @ - 1]
    /\ UNCHANGED <<disk, sync, w, logged, set, deps, promised, slip>>

-----------------------------------------------------------------------------
(* The operations *)


(* filesystem_write_eav returns: the operation changes the tree in memory *)
Finish(x, r) ==
    /\ m' = IF x.temp = 0 THEN x ELSE log_write_eav(x, x.temp, Pieces(r))
    /\ set' = set \cup {r}

(* filesystem_write_eav, until the log releases the lock in a flush *)
filesystem_write_eav ==
    /\ w.r = 0 /\ logged < left.records
    /\ LET r == logged + 1
           x == log_write_eav(m, m.tl, Pieces(r))
       IN /\ logged' = r /\ deps' = [deps EXCEPT ![r] = set]
          /\ IF m.logs[m.tl].st = "FAILED" THEN UNCHANGED <<m, set, w>>  \* -ENOSPC
             ELSE IF x.logs[x.tl].check > m.logs[m.tl].check
             THEN m' = x /\ w' = [r |-> r, l |-> m.tl] /\ set' = set
             ELSE Finish(x, r) /\ w' = w
    /\ UNCHANGED <<disk, rel, sync, alloc, promised, slip, left>>

(* The same, once log_flush has the lock again *)
write_eav_continue ==
    /\ w.r # 0 /\ m.logs[w.l].check > 0
    /\ w' = [w EXCEPT !.r = 0]
    /\ \/ /\ IF m.logs[w.l].st = "FAILED" THEN m' = Checked(m, w.l) /\ set' = set
             ELSE Finish(Checked(m, w.l), w.r)
          /\ left' = left
          /\ slip' = IF m.tl # w.l THEN slip \cup {"switched"} ELSE slip
       \/ /\ MayCompact(m, w.l) /\ left' = left
          /\ Finish(StartCompaction(Checked(m, w.l), w.l, set), w.r)
          /\ slip' = slip \cup {"spanning"}
    /\ UNCHANGED <<disk, rel, sync, alloc, logged, deps, promised>>

(* The rest of a log_flush with another caller *)
flush_continue(l) ==
    /\ m.logs[l].check > (IF w.r # 0 /\ w.l = l THEN 1 ELSE 0)
    /\ \/ m' = Checked(m, l) /\ left' = left
          /\ slip' = slip
       \/ MayCompact(m, l) /\ left' = left /\ m' = StartCompaction(Checked(m, l), l, set)
          /\ slip' = IF w.r # 0 THEN slip \cup {"spanning"} ELSE slip
    /\ UNCHANGED <<disk, rel, sync, w, alloc, logged, set, deps, promised>>

log_flush_timer_expired(l) ==
    /\ m.logs[l].timer /\ m.logs[l].live
    /\ m' = log_flush([m EXCEPT !.logs[l].timer = FALSE], l, "")
    /\ UNCHANGED <<disk, rel, sync, w, alloc, logged, set, deps, promised, slip, left>>

(* fs_cache_sync_complete: flush the log, then the device *)
fsync(s) ==
    /\ sync[s].st = "idle"
    /\ sync' = [sync EXCEPT ![s] = [st |-> "log", need |-> set]]
    /\ m' = log_flush(m, m.tl, s)
    /\ UNCHANGED <<disk, rel, w, alloc, logged, set, deps, promised, slip, left>>

(* tfs_device_flush: it covers the writes that have completed *)
Covered(x, who) == [x EXCEPT !.vol = [i \in DOMAIN @ |->
                     IF @[i].done THEN [@[i] EXCEPT !.flushed = @ \cup {who}] ELSE @[i]]]

(* A completion that was put in the queue runs *)
Deliver(who, ok) ==
    /\ <<who, ok>> \in m.ready
    /\ LET x == [m EXCEPT !.ready = @ \ {<<who, ok>>}] IN
       CASE who \in Syncs ->
              /\ m' = IF ok THEN Covered(x, who) ELSE x
              /\ sync' = [sync EXCEPT ![who].st = IF ok THEN "device" ELSE "failed"]
              /\ UNCHANGED <<rel, alloc, slip>>
         [] who = "release" ->
              /\ IF ok THEN m' = Covered(x, who) /\ rel' = [rel EXCEPT !.device = TRUE] /\ alloc' = alloc
                 ELSE /\ tfs_release_wake /\ m' = x
                      /\ rel' = [rel EXCEPT !.active = FALSE, !.releasing = {},
                                            !.deferred = @ \cup rel.releasing]
              /\ UNCHANGED <<sync, slip>>
         [] who = "rebuild" ->
              /\ IF ok THEN m' = LinkSuperblock(x, m.logs[m.temp].first, m.tl) /\ UNCHANGED <<rel, slip>>
                 ELSE /\ m' = log_switch_complete(x, FALSE, m.tl)
                      /\ rel' = filesystem_release_storage(rel, m.logs[m.temp].exts)
                      /\ slip' = IF m.logs[m.temp].flushing THEN slip \cup {"outrun"} ELSE slip
              /\ UNCHANGED <<sync, alloc>>
    /\ UNCHANGED <<disk, w, logged, set, deps, promised, left>>

(* The device completes a flush.  Requests that overlap read one staging   *)
(* buffer, so that an older one does not bring back older contents.        *)
Less(v, i, cov) == [v[i] EXCEPT !.blks = [b \in DOMAIN @ \
    UNION {DOMAIN v[j].blks : j \in {j \in cov : j > i /\ v[j].at = v[i].at}} |-> @[b]]]
FlushDone(who, ok) ==
    /\ IF who = "release" THEN rel.device ELSE sync[who].st = "device"
    /\ ok \/ left.errors > 0
    /\ left' = [left EXCEPT !.errors = IF ok THEN @ ELSE @ - 1]
    /\ LET cov == {i \in DOMAIN m.vol : who \in m.vol[i].flushed}
           clean == [i \in DOMAIN m.vol |-> [m.vol[i] EXCEPT !.flushed = @ \ {who}]]
           kept == SelectSeq([i \in DOMAIN m.vol |-> Less(m.vol, i, cov)],
                             LAMBDA v : who \notin v.flushed)
       IN /\ disk' = IF ok THEN Image(disk, m.vol, cov) ELSE disk
          /\ LET x == [m EXCEPT !.vol = IF ok THEN kept ELSE clean] IN
             IF who = "release"
             THEN /\ m' = IF ok THEN [x EXCEPT !.free = @ \cup rel.releasing] ELSE x
                  /\ rel' = LET r == [rel EXCEPT !.active = FALSE, !.device = FALSE, !.releasing = {},
                                        !.deferred = IF ok THEN @ ELSE @ \cup rel.releasing,
                                        !.gen = IF ok THEN 1 - @ ELSE @]
                            IN IF ~ok \/ r.deferred = {} THEN r
                               ELSE IF alloc.st = "wait" THEN tfs_release_schedule(r)
                               ELSE tfs_release_defer(r)
                  /\ tfs_release_wake
                  /\ UNCHANGED <<sync, promised>>
             ELSE /\ m' = x
                  /\ sync' = [sync EXCEPT ![who].st = IF ok THEN "done" ELSE "failed"]
                  /\ promised' = IF ok THEN promised \cup sync[who].need ELSE promised
                  /\ UNCHANGED <<rel, alloc>>
    /\ UNCHANGED <<w, logged, set, deps, slip>>

(* The device completes a write *)
WriteDone(i, ok) ==
    /\ i \in DOMAIN m.vol /\ ~m.vol[i].done
    /\ ok \/ left.errors > 0
    /\ left' = [left EXCEPT !.errors = IF ok THEN @ ELSE @ - 1]
    /\ LET t == m.vol[i].then
           x == [m EXCEPT !.vol[i].done = TRUE]
           Joined(y, l) == LET z == [y EXCEPT !.logs[l].pending = @ - 1,
                                              !.logs[l].ok = @ /\ ok]
                           IN IF z.logs[l].pending = 0 THEN log_flush_complete(z, l) ELSE z
       IN /\ m' = CASE t.k = "flush" -> Joined(x, t.l)
                    [] t.k = "link" -> IF ok THEN log_extend_link(x, t.from, t.to, [k |-> "flush", l |-> t.l])
                                       ELSE Joined(x, t.l)
                    [] t.k = "switch" -> log_switch_complete(x, ok, t.l)
          /\ IF t.k # "switch" THEN rel' = rel /\ slip' = slip \cup (IF ok THEN {} ELSE {"error"})
             ELSE /\ rel' = filesystem_release_storage(rel, m.logs[IF ok THEN t.l ELSE 3 - t.l].exts)
                  /\ slip' = slip \cup (IF ok THEN {} ELSE {"error"})
                               \cup (IF ok /\ m.logs[3-t.l].st = "FAILED" THEN {"forgotten"} ELSE {})
                               \cup (IF m.logs[IF ok THEN t.l ELSE 3 - t.l].flushing THEN {"outrun"} ELSE {})
    /\ UNCHANGED <<disk, sync, w, alloc, logged, set, deps, promised>>

(* A crash: the volume is mounted again from what the device has kept *)
Crash(S) ==
    /\ left.crashes > 0 /\ left' = [left EXCEPT !.crashes = @ - 1]
    /\ LinksAfterTargets(m.vol, S)
    /\ disk' = Image(disk, m.vol, S)
    /\ m' = Mounted(disk', m.budget) /\ set' = Recovered(disk')
    /\ rel' = IdleRelease /\ alloc' = [st |-> "idle", gen |-> 0] /\ w' = [r |-> 0, l |-> 1]
    /\ sync' = [s \in Syncs |-> IF sync[s].st \in {"log", "device"} THEN [sync[s] EXCEPT !.st = "failed"] ELSE sync[s]]
    /\ slip' = IF Partial(disk') THEN slip \cup {"partial"} ELSE slip
    /\ UNCHANGED <<logged, deps, promised>>

TlogNext ==
    \/ filesystem_write_eav \/ write_eav_continue \/ file_write
    \/ tfs_release_timer_expired \/ tfs_release_start
    \/ \E l \in 1..2 : flush_continue(l) \/ log_flush_timer_expired(l)
    \/ \E s \in Syncs : fsync(s)
    \/ \E r \in m.ready : Deliver(r[1], r[2])
    \/ \E who \in Syncs \cup {"release"}, ok \in BOOLEAN : FlushDone(who, ok)
    \/ \E i \in DOMAIN m.vol, ok \in BOOLEAN : WriteDone(i, ok)
    \/ \E S \in SUBSET DOMAIN m.vol : Crash(S)

TlogSpec == TlogInit /\ [][TlogNext]_tlVars

-----------------------------------------------------------------------------
(* Properties *)

(* Whenever the machine stops, the log on the device can be read, holds    *)
(* every record a completed fsync covers (log_flush and the device flush   *)
(* after it), and holds no record without those of the operations that had *)
(* returned before it.  A failed write of the log, a record whose log was  *)
(* replaced while its writer was without the lock, a failed log put in     *)
(* use, and a record half of which was read before are the exceptions.     *)
CrashKeepsTheLog ==
    slip \cap {"error", "switched", "spanning", "outrun", "forgotten", "partial"} = {} =>
    \A S \in SUBSET DOMAIN m.vol : LinksAfterTargets(m.vol, S) =>
        LET d == Image(disk, m.vol, S) IN
        /\ Mountable(d)
        /\ promised \subseteq Recovered(d)
        /\ \A r \in Recovered(d) : deps[r] \subseteq Recovered(d)

(* Every caller that waits for the log is in one queue that will be run:   *)
(* of a flush or compaction in flight, or ready.                           *)
NoCallerIsForgotten ==
    \A s \in {s \in Syncs : sync[s].st = "log"} :
        \/ \E ok \in BOOLEAN : <<s, ok>> \in m.ready
        \/ \E l \in 1..2 : /\ s \in m.logs[l].now \cup m.logs[l].next
                           /\ m.logs[l].flushing \/ m.logs[l].st = "COMPACTING"

(* No write is still on its way to an extent that is free (a release waits *)
(* for the log and the device, tfs_release_logged), but that of a log that *)
(* was replaced in the middle of a flush.                                  *)
FreedIsQuiet == "outrun" \notin slip =>
    \A i \in DOMAIN m.vol : ~m.vol[i].done => m.vol[i].at \notin m.free
=============================================================================
