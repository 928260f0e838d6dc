------------------------------- MODULE MCDisk -------------------------------
(***************************************************************************)
(* Model checking of the kernel's storage: the log, files and the page     *)
(* cache.  One behaviour is about one part, scen; the variables of the     *)
(* others are 0.                                                           *)
(***************************************************************************)
EXTENDS Naturals, Sequences, FiniteSets

VARIABLES scen,
    m, disk, rel, sync, w, alloc, logged, set, deps, promised, slip, left, s

vars == <<scen, m, disk, rel, sync, w, alloc, logged, set, deps, promised, slip, left,
        s>>

LogUse(r, e, p, c, d) == [records |-> r, errors |-> e, compactions |-> p, crashes |-> c, data |-> d]
LogUses == {LogUse(2, 0, 0, 2, 0), LogUse(2, 0, 1, 0, 0), LogUse(1, 0, 1, 0, 1), LogUse(1, 1, 1, 0, 0), LogUse(2, 1, 0, 1, 0)}

FileUse(o, v, bp, nw, nm, a, t, f, r, e, n) ==
    [old |-> o, v6 |-> v, bpp |-> bp, w |-> nw, m |-> nm, a |-> a, t |-> t, f |-> f, r |-> r, e |-> e, n |-> n, c |-> nw + nm]
FileUses ==
    {FileUse(FALSE, TRUE, 2, 2, 0, 0, 0, 0, 0, 0, 0), FileUse(FALSE, FALSE, 1, 1, 0, 0, 0, 1, 0, 0, 0),
     FileUse(FALSE, FALSE, 1, 2, 0, 0, 0, 0, 0, 0, 0), FileUse(FALSE, TRUE, 1, 1, 0, 0, 1, 0, 0, 0, 0),
     FileUse(FALSE, TRUE, 1, 1, 0, 0, 0, 1, 1, 0, 1), FileUse(FALSE, TRUE, 1, 1, 0, 0, 0, 1, 0, 1, 0),
     FileUse(TRUE, TRUE, 1, 0, 1, 1, 0, 1, 0, 0, 0), FileUse(FALSE, TRUE, 1, 1, 0, 1, 0, 1, 0, 0, 0),
     FileUse(FALSE, TRUE, 2, 1, 0, 0, 1, 1, 0, 0, 0), FileUse(FALSE, TRUE, 1, 0, 1, 1, 1, 0, 0, 0, 0)}

CacheUse(g, l, nw, r, nm, y, u, f, k, t, p, d, e, o) ==
    [pages |-> g, len |-> l, w |-> nw, r |-> r, m |-> nm, s |-> y, u |-> u, f |-> f, k |-> k, t |-> t, p |-> p,
     d |-> d, e |-> e, o |-> o, kinds |-> {"shared", "cow", "copy"},
     ranges |-> IF g = 3 THEN {<<0, 5>>} ELSE {<<0, 1>>, <<1, 3>>, <<0, 4>>}]
CacheUses ==
    {CacheUse(2, 3, 2, 1, 0, 0, 0, 1, 0, 0, 0, 1, 0, 0), CacheUse(2, 3, 2, 0, 0, 0, 0, 0, 1, 0, 1, 1, 1, 0),
     CacheUse(2, 3, 1, 1, 0, 0, 0, 1, 0, 0, 0, 0, 1, 1), CacheUse(2, 3, 1, 0, 1, 0, 0, 1, 0, 0, 0, 0, 1, 1),
     CacheUse(2, 3, 2, 0, 0, 0, 0, 0, 0, 0, 0, 1, 0, 1), CacheUse(2, 2, 0, 0, 1, 2, 0, 1, 1, 0, 0, 0, 0, 0),
     CacheUse(2, 2, 0, 1, 1, 1, 0, 0, 1, 1, 0, 0, 0, 0), CacheUse(2, 2, 1, 1, 1, 0, 1, 0, 0, 0, 0, 2, 0, 0),
     CacheUse(2, 3, 1, 0, 1, 1, 1, 0, 0, 1, 0, 0, 0, 0), CacheUse(2, 1, 2, 1, 0, 0, 0, 0, 0, 0, 0, 1, 0, 0),
     CacheUse(3, 6, 1, 0, 0, 0, 0, 0, 0, 0, 0, 0, 0, 1)}

Log == INSTANCE Tlog WITH Exts <- 1 .. 4, K <- 2, C <- 4, Size <- <<1, 2, 1>>, Syncs <- {"s1"}, Flusher <- TRUE,
    Uses <- LogUses
File == INSTANCE Tfs WITH N <- 3, D <- 3, Syncs <- {"f1"}, Uses <- FileUses
Cache == INSTANCE PageCache WITH MaxPages <- 1, Uses <- CacheUses

IdleLog == <<s>>
IdleFile == <<m, disk, rel, sync, w, alloc, logged, set, deps, promised, slip>>
IdleCache == <<m, disk, rel, sync, w, alloc, logged, set, deps, promised, slip>>

Init ==
    \/ /\ scen = "log" /\ Log!TlogInit
       /\ s = 0
    \/ /\ scen = "file" /\ File!TfsInit
       /\ m = 0 /\ disk = 0 /\ rel = 0 /\ sync = 0 /\ w = 0 /\ alloc = 0
       /\ logged = 0 /\ set = 0 /\ deps = 0 /\ promised = 0 /\ slip = 0
    \/ /\ scen = "cache" /\ Cache!PageCacheInit
       /\ m = 0 /\ disk = 0 /\ rel = 0 /\ sync = 0 /\ w = 0 /\ alloc = 0
       /\ logged = 0 /\ set = 0 /\ deps = 0 /\ promised = 0 /\ slip = 0

Next ==
    \/ scen = "log" /\ Log!TlogNext /\ UNCHANGED <<scen, IdleLog>>
    \/ scen = "file" /\ File!TfsNext /\ UNCHANGED <<scen, IdleFile>>
    \/ scen = "cache" /\ Cache!PageCacheNext /\ UNCHANGED <<scen, IdleCache>>

Spec == Init /\ [][Next]_vars

(* The log (tlog.c): whatever reaches the device before a crash, the log that is read   *)
(* afterwards holds a prefix of the records, every record a caller was told of           *)
(* included, but for the cases the history names; no caller of a flush is forgotten, and *)
(* storage that is freed is no longer written.                                          *)
LogSurvivesCrashes == scen = "log" =>
    Log!CrashKeepsTheLog /\ Log!NoCallerIsForgotten /\ Log!FreedIsQuiet

(* Files (tfs.c): after a crash no block of a file shows what its storage held for     *)
(* somebody else, what an fsync covered is there, the running system reads what was     *)
(* written, and every fsync is answered.                                                *)
FilesSurviveCrashes == scen = "file" =>
    /\ File!NoStaleData /\ File!FsyncedSurvives
    /\ File!ReadsBack /\ File!WaitersAreServed

(* The page cache (pagecache.c): a page's references are those of its users, a page    *)
(* that differs from the device is queued for writing, what is read is what was written *)
(* last, a completion tells what happened, and everybody who waits is waiting for       *)
(* something that is on its way.                                                        *)
CacheKeepsTheFile == scen = "cache" =>
    /\ Cache!RefsAreExact /\ Cache!DirtyIsQueued /\ Cache!CacheIsTheFile
    /\ Cache!ResultsAreTrue /\ Cache!NobodyWaitsForNothing
=============================================================================
