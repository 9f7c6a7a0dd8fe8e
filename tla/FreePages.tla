----------------------------- MODULE FreePages -----------------------------
(* Where a guest's mappings land.  A memory block keeps, beside the status   *)
(* of every page, how many pages of each group are Free, and               *)
(* find_free_pages uses the counts to cross a whole group in one step.       *)
(* Where a mapping lands is part of the machine: a recording made with one   *)
(* walk is replayed with another, so the counts may never change the answer. *)
(* Of a page's status only whether it is Free matters here; PageTracking has *)
(* the rest of each operation.                                               *)
EXTENDS Integers, FiniteSets, FiniteSetsExt

CONSTANTS NPages,       \* pages of the block
          GroupPages,   \* MB_GROUP_PAGES
          BigRequest,   \* MB_BIG_REQUEST_PAGES
          Arenas,       \* the mmap arenas a layout may have: records lo, hi
          StateFrees    \* the sets of Free pages of the states at hand

ASSUME PlacingAssumption ==
    /\ NPages \in Nat \ {0} /\ GroupPages \in Nat \ {0} /\ BigRequest \in Nat \ {0}
    /\ \A a \in Arenas : a.lo \in Nat /\ a.hi \in 1..NPages /\ a.lo < a.hi
    /\ \A F \in StateFrees : F \subseteq 0..(NPages - 1)

VARIABLES free,        \* the pages whose status is Free
          group_free,  \* b->group_free
          arena        \* layout.mmap_arena, in pages

placeVars == <<free, group_free, arena>>

Page == 0..(NPages - 1)
NoPlace == -1
GroupOf(g) == {i \in Page : i \div GroupPages = g}
Groups == {i \div GroupPages : i \in Page}

\* Pages first .. first + count - 1, as validate takes them: inside the block.
PagesFrom(first, count) == first..(first + count - 1)

-----------------------------------------------------------------------------
(* Status changes                                                            *)

\* note_status over a set of pages: a page that changes is counted in or out.
Counted(S, toFree) ==
    [g \in Groups |->
        IF toFree
        THEN group_free[g] + Cardinality((S \ free) \cap GroupOf(g))
        ELSE group_free[g] - Cardinality((S \cap free) \cap GroupOf(g))]

note_status(S, toFree) ==
    /\ group_free' = Counted(S, toFree)
    /\ free' = IF toFree THEN free \cup S ELSE free \ S
    /\ UNCHANGED arena

-----------------------------------------------------------------------------
(* The walk                                                                  *)

\* Whether the group that starts at first, whole and inside the arena, is all
\* taken / all Free, by its count.
group_taken(first, lo, hi) ==
    /\ first % GroupPages = 0 /\ first >= lo /\ first + GroupPages <= hi
    /\ group_free[first \div GroupPages] = 0

\* Mutated: a group that reaches past the arena counts.
GroupAllFreePast(first, lo, hi) ==
    /\ first % GroupPages = 0 /\ first >= lo /\ first < hi
    /\ group_free[first \div GroupPages] = GroupPages

group_all_free(first, lo, hi) ==
    /\ first % GroupPages = 0 /\ first >= lo /\ first + GroupPages <= hi
    /\ group_free[first \div GroupPages] = GroupPages

\* A big request, from the top: i is the page the walk has come down to and
\* run_end the end of the run it is in.
RECURSIVE FindDown(_, _, _, _, _)
FindDown(i, run_end, lo, hi, n) ==
    IF i <= lo THEN NoPlace
    ELSE IF i >= GroupPages /\ group_taken(i - GroupPages, lo, hi)
    THEN FindDown(i - GroupPages, i - GroupPages, lo, hi, n)
    ELSE IF /\ i >= GroupPages /\ run_end - (i - GroupPages) < n
            /\ group_all_free(i - GroupPages, lo, hi)
    THEN FindDown(i - GroupPages, run_end, lo, hi, n)
    ELSE IF i - 1 \notin free THEN FindDown(i - 1, i - 1, lo, hi, n)
    ELSE IF run_end - (i - 1) >= n THEN run_end - n
    ELSE FindDown(i - 1, run_end, lo, hi, n)

\* Where the run of Free pages that j is in ends.
RECURSIVE RunEnd(_, _, _)
RunEnd(j, lo, hi) ==
    IF j >= hi \/ j \notin free THEN j
    ELSE IF group_all_free(j, lo, hi) THEN RunEnd(j + GroupPages, lo, hi)
    ELSE RunEnd(j + 1, lo, hi)

\* A small request, from the bottom: best is the run kept so far, the shortest
\* that fits and the first of those.
RECURSIVE FindUp(_, _, _, _, _)
FindUp(i, best, lo, hi, n) ==
    IF i >= hi THEN best.at
    ELSE IF i \in free
    THEN LET j == RunEnd(i, lo, hi)
         IN  FindUp(j, IF j - i >= n /\ (best.at = NoPlace \/ j - i < best.len)
                       THEN [at |-> i, len |-> j - i] ELSE best, lo, hi, n)
    ELSE IF group_taken(i, lo, hi) THEN FindUp(i + GroupPages, best, lo, hi, n)
    ELSE FindUp(i + 1, best, lo, hi, n)

find_free_pages(lo, hi, n) ==
    IF n >= BigRequest THEN FindDown(hi, hi, lo, hi, n)
    ELSE FindUp(lo, [at |-> NoPlace, len |-> 0], lo, hi, n)

-----------------------------------------------------------------------------
(* The operations                                                            *)

PlaceInit ==
    /\ free = Page
    /\ group_free = [g \in Groups |-> Cardinality(GroupOf(g))]
    /\ arena \in Arenas

\* mmap with no address: refused when nothing fits.
mmap_placed(n) ==
    LET at == find_free_pages(arena.lo, arena.hi, n)
    IN  at # NoPlace /\ note_status(PagesFrom(at, n), FALSE)

\* mmap with an address: over anything already there, or nothing with no_replace.
mmap_at(first, n, no_replace) ==
    /\ PagesFrom(first, n) \subseteq Page
    /\ no_replace => PagesFrom(first, n) \subseteq free
    /\ note_status(PagesFrom(first, n), FALSE)

unmap(first, n) ==
    /\ PagesFrom(first, n) \subseteq Page \ free
    /\ note_status(PagesFrom(first, n), TRUE)

\* mremap: shrunk or grown in place, or grown elsewhere when it may move.
mremap_in_place(first, n, m) ==
    /\ PagesFrom(first, n) \subseteq Page \ free
    /\ IF m > n
       THEN /\ PagesFrom(first + n, m - n) \subseteq free
            /\ note_status(PagesFrom(first + n, m - n), FALSE)
       ELSE note_status(PagesFrom(first + m, n - m), TRUE)

\* The new range is taken before the old one is given back.
mremap_moved(first, n, m) ==
    LET at    == find_free_pages(arena.lo, arena.hi, m)
        taken == Counted(PagesFrom(at, m), FALSE)
    IN  /\ m > n
        /\ PagesFrom(first, n) \subseteq Page \ free
        /\ PagesFrom(first, m) \subseteq Page
        /\ ~ (PagesFrom(first + n, m - n) \subseteq free)
        /\ at # NoPlace
        /\ free' = (free \ PagesFrom(at, m)) \cup PagesFrom(first, n)
        /\ group_free' = [g \in Groups |->
                             taken[g] + Cardinality(PagesFrom(first, n) \cap GroupOf(g))]
        /\ UNCHANGED arena

\* A state loaded or a delta applied gives every page the status it names.
statuses_loaded(F) ==
    LET given == Counted(F, TRUE)
    IN  /\ free' = F
        /\ group_free' = [g \in Groups |-> given[g] - Cardinality((free \ F) \cap GroupOf(g))]
        /\ UNCHANGED arena

PlaceNext ==
    \/ \E n \in 1..NPages : mmap_placed(n)
    \/ \E first \in Page, n \in 1..NPages :
          \/ \E no_replace \in BOOLEAN : mmap_at(first, n, no_replace)
          \/ unmap(first, n)
          \/ \E m \in 1..NPages : \/ mremap_in_place(first, n, m)
                                  \/ mremap_moved(first, n, m)
    \/ \E F \in StateFrees : statuses_loaded(F)

PlaceSpec == PlaceInit /\ [][PlaceNext]_placeVars

-----------------------------------------------------------------------------
(* Properties                                                                *)

\* The page-by-page walk, said without one: the highest place that fits for a
\* big request, and the lowest shortest run that fits for a small one.
Fits(at, n) == at >= arena.lo /\ at + n <= arena.hi /\ PagesFrom(at, n) \subseteq free
WholeRun(at, n) ==
    /\ Fits(at, n)
    /\ at = arena.lo \/ at - 1 \notin free
    /\ at + n = arena.hi \/ at + n \notin free

PageWalk(n) ==
    IF n >= BigRequest
    THEN Max({NoPlace} \cup {at \in Page : Fits(at, n)})
    ELSE LET lens == {len \in n..NPages : \E at \in Page : WholeRun(at, len)}
         IN  IF lens = {} THEN NoPlace
             ELSE Min({at \in Page : WholeRun(at, Min(lens))})

\* "The answer is exactly the page-by-page walk's" (memblock.c:1369): crossing
\* groups by their counts never moves a mapping nor refuses one, for any request,
\* with an arena that starts and ends inside a group.
PlacedAsPageWalk ==
    \A n \in 1..NPages : find_free_pages(arena.lo, arena.hi, n) = PageWalk(n)
=============================================================================
