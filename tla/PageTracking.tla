---------------------------- MODULE PageTracking ----------------------------
(***************************************************************************)
(* The machine's memory as the host tracks it (memblock.c, and trip of     *)
(* tripguard.c): which pages differ from the sealed baseline, which ones   *)
(* the open epoch changed, and which ones a state being copied in the      *)
(* background still owes.  All three are learnt from write faults, so all  *)
(* three rest on what the OS was last told about each host page.           *)
(*                                                                         *)
(* Every operation that takes the tracking lock is one step.  The copier   *)
(* thread of a planned state takes no lock: claiming a page and finishing  *)
(* its copy are two steps, and a page is copied in two halves.  A write    *)
(* fault and the write it lets through are two steps as well.  The block   *)
(* is the Linux one: backed from the start, its stacks held like any page. *)
(***************************************************************************)
EXTENDS Naturals, Sequences, FiniteSets

CONSTANTS
    NPages,      \* pages of the block
    GroupPages,  \* machine pages in one page of the host
    Value,       \* what a page can hold; 0 is a page of zeros
    Uses,        \* what a guest and its frontend may keep to
    HOT_AFTER,   \* epochs written in a row before a page goes hot
    COLD_AFTER,  \* epochs unchanged in a row before it cools
    HOT_MOST,    \* hot pages there may be
    HEAT_MOST    \* where the count of epochs in a row stops

Page == 0 .. NPages - 1

HostPage == {i \div GroupPages : i \in Page}

Status == {"FREE", "NONE", "R", "RX", "RW", "RWX", "RWSTACK"}

ASSUME PagesAssumption == NPages \in Nat \ {0} /\ GroupPages \in Nat \ {0}

\* the operations used, the pages and contents touched, the protections asked for
ASSUME UsesAssumption ==
    /\ 0 \in Value
    /\ \A u \in Uses : /\ u.pages \subseteq Page /\ u.values \subseteq Value
                       /\ u.asks \subseteq Status \ {"FREE"}

ASSUME HeatAssumption == /\ HOT_AFTER \in Nat \ {0}
                         /\ COLD_AFTER \in Nat \ {0}
                         /\ HOT_MOST \in Nat
                         /\ HEAT_MOST \in Nat
                         /\ HOT_AFTER <= HEAT_MOST /\ COLD_AFTER <= HEAT_MOST

VARIABLES
    use,           \* the one of Uses this behaviour keeps to
    page,          \* [Page -> PageRecord]: mb_page, its bits in the maps, its bytes
    os,            \* [HostPage -> rights]: what the OS enforces
    sealed,
    epoch_active,
    dead,          \* the guest runs nothing until a state loads
    plan,          \* the state being filled: whether one is, and its buffer
    copier,        \* what the copying thread has in hand: << >> or <<page, half>>
    image,         \* the last state saved, << >> before there is one
    delta,         \* the last delta saved, << >> before there is one
    told,          \* a delta of the open epoch has been saved
    boot,          \* the sealed block a restart comes back to, << >> where there is none
    baseline,      \* history: the bytes when the block was sealed
    mark,          \* history: the machine when the open epoch began
    due,           \* history: the bytes when the plan was made
    imageOf,       \* history: the machine the last state was taken of
    deltaOf        \* history: the machines the last delta leads from and to

tracking == <<page, os>>
history == <<boot, baseline, mark, due, imageOf, deltaOf>>
stored == <<image, delta>>
vars == <<use, tracking, sealed, epoch_active, dead, plan, copier, stored, told, history>>

PageRecord ==
    [status : Status, dirty : BOOLEAN, invisible : BOOLEAN,
     snap_kind : {"NONE", "ZERO", "DATA"}, snap_data : Value,
     held : BOOLEAN, unheld : BOOLEAN, epoch_dirty : BOOLEAN, stat : BOOLEAN,
     hot : BOOLEAN, heat : 0 .. HEAT_MOST, seen : 0 .. 2, shadow : Value,
     plan_hold : 0 .. 2, bytes : Value]

NoPlan == [active |-> FALSE, dest |-> << >>]

-----------------------------------------------------------------------------
(* One page *)

\* what the guest asked for, as the rights it was given
status_prot(s) ==
    CASE s \in {"FREE", "NONE"} -> {}
      [] s = "R" -> {"r"}
      [] s = "RX" -> {"r", "x"}
      [] s \in {"RW", "RWSTACK"} -> {"r", "w"}
      [] s = "RWX" -> {"r", "w", "x"}

tracked_status(s) == s \in {"RW", "RWX", "RWSTACK"}

epoch_tracks(p) == ~p.invisible /\ tracked_status(p.status)

\* what the OS is to allow: the rights asked for, without writing while a
\* write to the page still has something to tell
mb_page_native_prot(p) ==
    IF p.plan_hold = 0 /\ (p.hot \/ (p.dirty /\ ~p.held))
    THEN status_prot(p.status)
    ELSE status_prot(p.status) \ {"w"}

\* a page just given its protection is one the next epoch must hold, or not
note_prot(p) ==
    LET writable == "w" \in mb_page_native_prot(p)
    IN  [p EXCEPT !.unheld = writable /\ ~p.hot /\ ~p.invisible,
                  !.held = @ /\ ~writable]

page_cool(p) ==
    IF p.hot THEN [p EXCEPT !.hot = FALSE, !.heat = 0, !.shadow = 0, !.unheld = TRUE]
             ELSE p

note_status(p, s) ==
    [(IF p.status # s THEN page_cool(p) ELSE p) EXCEPT !.status = s]

set_dirty(p, d) ==
    [(IF d THEN p ELSE page_cool(p)) EXCEPT !.dirty = d]

\* the sealed bytes, copied before the first change to them
mb_page_maybe_snapshot(p) ==
    IF p.snap_kind = "NONE" THEN [p EXCEPT !.snap_kind = "DATA", !.snap_data = p.bytes]
                            ELSE p

mb_block_epoch_capture(p) ==
    [p EXCEPT !.held = FALSE,
              !.epoch_dirty = @ \/ (epoch_active /\ epoch_tracks(p))]

\* a page about to change its status, as the open epoch records it
epoch_note_status_change(p, to) ==
    IF ~epoch_active \/ p.status = to THEN p
    ELSE LET noted == [p EXCEPT !.stat = TRUE]
         IN  IF p.invisible THEN noted
             ELSE IF epoch_tracks(p) THEN mb_block_epoch_capture(noted)
             ELSE [noted EXCEPT !.epoch_dirty = TRUE]

-----------------------------------------------------------------------------
(* The host's pages *)

Group(h) == {i \in Page : i \div GroupPages = h}

HostPages(S) == {i \div GroupPages : i \in S}

\* reading and running are the union of the group's, writing needs that no
\* tracked page of the group is still held
group_native_prot_union(q, h) == UNION {mb_page_native_prot(q[i]) : i \in Group(h)}
group_native_prot(q, h) ==
    LET prots == {mb_page_native_prot(q[i]) : i \in Group(h)}
        held == \E i \in Group(h) : /\ tracked_status(q[i].status)
                                    /\ "w" \notin mb_page_native_prot(q[i])
    IN  IF held THEN (UNION prots) \ {"w"} ELSE UNION prots

\* the page records q changed by F on the pages of S
On(q, S, F(_)) == [i \in Page |-> IF i \in S THEN F(q[i]) ELSE q[i]]

Noted(q, S) == On(q, S, note_prot)

Enforced(q, S) ==
    [h \in HostPage |-> IF h \in HostPages(S) THEN group_native_prot(q, h) ELSE os[h]]

\* the page records become q, after the OS was told about the pages of S
refresh_range(q, S) ==
    /\ page' = Noted(q, S)
    /\ os' = Enforced(q, S)

-----------------------------------------------------------------------------
(* The guest's accesses *)

\* a page the plan still owes is copied before it changes; a page the copier
\* has in hand is waited for
NotCopying(S) == \A i \in S : page[i].plan_hold # 2

mb_block_plan_capture_unwaited(S) ==
    plan' = [plan EXCEPT !.dest =
        [i \in DOMAIN @ |-> IF i \in S /\ page[i].plan_hold = 1
                            THEN <<page[i].bytes, page[i].bytes>> ELSE @[i]]]
mb_block_plan_capture(S) ==
    /\ NotCopying(S)
    /\ plan' = [plan EXCEPT !.dest =
           [i \in DOMAIN @ |-> IF i \in S /\ page[i].plan_hold = 1
                               THEN <<page[i].bytes, page[i].bytes>> ELSE @[i]]]

Captured(p) == [p EXCEPT !.plan_hold = 0]

Untouched == UNCHANGED <<sealed, epoch_active, copier, stored, told, history>>

\* a store the OS lets through
guest_write(i, v) ==
    /\ ~dead
    /\ tracked_status(page[i].status)
    /\ "w" \in os[i \div GroupPages]
    /\ page' = [page EXCEPT ![i].bytes = v]
    /\ Untouched /\ UNCHANGED <<os, dead, plan>>

\* the pages of i's host page that a write to i releases
Released(i) ==
    {k \in Group(i \div GroupPages) :
        /\ tracked_status(page[k].status)
        /\ k = i \/ "w" \notin mb_page_native_prot(page[k])}

Tripped(p) ==
    set_dirty(Captured(mb_block_epoch_capture(mb_page_maybe_snapshot(p))), TRUE)

mb_block_note_unheld(p) == [p EXCEPT !.unheld = @ \/ ~p.hot]

\* a store the OS stopped: the host page is made writable, the store comes next
trip(i) ==
    /\ ~dead
    /\ tracked_status(page[i].status)
    /\ "w" \notin os[i \div GroupPages]
    /\ mb_block_plan_capture(Released(i))
    /\ LET let == On(page, Released(i), Tripped)
       IN  /\ os' = Enforced(let, {i})
           /\ page' = On(let, Released(i), mb_block_note_unheld)
    /\ Untouched /\ UNCHANGED dead

\* the same, when the OS refuses the protection: the guest is stopped
trip_refused(i) ==
    /\ "refuse" \in use.ops
    /\ ~dead
    /\ tracked_status(page[i].status)
    /\ "w" \notin os[i \div GroupPages]
    /\ mb_block_plan_capture(Released(i))
    /\ page' = On(page, Released(i), Tripped)
    /\ dead' = TRUE
    /\ Untouched /\ UNCHANGED os

-----------------------------------------------------------------------------
(* The guest's memory calls *)

\* the ranges of pages a call can name
Stretch == {S \in (SUBSET use.pages) \ {{}} : \E a, b \in use.pages : S = a .. b}

AllFree(S) == \A i \in S : page[i].status = "FREE"
NoneFree(S) == \A i \in S : page[i].status # "FREE"

Restated(q, S, s) ==
    On(q, S, LAMBDA p : note_status(epoch_note_status_change(p, s), s))

set_protections(q, S, s) == refresh_range(Restated(q, S, s), S)

\* a page given back: zeros, and clean again when it was sealed as zeros
GivenBack_unsnapped(p) ==
    LET noted == epoch_note_status_change(Captured(p), "FREE")
    IN  set_dirty([noted EXCEPT !.bytes = 0], ~noted.invisible /\ noted.snap_kind # "ZERO")
GivenBack(p) ==
    LET noted == epoch_note_status_change(mb_page_maybe_snapshot(Captured(p)), "FREE")
        zero_already == ~noted.dirty /\ ~noted.invisible /\ noted.snap_kind = "ZERO"
    IN  set_dirty([noted EXCEPT !.bytes = IF zero_already THEN @ ELSE 0],
                  ~noted.invisible /\ noted.snap_kind # "ZERO")

GuestCall(name) == name \in use.ops /\ ~dead /\ UNCHANGED dead /\ Untouched

mmap(S, s) ==
    /\ GuestCall("mmap")
    /\ AllFree(S)
    /\ set_protections(page, S, s)
    /\ UNCHANGED plan

\* a fixed mapping over what is there: its pages read as zero in version 3 of
\* the machine, and keep their bytes in version 2
mmap_fixed(S, s, zero_overlap) ==
    LET over == IF zero_overlap THEN {i \in S : page[i].status # "FREE"} ELSE {}
    IN  /\ GuestCall("fixed")
        /\ mb_block_plan_capture(over)
        /\ set_protections(Noted(On(page, over, GivenBack), over), S, s)

mprotect(S, s) ==
    /\ GuestCall("protect")
    /\ NoneFree(S)
    /\ set_protections(page, S, s)
    /\ UNCHANGED plan

munmap(S) ==
    /\ GuestCall("unmap")
    /\ NoneFree(S)
    /\ mb_block_plan_capture(S)
    /\ set_protections(On(page, S, GivenBack), S, "FREE")

madvise_dontneed(S) ==
    /\ GuestCall("advise")
    /\ NoneFree(S)
    /\ mb_block_plan_capture(S)
    /\ refresh_range(On(page, S, GivenBack), S)

First(S) == CHOOSE i \in S : \A k \in S : i <= k
Last(S) == CHOOSE i \in S : \A k \in S : k <= i

\* growing in place, into the free pages T that follow S; shrinking is the
\* munmap of the tail
mremap(S, T) ==
    /\ GuestCall("grow")
    /\ NoneFree(S)
    /\ First(T) = Last(S) + 1
    /\ AllFree(T)
    /\ set_protections(page, T, page[First(S)].status)
    /\ UNCHANGED plan

\* growing elsewhere, into free pages T (whichever find_free_pages picks), when
\* the pages that follow S are not all free
mremap_move(S, T) ==
    LET source(k) == First(S) + (k - First(T))
        like(k) == IF source(k) \in S THEN page[source(k)] ELSE page[Last(S)]
        landed(k) == note_prot(note_status(
                         epoch_note_status_change(page[k], like(k).status), like(k).status))
        arrived(k) ==
            page_cool(set_dirty([Captured(landed(k)) EXCEPT
                !.invisible = like(k).invisible,
                !.bytes = IF source(k) \in S THEN like(k).bytes ELSE 0], TRUE))
        \* the records when the OS is told about page m of T
        upto(m) == [k \in Page |-> IF k \in T /\ k < m THEN arrived(k)
                                   ELSE IF k = m THEN landed(k) ELSE page[k]]
        all == [k \in Page |-> IF k \in T THEN arrived(k) ELSE page[k]]
        end == Restated(On(all, S, GivenBack), S, "FREE")
    IN  /\ GuestCall("move")
        /\ NoneFree(S) /\ AllFree(T)
        /\ Cardinality(T) > Cardinality(S)
        /\ LET next == Last(S) + 1 .. First(S) + Cardinality(T) - 1
           IN  next \subseteq Page /\ ~AllFree(next)
        /\ mb_block_plan_capture(S \cup T)
        /\ page' = Noted(end, S)
        /\ os' = [h \in HostPage |->
               CASE h \in HostPages(S) -> group_native_prot(end, h)
                 [] h \in HostPages(T) \ HostPages(S) ->
                        group_native_prot(upto(Last(T \cap Group(h))), h)
                 [] OTHER -> os[h]]

-----------------------------------------------------------------------------
(* Before the seal: the loader *)

mark_invisible(S) ==
    /\ "invisible" \in use.ops
    /\ ~sealed
    /\ refresh_range(On(page, S, LAMBDA p : [set_dirty(p, TRUE) EXCEPT !.invisible = TRUE]), S)
    /\ Untouched /\ UNCHANGED <<dead, plan>>

\* bytes of the program, put in place through the mirror
copy_from_external(i, v) ==
    /\ "external" \in use.ops
    /\ ~sealed
    /\ mb_block_plan_capture({i})
    /\ page' = [page EXCEPT ![i] =
           [page_cool(set_dirty(Captured(@), TRUE)) EXCEPT !.bytes = v]]
    /\ Untouched /\ UNCHANGED <<os, dead>>

\* the live image becomes the baseline
SealedPage(p) ==
    IF p.dirty /\ ~p.invisible
    THEN [set_dirty(p, FALSE) EXCEPT
             !.snap_kind = IF p.bytes = 0 THEN "ZERO" ELSE "NONE", !.snap_data = 0]
    ELSE p

EpochForgotten(p) == [p EXCEPT !.epoch_dirty = FALSE, !.stat = FALSE]

seal ==
    /\ ~sealed
    /\ sealed' = TRUE
    /\ epoch_active' = FALSE
    /\ refresh_range(On(page, Page, LAMBDA p : SealedPage(EpochForgotten(p))), Page)
    /\ baseline' = [i \in Page |-> page[i].bytes]
    /\ boot' = IF "restart" \in use.ops THEN <<page', os'>> ELSE << >>
    /\ UNCHANGED <<dead, plan, copier, stored, told, mark, due, imageOf, deltaOf>>

-----------------------------------------------------------------------------
(* Epochs and deltas *)

\* the machine a state or a delta describes: not the invisible pages' bytes
Machine(q) ==
    [i \in Page |-> IF q[i].invisible THEN <<q[i].status>>
                                      ELSE <<q[i].status, q[i].dirty, q[i].bytes>>]

EpochOpened(p) ==
    LET fresh == [EpochForgotten(p) EXCEPT !.seen = IF @ < 2 THEN @ + 1 ELSE @,
                                           !.shadow = IF p.hot THEN p.bytes ELSE @]
    IN  IF p.unheld THEN [fresh EXCEPT !.unheld = FALSE, !.held = @ \/ epoch_tracks(p)]
                    ELSE fresh

epoch_begin ==
    /\ "epoch" \in use.ops
    /\ sealed
    /\ epoch_active' = TRUE
    /\ refresh_range(On(page, Page, EpochOpened), {i \in Page : page[i].unheld})
    /\ told' = FALSE
    /\ mark' = Machine(page)
    /\ UNCHANGED <<sealed, dead, plan, copier, stored, boot, baseline, due, imageOf, deltaOf>>

\* a hot page is compared with what it was when the epoch opened
get_hot_epoch_unmarked(p) ==
    IF p.hot /\ p.bytes # p.shadow THEN [p EXCEPT !.heat = 0] ELSE p
get_hot_epoch(p) ==
    IF ~p.hot THEN p
    ELSE IF p.bytes # p.shadow THEN [p EXCEPT !.heat = 0, !.epoch_dirty = TRUE]
    ELSE IF p.heat + 1 >= COLD_AFTER THEN page_cool(p)
    ELSE [p EXCEPT !.heat = @ + 1]

\* a page written an epoch ago and now is on its way to hot
Warmed(p) ==
    IF p.epoch_dirty /\ ~p.hot
    THEN [p EXCEPT !.heat = IF p.seen # 1 THEN 1 ELSE IF @ < HEAT_MOST THEN @ + 1 ELSE @,
                   !.seen = 0]
    ELSE p

page_heat(p) ==
    [p EXCEPT !.hot = TRUE, !.heat = 0, !.shadow = p.bytes, !.unheld = FALSE]

heat_written_pages(q) ==
    LET warm == On(q, Page, Warmed)
        earned == {i \in Page : /\ warm[i].epoch_dirty /\ ~warm[i].hot
                                /\ warm[i].heat >= HOT_AFTER
                                /\ ~warm[i].invisible /\ warm[i].dirty
                                /\ warm[i].status \in {"RW", "RWX"} /\ warm[i].unheld}
        nhot(i) == Cardinality({k \in Page : warm[k].hot})
                   + Cardinality({k \in earned : k < i})
    IN  On(warm, {i \in earned : nhot(i) < HOT_MOST}, page_heat)

\* the pages whose allocation moved, and the pages that changed
DeltaRead(q) ==
    [status |-> [i \in {k \in Page : q[k].stat} |-> q[i].status],
     data |-> [i \in {k \in Page : q[k].epoch_dirty} |->
                  [clean |-> ~q[i].dirty, bytes |-> q[i].bytes]]]

delta_save ==
    /\ "delta" \in use.ops
    /\ epoch_active
    /\ ~told \/ "again" \in use.ops
    /\ LET seen == On(page, Page, get_hot_epoch)
       IN  /\ delta' = <<DeltaRead(seen)>>
           /\ page' = heat_written_pages(seen)
    /\ told' = TRUE
    /\ deltaOf' = <<mark, Machine(page)>>
    /\ UNCHANGED <<os, sealed, epoch_active, dead, plan, copier, image,
                   boot, baseline, mark, due, imageOf>>

\* the pages whose protection comes out different: the ones the OS is told of
Changed(r, q) == {i \in Page : mb_page_native_prot(q[i]) # mb_page_native_prot(r[i])}

RefreshChanged(r, q) == Noted(q, Changed(r, q))

\* the bytes of a delta's entry, over a page
DeltaPage_dirty(p, e) ==
    set_dirty([mb_page_maybe_snapshot(p) EXCEPT !.bytes = e.bytes], TRUE)
DeltaPage(p, e) ==
    LET snapped == [mb_page_maybe_snapshot(p) EXCEPT !.bytes = e.bytes]
    IN  IF e.clean /\ ~p.invisible THEN set_dirty(snapped, FALSE)
        ELSE [set_dirty(snapped, TRUE) EXCEPT !.shadow = IF p.hot THEN e.bytes ELSE @]

\* an entry that ended half way
CutPage(p, v) == set_dirty([mb_page_maybe_snapshot(p) EXCEPT !.bytes = v], TRUE)

\* the records when the allocations of the pages A have been read, and those
\* when q's pages have become the ones of r
Shaped(A) ==
    [i \in Page |-> IF i \in A THEN note_status(page[i], delta[1].status[i]) ELSE page[i]]

DeltaTaken(A, r) ==
    LET shaped == RefreshChanged(page, Shaped(A))
    IN  /\ page' = On(RefreshChanged(shaped, r), Page, EpochForgotten)
        /\ os' = Enforced(r, Changed(page, Shaped(A)) \cup Changed(shaped, r))
        /\ epoch_active' = FALSE

\* what the bytes of the pages D, and of one page cut short, make of q
Filled(q, D) ==
    [i \in Page |-> IF i \in D THEN DeltaPage(q[i], delta[1].data[i]) ELSE q[i]]

delta_apply ==
    /\ "apply" \in use.ops
    /\ sealed
    /\ delta # << >>
    /\ Machine(page) = deltaOf[1]
    /\ LET A == DOMAIN delta[1].status
       IN  DeltaTaken(A, Filled(RefreshChanged(page, Shaped(A)), DOMAIN delta[1].data))
    /\ UNCHANGED <<sealed, dead, plan, copier, stored, told, history>>

\* a stream that ends at page d of the allocations
delta_apply_cut_status(d) ==
    /\ {"apply", "cut_delta"} \subseteq use.ops
    /\ sealed
    /\ delta # << >>
    /\ Machine(page) = deltaOf[1]
    /\ d \in DOMAIN delta[1].status
    /\ LET A == {i \in DOMAIN delta[1].status : i < d}
       IN  DeltaTaken(A, RefreshChanged(page, Shaped(A)))
    /\ dead' = TRUE
    /\ UNCHANGED <<sealed, plan, copier, stored, told, history>>

\* a stream that ends inside the bytes of page d
delta_apply_cut(d, v) ==
    /\ {"apply", "cut_delta"} \subseteq use.ops
    /\ sealed
    /\ delta # << >>
    /\ Machine(page) = deltaOf[1]
    /\ d \in DOMAIN delta[1].data
    /\ LET A == DOMAIN delta[1].status
           q == Filled(RefreshChanged(page, Shaped(A)), {i \in DOMAIN delta[1].data : i < d})
       IN  DeltaTaken(A, [q EXCEPT ![d] = CutPage(@, v)])
    /\ dead' = TRUE
    /\ UNCHANGED <<sealed, plan, copier, stored, told, history>>

-----------------------------------------------------------------------------
(* States *)

StatePages(q) == {i \in Page : q[i].dirty /\ ~q[i].invisible}

save_state ==
    /\ "save" \in use.ops
    /\ sealed
    /\ image' = <<[status |-> [i \in Page |-> page[i].status],
                   dirty |-> [i \in Page |-> page[i].dirty],
                   data |-> [i \in StatePages(page) |-> page[i].bytes]]>>
    /\ imageOf' = Machine(page)
    /\ UNCHANGED <<tracking, sealed, epoch_active, dead, plan, copier, delta, told,
                   boot, baseline, mark, due, deltaOf>>

\* a state made in the background: its pages are held until they are copied,
\* and afterwards until the epoch has heard of a write to them
PlanHeld(p) == [p EXCEPT !.plan_hold = 1, !.held = @ \/ ~p.hot]

state_plan ==
    /\ "plan" \in use.ops
    /\ sealed
    /\ ~plan.active
    /\ LET hold == {i \in StatePages(page) : tracked_status(page[i].status)}
       IN  /\ refresh_range(On(page, hold, PlanHeld), hold)
           /\ plan' = [active |-> TRUE,
                       dest |-> [i \in StatePages(page) |->
                                    IF i \in hold THEN << >>
                                                  ELSE <<page[i].bytes, page[i].bytes>>]]
    /\ due' = [i \in Page |-> page[i].bytes]
    /\ UNCHANGED <<sealed, epoch_active, dead, copier, stored, told,
                   boot, baseline, mark, imageOf, deltaOf>>

\* the copier: a page is claimed, read half by half, and let go
plan_take(i) ==
    /\ plan.active
    /\ copier = << >>
    /\ i \in DOMAIN plan.dest
    /\ page[i].plan_hold = 1
    /\ page' = [page EXCEPT ![i].plan_hold = 2]
    /\ copier' = <<i, page[i].bytes>>
    /\ UNCHANGED <<os, sealed, epoch_active, dead, plan, stored, told, history>>

plan_copy_page ==
    /\ copier # << >>
    /\ page' = [page EXCEPT ![copier[1]].plan_hold = 0]
    /\ plan' = [plan EXCEPT !.dest[copier[1]] = <<copier[2], page[copier[1]].bytes>>]
    /\ copier' = << >>
    /\ UNCHANGED <<os, sealed, epoch_active, dead, stored, told, history>>

\* what is left is copied here, then the pages get their protection back
PlanFinished == On(page, DOMAIN plan.dest, Captured)

plan_finish ==
    /\ plan.active
    /\ NotCopying(DOMAIN plan.dest)
    /\ refresh_range(PlanFinished, DOMAIN plan.dest)
    /\ plan' = NoPlan
    /\ UNCHANGED <<sealed, epoch_active, dead, copier, stored, told, history>>

\* a page as the state has it: its bytes from the state, or from the baseline
LoadedPage_unstated(p, s, d, v) ==
    IF p.invisible THEN p
    ELSE set_dirty([(IF d /\ ~p.dirty THEN mb_page_maybe_snapshot(p) ELSE p) EXCEPT !.bytes =
             CASE d -> v
               [] ~d /\ ~p.dirty -> @
               [] ~d /\ p.dirty -> IF p.snap_kind = "ZERO" THEN 0 ELSE p.snap_data], d)
LoadedPage(p, s, d, v) ==
    LET snapped == IF d /\ ~p.dirty THEN mb_page_maybe_snapshot(p) ELSE p
        bytes == CASE d -> v
                   [] ~d /\ ~p.dirty -> p.bytes
                   [] ~d /\ p.dirty -> IF p.snap_kind = "ZERO" THEN 0 ELSE p.snap_data
        filled == set_dirty([snapped EXCEPT !.bytes = bytes], d)
    IN  note_status(IF p.invisible THEN p
                    ELSE IF filled.hot THEN [filled EXCEPT !.shadow = bytes] ELSE filled, s)

\* the plan is finished and the epoch dropped before a load
LoadBase == On(Noted(PlanFinished, DOMAIN plan.dest), Page, EpochForgotten)

\* the first n pages of the state, over the machine
LoadedUpto(n) ==
    [i \in Page |->
        IF i < n THEN LoadedPage(LoadBase[i], image[1].status[i], image[1].dirty[i],
                                 IF i \in DOMAIN image[1].data THEN image[1].data[i] ELSE 0)
        ELSE LoadBase[i]]

\* a dirty page that the state has clean, and no baseline to go back to
NoBaseline(i) == /\ ~page[i].invisible /\ page[i].dirty /\ ~image[1].dirty[i]
                 /\ page[i].snap_kind = "NONE"

Loading(q) ==
    /\ sealed
    /\ image # << >>
    /\ NotCopying(DOMAIN plan.dest)
    /\ plan' = NoPlan
    /\ epoch_active' = FALSE
    /\ page' = RefreshChanged(LoadBase, q)
    /\ os' = Enforced(q, DOMAIN plan.dest \cup Changed(LoadBase, q))
    /\ UNCHANGED <<sealed, copier, stored, told, history>>

load_state ==
    /\ "load" \in use.ops
    /\ Loading(LoadedUpto(NPages))
    /\ \A i \in Page : ~NoBaseline(i)
    /\ dead' = FALSE

\* a load that stops at page n: no baseline, or the stream ends there
Stops(n) == NoBaseline(n) \/ ("cut" \in use.ops /\ n \in DOMAIN image[1].data)

load_state_cut(n, v) ==
    LET q == LoadedUpto(n)
        short == IF page[n].dirty THEN [q[n] EXCEPT !.bytes = v] ELSE CutPage(q[n], v)
        seen == RefreshChanged(LoadBase, q)
    IN  /\ "load" \in use.ops
        /\ sealed
        /\ image # << >>
        /\ \A i \in Page : i < n => ~NoBaseline(i)
        /\ Stops(n)
        /\ NotCopying(DOMAIN plan.dest)
        /\ page' = IF NoBaseline(n) THEN seen ELSE [seen EXCEPT ![n] = short]
        /\ os' = Enforced(q, DOMAIN plan.dest \cup Changed(LoadBase, q))
        /\ plan' = NoPlan
        /\ epoch_active' = FALSE
        /\ dead' = TRUE
        /\ UNCHANGED <<sealed, copier, stored, told, history>>

\* a state of another machine: refused, after the plan and the epoch are over
load_refused ==
    /\ {"load", "cut"} \subseteq use.ops
    /\ Loading(LoadBase)
    /\ UNCHANGED dead

\* the same program started again, up to its seal; states and deltas outlive it
restart ==
    /\ "restart" \in use.ops
    /\ sealed
    /\ ~plan.active
    /\ page' = boot[1] /\ os' = boot[2]
    /\ epoch_active' = FALSE /\ dead' = FALSE
    /\ UNCHANGED <<sealed, plan, copier, stored, told, history>>

-----------------------------------------------------------------------------
FreshPage ==
    [status |-> "FREE", dirty |-> FALSE, invisible |-> FALSE,
     snap_kind |-> "ZERO", snap_data |-> 0,
     held |-> FALSE, unheld |-> FALSE, epoch_dirty |-> FALSE, stat |-> FALSE,
     hot |-> FALSE, heat |-> 0, seen |-> 2, shadow |-> 0, plan_hold |-> 0, bytes |-> 0]

Init ==
    /\ use \in Uses
    /\ page = [i \in Page |-> FreshPage]
    /\ os = [h \in HostPage |-> {}]
    /\ sealed = FALSE /\ epoch_active = FALSE /\ dead = FALSE /\ told = FALSE
    /\ plan = NoPlan /\ copier = << >>
    /\ image = << >> /\ delta = << >>
    /\ boot = << >> /\ baseline = << >> /\ mark = << >> /\ due = << >>
    /\ imageOf = << >> /\ deltaOf = << >>

GuestStep ==
    \/ \E i \in use.pages, v \in use.values : guest_write(i, v)
    \/ \E i \in use.pages : trip(i) \/ trip_refused(i)
    \/ \E S \in Stretch, s \in use.asks : mmap(S, s)
    \/ \E S \in Stretch, s \in use.asks, z \in BOOLEAN : mmap_fixed(S, s, z)
    \/ \E S \in Stretch, s \in use.asks : mprotect(S, s)
    \/ \E S \in Stretch : munmap(S)
    \/ \E S \in Stretch : madvise_dontneed(S)
    \/ \E S \in Stretch, T \in Stretch : mremap(S, T)
    \/ \E S \in Stretch, T \in Stretch : mremap_move(S, T)

HostStep ==
    \/ \E S \in Stretch : mark_invisible(S)
    \/ \E i \in use.pages, v \in use.values : copy_from_external(i, v)
    \/ seal
    \/ epoch_begin
    \/ delta_save
    \/ delta_apply
    \/ \E d \in use.pages : delta_apply_cut_status(d)
    \/ \E d \in use.pages, v \in use.values : delta_apply_cut(d, v)
    \/ save_state
    \/ state_plan
    \/ plan_finish
    \/ load_state
    \/ load_refused
    \/ restart
    \/ \E n \in use.pages, v \in use.values : load_state_cut(n, v)

CopierStep == (\E i \in use.pages : plan_take(i)) \/ plan_copy_page

Next == (GuestStep \/ HostStep \/ CopierStep) /\ UNCHANGED use

Spec == Init /\ [][Next]_vars

-----------------------------------------------------------------------------
(* Properties *)

Visible == {i \in Page : ~page[i].invisible}

\* The bytes a page had when the block was sealed are never lost: a clean page
\* still holds them, and a dirty one has them in its snapshot
\* (mb_page_maybe_snapshot before every change), so load_state never meets
\* its "missing snapshot for dirty region".
BaselineKept ==
    sealed => \A i \in Visible :
        LET p == page[i]
        IN  CASE ~p.dirty -> p.bytes = baseline[i]
              [] p.dirty /\ p.snap_kind = "ZERO" -> baseline[i] = 0
              [] p.dirty /\ p.snap_kind # "ZERO" -> p.snap_kind = "DATA" /\ p.snap_data = baseline[i]

\* What mb_block_maps_consistent checks: a hot page is dirty and not on the
\* list of pages the next epoch holds, and a held page is neither hot nor on it.
MapsConsistent ==
    \A i \in Page :
        /\ page[i].hot => page[i].dirty /\ ~page[i].unheld
        /\ page[i].held => ~page[i].hot /\ ~page[i].unheld
        /\ page[i].hot => page[i].status \in {"RW", "RWX"}

\* A page the OS lets the guest write without a fault is one nothing has to
\* hear about any more: it is dirty, no plan owes it, and the open epoch either
\* has it already or will compare it (mb_page_native_prot, group_native_prot).
WritesHeard ==
    \A i \in Visible :
        (tracked_status(page[i].status) /\ "w" \in os[i \div GroupPages]) =>
            /\ page[i].dirty
            /\ page[i].plan_hold = 0
            /\ (epoch_active /\ ~told) => page[i].epoch_dirty \/ page[i].hot

\* The machine m after the delta d: the entries it has, and the rest as it was.
Overlaid(m, d) ==
    [i \in Page |->
        LET status == IF i \in DOMAIN d.status THEN d.status[i] ELSE m[i][1]
        IN  IF Len(m[i]) = 1 THEN <<status>>
            ELSE IF i \in DOMAIN d.data
                 THEN <<status, ~d.data[i].clean, d.data[i].bytes>>
                 ELSE <<status, m[i][2], m[i][3]>>]

\* Whatever wrote, freed, mapped or protected pages since epoch_begin, the delta
\* delta_save writes leads from the machine as it was at the epoch's start to
\* the machine as it is now: bytes, dirty flags and allocation of every page.
DeltaExact ==
    delta # << >> => Overlaid(deltaOf[1], delta[1]) = deltaOf[2]

\* delta_apply does to the machine what the delta says and nothing else: the
\* bytes, dirty flags and allocation it has entries for, the rest as it was,
\* whatever this machine held in snapshots, shadows and holds.
ApplyExact ==
    [][delta_apply => Machine(page') = Overlaid(Machine(page), delta[1])]_vars

\* load_state puts back exactly the machine the state was taken of: the bytes
\* it carries, the baseline for the pages it does not, and the allocation.
LoadExact ==
    [][load_state => Machine(page') = imageOf]_vars

\* A page in a planned state's buffer holds what it held when the plan was
\* made, both halves of it, whoever copied it (plan_take, trip, free_pages,
\* plan_finish), and a page not copied yet has not changed.
PlanExact ==
    plan.active => \A i \in DOMAIN plan.dest :
        IF page[i].plan_hold = 0 THEN plan.dest[i] = <<due[i], due[i]>>
                                 ELSE page[i].bytes = due[i]

=============================================================================
