------------------------- MODULE PageTrackingProofs -------------------------
(****************************************************************************)
(* The sealed bytes of a page are never lost (BaselineKept) and the maps    *)
(* kept of the pages agree (MapsConsistent), whatever the guest, its        *)
(* frontend and the copying thread do and in whatever order, for a block of *)
(* any size, on a host whose pages are the machine's.  Mappings may grow in *)
(* place here, and may not move.                                            *)
(****************************************************************************)
EXTENDS PageTracking, TLAPS

\* what mb_block_maps_consistent checks, of one page
MapsAgree(p) ==
    /\ p.hot => p.dirty /\ ~p.unheld /\ p.status \in {"RW", "RWX"}
    /\ p.held => ~p.hot /\ ~p.unheld

Sound(p) == p \in PageRecord /\ MapsAgree(p)

Lets(p) == "w" \in mb_page_native_prot(p)

\* b can be had back from the page: it is there, or it is in the snapshot
Kept(p, b) ==
    /\ p.snap_kind = "ZERO" => b = 0
    /\ p.snap_kind = "DATA" => p.snap_data = b
    /\ p.snap_kind = "NONE" => ~p.dirty
    /\ ~p.dirty => p.bytes = b

\* what every operation on one page keeps
Step(p, q, b) ==
    /\ Sound(q)
    /\ q.invisible = p.invisible
    /\ p.snap_kind # "NONE" => q.snap_kind # "NONE"
    /\ ~p.invisible /\ Kept(p, b) => Kept(q, b)

\* the two pages hold the same, for the same baseline
Alike(p, q) ==
    /\ q.dirty = p.dirty /\ q.bytes = p.bytes /\ q.invisible = p.invisible
    /\ q.snap_kind = p.snap_kind /\ q.snap_data = p.snap_data

-----------------------------------------------------------------------------
(* One page *)

\* Two operations on a page in a row are one.
LEMMA StepTwice ==
    ASSUME NEW p, NEW q, NEW r, NEW b, Step(p, q, b), Step(q, r, b)
    PROVE  Step(p, r, b)
  BY DEF Step

\* An operation that leaves the bytes, the dirty flag and the snapshot alone is a step.
LEMMA AlikeStep ==
    ASSUME NEW p, NEW q, NEW b, Sound(q), Alike(p, q)
    PROVE  Step(p, q, b)
  BY DEF Step, Alike, Kept

\* note_prot records a protection and changes nothing the page holds.
LEMMA NoteProtStep ==
    ASSUME NEW p, Sound(p)
    PROVE  /\ Sound(note_prot(p)) /\ Alike(p, note_prot(p))
           /\ mb_page_native_prot(note_prot(p)) = mb_page_native_prot(p)
  <1> DEFINE w == "w" \in mb_page_native_prot(p)
             q == note_prot(p)
  <1>1. q = [p EXCEPT !.unheld = w /\ ~p.hot /\ ~p.invisible, !.held = p.held /\ ~w]
    BY DEF note_prot
  <1>2. w \in BOOLEAN
    OBVIOUS
  <1> HIDE DEF w, q
  <1>3. /\ q \in PageRecord
        /\ q.unheld = (w /\ ~p.hot /\ ~p.invisible)
        /\ q.held = (p.held /\ ~w)
        /\ q.status = p.status /\ q.dirty = p.dirty /\ q.invisible = p.invisible
        /\ q.snap_kind = p.snap_kind /\ q.snap_data = p.snap_data /\ q.hot = p.hot
        /\ q.plan_hold = p.plan_hold /\ q.bytes = p.bytes
    BY <1>1, <1>2 DEF Sound, PageRecord
  <1>4. Sound(q) /\ Alike(p, q)
    BY <1>3 DEF Sound, MapsAgree, Alike
  <1>5. mb_page_native_prot(q) = mb_page_native_prot(p)
    <2>1. CASE p.held /\ w
      BY <2>1, <1>3 DEF w, mb_page_native_prot, Sound, MapsAgree
    <2>2. CASE ~(p.held /\ w)
      BY <2>2, <1>3 DEF mb_page_native_prot
    <2> QED  BY <2>1, <2>2
  <1> QED  BY <1>4, <1>5 DEF q

\* page_cool ends a page's heat and takes no leave to write away.
LEMMA CoolStep ==
    ASSUME NEW p, Sound(p)
    PROVE  /\ Sound(page_cool(p)) /\ Alike(p, page_cool(p)) /\ ~page_cool(p).hot
           /\ Lets(p) => Lets(page_cool(p))
           /\ page_cool(p).status = p.status /\ page_cool(p).held = p.held
           /\ page_cool(p).plan_hold = p.plan_hold
           /\ page_cool(p).epoch_dirty = p.epoch_dirty
           /\ p.dirty \/ page_cool(p) = p
  <1>1. CASE p.hot
    <2> DEFINE q == [p EXCEPT !.hot = FALSE, !.heat = 0, !.shadow = 0, !.unheld = TRUE]
    <2>1. page_cool(p) = q
      BY <1>1 DEF page_cool
    <2>2. 0 \in 0 .. HEAT_MOST /\ 0 \in Value
      BY HeatAssumption, UsesAssumption
    <2>3. q \in PageRecord
      BY <2>2 DEF Sound, PageRecord
    <2>4. /\ ~q.hot /\ q.unheld /\ q.dirty = p.dirty /\ q.bytes = p.bytes
          /\ q.status = p.status /\ q.snap_kind = p.snap_kind /\ q.snap_data = p.snap_data
          /\ q.plan_hold = p.plan_hold /\ q.held = p.held /\ q.invisible = p.invisible
          /\ q.epoch_dirty = p.epoch_dirty
      BY DEF Sound, PageRecord
    <2> HIDE DEF q
    <2>5. p.dirty /\ ~p.held
      BY <1>1 DEF Sound, MapsAgree
    <2>6. Sound(q) /\ Alike(p, q)
      BY <2>3, <2>4, <2>5 DEF Sound, MapsAgree, Alike
    <2>7. Lets(p) => Lets(q)
      BY <2>4, <2>5 DEF Lets, mb_page_native_prot
    <2> QED  BY <2>1, <2>4, <2>5, <2>6, <2>7
  <1>2. CASE ~p.hot
    <2>1. page_cool(p) = p
      BY <1>2 DEF page_cool
    <2> QED  BY <2>1, <1>2 DEF Alike
  <1> QED  BY <1>1, <1>2

\* note_status changes the status of a page and nothing it holds.
LEMMA NoteStatusStep ==
    ASSUME NEW p, Sound(p), NEW s \in Status
    PROVE  Sound(note_status(p, s)) /\ Alike(p, note_status(p, s))
  <1> DEFINE c == IF p.status # s THEN page_cool(p) ELSE p
             q == [c EXCEPT !.status = s]
  <1>1. Sound(c) /\ Alike(p, c) /\ (p.status # s => ~c.hot)
    BY CoolStep DEF Alike
  <1> HIDE DEF c
  <1>2. /\ q \in PageRecord /\ q.status = s /\ q.dirty = c.dirty /\ q.bytes = c.bytes
        /\ q.invisible = c.invisible /\ q.snap_kind = c.snap_kind /\ q.hot = c.hot
        /\ q.snap_data = c.snap_data /\ q.held = c.held /\ q.unheld = c.unheld
    BY <1>1 DEF Sound, PageRecord
  <1>3. c.hot => c.status = s
    BY <1>1 DEF c
  <1> HIDE DEF q
  <1>4. Sound(q) /\ Alike(p, q)
    BY <1>1, <1>2, <1>3 DEF Sound, MapsAgree, Alike
  <1>5. note_status(p, s) = q
    BY DEF note_status, q, c
  <1> QED  BY <1>4, <1>5

\* set_dirty changes the flag; marking dirty takes no leave to write away.
LEMMA SetDirtyStep ==
    ASSUME NEW p, Sound(p), NEW d \in BOOLEAN
    PROVE  LET q == set_dirty(p, d)
           IN  /\ Sound(q) /\ q.dirty = d /\ q.bytes = p.bytes
               /\ q.invisible = p.invisible /\ q.snap_kind = p.snap_kind
               /\ q.snap_data = p.snap_data /\ q.held = p.held
               /\ q.status = p.status /\ q.plan_hold = p.plan_hold
               /\ d => q.hot = p.hot /\ (Lets(p) => Lets(q))
  <1> DEFINE c == IF d THEN p ELSE page_cool(p)
             q == [c EXCEPT !.dirty = d]
  <1>1. /\ Sound(c) /\ Alike(p, c) /\ (~d => ~c.hot) /\ c.held = p.held
        /\ c.status = p.status /\ c.plan_hold = p.plan_hold /\ (d => c = p)
    BY CoolStep DEF Alike
  <1> HIDE DEF c
  <1>2. /\ q \in PageRecord /\ q.status = c.status /\ q.dirty = d /\ q.bytes = c.bytes
        /\ q.invisible = c.invisible /\ q.snap_kind = c.snap_kind /\ q.hot = c.hot
        /\ q.snap_data = c.snap_data /\ q.held = c.held /\ q.unheld = c.unheld
        /\ q.plan_hold = c.plan_hold
    BY <1>1 DEF Sound, PageRecord
  <1> HIDE DEF q
  <1>3. Sound(q)
    BY <1>1, <1>2 DEF Sound, MapsAgree
  <1>4. d => (Lets(p) => Lets(q))
    BY <1>1, <1>2 DEF Lets, mb_page_native_prot
  <1>5. set_dirty(p, d) = q
    BY DEF set_dirty, q, c
  <1> QED  BY <1>1, <1>2, <1>3, <1>4, <1>5 DEF Alike

\* After mb_page_maybe_snapshot there is a snapshot, and the baseline is still had from it.
LEMMA SnapshotStep ==
    ASSUME NEW p, Sound(p)
    PROVE  LET q == mb_page_maybe_snapshot(p)
           IN  /\ Sound(q) /\ q.snap_kind # "NONE"
               /\ \A b : ~p.invisible /\ Kept(p, b) => Kept(q, b)
               /\ q.dirty = p.dirty /\ q.bytes = p.bytes /\ q.invisible = p.invisible
               /\ q.status = p.status /\ q.hot = p.hot /\ q.held = p.held
               /\ mb_page_native_prot(q) = mb_page_native_prot(p)
  <1>1. CASE p.snap_kind = "NONE"
    <2> DEFINE q == [p EXCEPT !.snap_kind = "DATA", !.snap_data = p.bytes]
    <2>1. mb_page_maybe_snapshot(p) = q
      BY <1>1 DEF mb_page_maybe_snapshot
    <2>2. /\ q \in PageRecord /\ q.status = p.status /\ q.dirty = p.dirty
          /\ q.bytes = p.bytes /\ q.invisible = p.invisible /\ q.snap_kind = "DATA"
          /\ q.snap_data = p.bytes /\ q.hot = p.hot /\ q.held = p.held
          /\ q.unheld = p.unheld /\ q.plan_hold = p.plan_hold
      BY DEF Sound, PageRecord
    <2> HIDE DEF q
    <2>3. mb_page_native_prot(q) = mb_page_native_prot(p)
      BY <2>2 DEF mb_page_native_prot
    <2>4. Sound(q)
      BY <2>2 DEF Sound, MapsAgree
    <2>5. \A b : Kept(p, b) => Kept(q, b)
      BY <1>1, <2>2 DEF Kept
    <2> QED  BY <2>1, <2>2, <2>3, <2>4, <2>5
  <1>2. CASE p.snap_kind # "NONE"
    BY <1>2 DEF mb_page_maybe_snapshot
  <1> QED  BY <1>1, <1>2

\* mb_block_epoch_capture ends a hold of the epoch and changes nothing the page holds.
LEMMA CaptureStep ==
    ASSUME NEW p, Sound(p)
    PROVE  LET q == mb_block_epoch_capture(p)
           IN  /\ Sound(q) /\ Alike(p, q) /\ (Lets(p) => Lets(q)) /\ ~q.held
               /\ q.status = p.status
  <1> DEFINE e == p.epoch_dirty \/ (epoch_active /\ epoch_tracks(p))
             q == [p EXCEPT !.held = FALSE, !.epoch_dirty = e]
  <1>1. e \in BOOLEAN
    OBVIOUS
  <1> HIDE DEF e
  <1>2. /\ q \in PageRecord /\ q.status = p.status /\ q.dirty = p.dirty
        /\ q.bytes = p.bytes /\ q.invisible = p.invisible /\ q.snap_kind = p.snap_kind
        /\ q.snap_data = p.snap_data /\ q.hot = p.hot /\ ~q.held
        /\ q.unheld = p.unheld /\ q.plan_hold = p.plan_hold
    BY <1>1 DEF Sound, PageRecord
  <1> HIDE DEF q
  <1>3. Sound(q) /\ Alike(p, q)
    BY <1>2 DEF Sound, MapsAgree, Alike
  <1>4. Lets(p) => Lets(q)
    BY <1>2 DEF Lets, mb_page_native_prot
  <1>5. mb_block_epoch_capture(p) = q
    BY DEF mb_block_epoch_capture, q, e
  <1> QED  BY <1>2, <1>3, <1>4, <1>5

\* The capture for a plan changes nothing the page holds.
LEMMA CapturedStep ==
    ASSUME NEW p, Sound(p)
    PROVE  LET q == Captured(p)
           IN  Sound(q) /\ Alike(p, q) /\ (Lets(p) => Lets(q)) /\ q.held = p.held
  <1> DEFINE q == [p EXCEPT !.plan_hold = 0]
  <1>1. /\ q \in PageRecord /\ q.status = p.status /\ q.dirty = p.dirty
        /\ q.bytes = p.bytes /\ q.invisible = p.invisible /\ q.snap_kind = p.snap_kind
        /\ q.snap_data = p.snap_data /\ q.hot = p.hot /\ q.held = p.held
        /\ q.unheld = p.unheld /\ q.plan_hold = 0
    BY DEF Sound, PageRecord
  <1> HIDE DEF q
  <1>2. Sound(q) /\ Alike(p, q)
    BY <1>1 DEF Sound, MapsAgree, Alike
  <1>3. Lets(p) => Lets(q)
    BY <1>1 DEF Lets, mb_page_native_prot
  <1> QED  BY <1>1, <1>2, <1>3 DEF Captured, q

\* epoch_note_status_change changes only what the epoch knows of the page.
LEMMA EpochNoteStep ==
    ASSUME NEW p, Sound(p), NEW s
    PROVE  LET q == epoch_note_status_change(p, s)
           IN  Sound(q) /\ Alike(p, q)
  <1> DEFINE n == [p EXCEPT !.stat = TRUE]
             m == [n EXCEPT !.epoch_dirty = TRUE]
  <1>1. Sound(n) /\ Alike(p, n)
    BY DEF Sound, PageRecord, MapsAgree, Alike
  <1>2. Sound(m) /\ Alike(p, m)
    BY DEF Sound, PageRecord, MapsAgree, Alike
  <1> HIDE DEF n
  <1>3. Sound(mb_block_epoch_capture(n)) /\ Alike(p, mb_block_epoch_capture(n))
    BY <1>1, CaptureStep DEF Alike
  <1> HIDE DEF m
  <1>4. epoch_note_status_change(p, s) \in {p, n, mb_block_epoch_capture(n), m}
    BY DEF epoch_note_status_change, n, m
  <1> QED  BY <1>1, <1>2, <1>3, <1>4 DEF Alike

\* Closing an epoch changes neither what a page holds nor what it allows.
LEMMA ForgottenStep ==
    ASSUME NEW p, Sound(p)
    PROVE  LET q == EpochForgotten(p)
           IN  /\ Sound(q) /\ Alike(p, q) /\ q.status = p.status
               /\ mb_page_native_prot(q) = mb_page_native_prot(p)
  <1> DEFINE q == [p EXCEPT !.epoch_dirty = FALSE, !.stat = FALSE]
  <1>1. /\ q \in PageRecord /\ q.status = p.status /\ q.dirty = p.dirty
        /\ q.bytes = p.bytes /\ q.invisible = p.invisible /\ q.snap_kind = p.snap_kind
        /\ q.snap_data = p.snap_data /\ q.hot = p.hot /\ q.held = p.held
        /\ q.unheld = p.unheld /\ q.plan_hold = p.plan_hold
    BY DEF Sound, PageRecord
  <1> HIDE DEF q
  <1>2. Sound(q) /\ Alike(p, q)
    BY <1>1 DEF Sound, MapsAgree, Alike
  <1>3. mb_page_native_prot(q) = mb_page_native_prot(p)
    BY <1>1 DEF mb_page_native_prot
  <1> QED  BY <1>1, <1>2, <1>3 DEF EpochForgotten, q

\* The fault handler's work on one page, alone or among the pages released with it.
LEMMA TrippedStep ==
    ASSUME NEW p, NEW b, Sound(p)
    PROVE  /\ Step(p, Tripped(p), b) /\ Step(p, mb_block_note_unheld(Tripped(p)), b)
           /\ Lets(Tripped(p)) => Lets(mb_block_note_unheld(Tripped(p)))
  <1> DEFINE a == mb_page_maybe_snapshot(p)
             c == mb_block_epoch_capture(a)
             e == Captured(c)
             q == set_dirty(e, TRUE)
             u == [q EXCEPT !.unheld = q.unheld \/ ~q.hot]
  <1>1. Sound(a) /\ a.snap_kind # "NONE" /\ Step(p, a, b)
    BY SnapshotStep DEF Step
  <1> HIDE DEF a
  <1>2. Sound(c) /\ Alike(a, c) /\ ~c.held
    BY <1>1, CaptureStep
  <1> HIDE DEF c
  <1>3. Sound(e) /\ Alike(a, e) /\ ~e.held
    BY <1>2, CapturedStep DEF Alike
  <1> HIDE DEF e
  <1>4. /\ Sound(q) /\ q.dirty /\ q.bytes = e.bytes /\ ~q.held
        /\ q.invisible = e.invisible /\ q.snap_kind = e.snap_kind
        /\ q.snap_data = e.snap_data
    BY <1>3, SetDirtyStep
  <1>5. Step(a, q, b)
    BY <1>1, <1>3, <1>4 DEF Step, Alike, Kept
  <1>6. Step(p, q, b)
    BY <1>1, <1>5, StepTwice
  <1>7. q = Tripped(p)
    BY DEF Tripped, q, e, c, a
  <1> HIDE DEF q
  <1>8. /\ u \in PageRecord /\ u.status = q.status /\ u.dirty = q.dirty
        /\ u.bytes = q.bytes /\ u.invisible = q.invisible /\ u.snap_kind = q.snap_kind
        /\ u.snap_data = q.snap_data /\ u.hot = q.hot /\ u.held = q.held
        /\ u.unheld = (q.unheld \/ ~q.hot) /\ u.plan_hold = q.plan_hold
    BY <1>4 DEF Sound, PageRecord
  <1> HIDE DEF u
  <1>9. Sound(u) /\ Alike(q, u)
    BY <1>4, <1>8 DEF Sound, MapsAgree, Alike
  <1>10. Step(p, u, b)
    BY <1>6, <1>9, AlikeStep, StepTwice
  <1>11. Lets(q) => Lets(u)
    BY <1>8 DEF Lets, mb_page_native_prot
  <1>12. u = mb_block_note_unheld(q)
    BY DEF mb_block_note_unheld, u
  <1> QED  BY <1>6, <1>7, <1>10, <1>11, <1>12

\* A page given back (munmap, MADV_DONTNEED) reads as zeros and has kept its baseline.
LEMMA GivenBackStep ==
    ASSUME NEW p, NEW b, Sound(p)
    PROVE  Step(p, GivenBack(p), b)
  <1> DEFINE a == Captured(p)
             c == mb_page_maybe_snapshot(a)
             n == epoch_note_status_change(c, "FREE")
             zero == ~n.dirty /\ ~n.invisible /\ n.snap_kind = "ZERO"
             x == [n EXCEPT !.bytes = IF zero THEN n.bytes ELSE 0]
             d == ~n.invisible /\ n.snap_kind # "ZERO"
             q == set_dirty(x, d)
  <1>1. Sound(a) /\ Step(p, a, b)
    BY CapturedStep, AlikeStep
  <1> HIDE DEF a
  <1>2. Sound(c) /\ Step(a, c, b) /\ c.snap_kind # "NONE"
    BY <1>1, SnapshotStep DEF Step
  <1> HIDE DEF c
  <1>3. Sound(n) /\ Alike(c, n)
    BY <1>2, EpochNoteStep
  <1> HIDE DEF n
  <1>4. Step(p, n, b) /\ n.snap_kind # "NONE"
    BY <1>1, <1>2, <1>3, AlikeStep, StepTwice DEF Alike
  <1>5. 0 \in Value
    BY UsesAssumption
  <1>6. /\ x \in PageRecord /\ x.status = n.status /\ x.dirty = n.dirty
        /\ x.bytes = (IF zero THEN n.bytes ELSE 0)
        /\ x.invisible = n.invisible /\ x.snap_kind = n.snap_kind
        /\ x.snap_data = n.snap_data /\ x.hot = n.hot /\ x.held = n.held
        /\ x.unheld = n.unheld
    BY <1>3, <1>5 DEF Sound, PageRecord
  <1> HIDE DEF x
  <1>7. Sound(x)
    BY <1>3, <1>6 DEF Sound, MapsAgree
  <1>8. d \in BOOLEAN
    OBVIOUS
  <1>9. /\ Sound(q) /\ q.dirty = d /\ q.bytes = x.bytes
        /\ q.invisible = x.invisible /\ q.snap_kind = x.snap_kind
        /\ q.snap_data = x.snap_data
    <2> HIDE DEF d
    <2> QED  BY <1>7, <1>8, SetDirtyStep
  <1> HIDE DEF q
  <1>10. n.snap_kind \in {"NONE", "ZERO", "DATA"} /\ n.dirty \in BOOLEAN /\ n.invisible \in BOOLEAN
    BY <1>3 DEF Sound, PageRecord
  <1>11. Step(n, q, b)
    <2>1. CASE ~n.invisible /\ Kept(n, b)
      <3>1. Kept(q, b)
        BY <2>1, <1>4, <1>6, <1>9, <1>10 DEF Kept
      <3> QED  BY <3>1, <1>4, <1>6, <1>9 DEF Step
    <2>2. CASE ~(~n.invisible /\ Kept(n, b))
      BY <2>2, <1>4, <1>6, <1>9 DEF Step
    <2> QED  BY <2>1, <2>2
  <1>12. GivenBack(p) = q
    BY DEF GivenBack, q, d, x, n, c, a
  <1> QED  BY <1>4, <1>11, <1>12, StepTwice

\* Opening an epoch over a page changes nothing the page holds.
LEMMA OpenedStep ==
    ASSUME NEW p, Sound(p)
    PROVE  LET q == EpochOpened(p)
           IN  Sound(q) /\ Alike(p, q) /\ (Lets(p) /\ ~p.unheld => Lets(q))
  <1> DEFINE f == [EpochForgotten(p) EXCEPT
                      !.seen = IF @ < 2 THEN @ + 1 ELSE @,
                      !.shadow = IF p.hot THEN p.bytes ELSE @]
             t == epoch_tracks(p)
             g == [f EXCEPT !.unheld = FALSE, !.held = f.held \/ t]
  <1>1. /\ f \in PageRecord /\ f.status = p.status /\ f.dirty = p.dirty
        /\ f.bytes = p.bytes /\ f.invisible = p.invisible /\ f.snap_kind = p.snap_kind
        /\ f.snap_data = p.snap_data /\ f.hot = p.hot /\ f.held = p.held
        /\ f.unheld = p.unheld /\ f.plan_hold = p.plan_hold
    <2> DEFINE e == EpochForgotten(p)
    <2>1. /\ e \in PageRecord /\ e.status = p.status /\ e.dirty = p.dirty
          /\ e.bytes = p.bytes /\ e.invisible = p.invisible /\ e.snap_kind = p.snap_kind
          /\ e.snap_data = p.snap_data /\ e.hot = p.hot /\ e.held = p.held
          /\ e.unheld = p.unheld /\ e.plan_hold = p.plan_hold
      BY DEF Sound, PageRecord, EpochForgotten
    <2>2. p.bytes \in Value /\ e.seen \in 0 .. 2
      BY <2>1 DEF Sound, PageRecord
    <2> DEFINE s == IF e.seen < 2 THEN e.seen + 1 ELSE e.seen
               w == IF p.hot THEN p.bytes ELSE e.shadow
    <2>3. s \in 0 .. 2 /\ w \in Value
      BY <2>1, <2>2 DEF PageRecord
    <2>4. f = [e EXCEPT !.seen = s, !.shadow = w]
      OBVIOUS
    <2> HIDE DEF e, s, w, f
    <2> QED  BY <2>1, <2>3, <2>4 DEF PageRecord
  <1> HIDE DEF f
  <1>2. Sound(f) /\ Alike(p, f) /\ (Lets(p) => Lets(f))
    BY <1>1 DEF Sound, MapsAgree, Alike, Lets, mb_page_native_prot
  <1>3. t \in BOOLEAN
    BY DEF epoch_tracks
  <1> HIDE DEF t
  <1>4. /\ g \in PageRecord /\ g.status = f.status /\ g.dirty = f.dirty
        /\ g.bytes = f.bytes /\ g.invisible = f.invisible /\ g.snap_kind = f.snap_kind
        /\ g.snap_data = f.snap_data /\ g.hot = f.hot /\ g.held = (f.held \/ t)
        /\ g.unheld = FALSE
    BY <1>1, <1>3 DEF PageRecord
  <1> HIDE DEF g
  <1>5. CASE p.unheld
    <2>1. ~p.hot
      BY <1>5 DEF Sound, MapsAgree
    <2>2. Sound(g) /\ Alike(p, g)
      BY <2>1, <1>1, <1>4 DEF Sound, MapsAgree, Alike
    <2>3. EpochOpened(p) = g
      BY <1>5 DEF EpochOpened, g, f, t
    <2> QED  BY <1>5, <2>2, <2>3
  <1>6. CASE ~p.unheld
    <2>1. EpochOpened(p) = f
      BY <1>6 DEF EpochOpened, f
    <2> QED  BY <1>2, <2>1
  <1> QED  BY <1>5, <1>6

\* get_hot_epoch changes nothing a page holds.
LEMMA HotEpochStep ==
    ASSUME NEW p, Sound(p)
    PROVE  LET q == get_hot_epoch(p)
           IN  Sound(q) /\ Alike(p, q) /\ (Lets(p) => Lets(q))
  <1> DEFINE a == [p EXCEPT !.heat = 0, !.epoch_dirty = TRUE]
             c == [p EXCEPT !.heat = p.heat + 1]
  <1>1. 0 \in 0 .. HEAT_MOST
    BY HeatAssumption
  <1>2. /\ a \in PageRecord /\ a.status = p.status /\ a.dirty = p.dirty
        /\ a.bytes = p.bytes /\ a.invisible = p.invisible /\ a.snap_kind = p.snap_kind
        /\ a.snap_data = p.snap_data /\ a.hot = p.hot /\ a.held = p.held
        /\ a.unheld = p.unheld /\ a.plan_hold = p.plan_hold
    BY <1>1 DEF Sound, PageRecord
  <1> HIDE DEF a
  <1>3. Sound(a) /\ Alike(p, a) /\ (Lets(p) => Lets(a))
    BY <1>2 DEF Sound, MapsAgree, Alike, Lets, mb_page_native_prot
  <1>4. CASE p.hot /\ p.bytes = p.shadow /\ ~(p.heat + 1 >= COLD_AFTER)
    <2>1. p.heat \in 0 .. HEAT_MOST
      BY DEF Sound, PageRecord
    <2>2. p.heat + 1 \in 0 .. HEAT_MOST
      BY <1>4, <2>1, HeatAssumption
    <2>3. /\ c \in PageRecord /\ c.status = p.status /\ c.dirty = p.dirty
          /\ c.bytes = p.bytes /\ c.invisible = p.invisible /\ c.snap_kind = p.snap_kind
          /\ c.snap_data = p.snap_data /\ c.hot = p.hot /\ c.held = p.held
          /\ c.unheld = p.unheld /\ c.plan_hold = p.plan_hold
      BY <2>2 DEF Sound, PageRecord
    <2> HIDE DEF c
    <2>4. Sound(c) /\ Alike(p, c) /\ (Lets(p) => Lets(c))
      BY <2>3 DEF Sound, MapsAgree, Alike, Lets, mb_page_native_prot
    <2>5. get_hot_epoch(p) = c
      BY <1>4 DEF get_hot_epoch, c
    <2> QED  BY <2>4, <2>5
  <1>5. CASE ~(p.hot /\ p.bytes = p.shadow /\ ~(p.heat + 1 >= COLD_AFTER))
    <2>1. get_hot_epoch(p) \in {p, a, page_cool(p)}
      BY <1>5 DEF get_hot_epoch, a
    <2> QED  BY <2>1, <1>3, CoolStep DEF Alike
  <1> QED  BY <1>4, <1>5

\* Counting an epoch's write towards heat changes nothing a page holds.
LEMMA WarmedStep ==
    ASSUME NEW p, Sound(p)
    PROVE  LET q == Warmed(p)
           IN  Sound(q) /\ Alike(p, q) /\ (Lets(p) => Lets(q))
  <1> DEFINE h == IF p.seen # 1 THEN 1 ELSE IF p.heat < HEAT_MOST THEN p.heat + 1 ELSE p.heat
             a == [p EXCEPT !.heat = h, !.seen = 0]
  <1>1. p.heat \in 0 .. HEAT_MOST
    BY DEF Sound, PageRecord
  <1>2. h \in 0 .. HEAT_MOST
    BY <1>1, HeatAssumption
  <1> HIDE DEF h
  <1>3. /\ a \in PageRecord /\ a.status = p.status /\ a.dirty = p.dirty
        /\ a.bytes = p.bytes /\ a.invisible = p.invisible /\ a.snap_kind = p.snap_kind
        /\ a.snap_data = p.snap_data /\ a.hot = p.hot /\ a.held = p.held
        /\ a.unheld = p.unheld /\ a.plan_hold = p.plan_hold
    <2> DEFINE c == [p EXCEPT !.heat = h]
    <2>1. /\ c \in PageRecord /\ c.status = p.status /\ c.dirty = p.dirty
          /\ c.bytes = p.bytes /\ c.invisible = p.invisible /\ c.snap_kind = p.snap_kind
          /\ c.snap_data = p.snap_data /\ c.hot = p.hot /\ c.held = p.held
          /\ c.unheld = p.unheld /\ c.plan_hold = p.plan_hold
      BY <1>2 DEF Sound, PageRecord
    <2>2. a = [c EXCEPT !.seen = 0]
      OBVIOUS
    <2> HIDE DEF a, c
    <2> QED  BY <2>1, <2>2 DEF PageRecord
  <1> HIDE DEF a
  <1>4. Sound(a) /\ Alike(p, a) /\ (Lets(p) => Lets(a))
    BY <1>3 DEF Sound, MapsAgree, Alike, Lets, mb_page_native_prot
  <1>5. Warmed(p) \in {p, a}
    BY DEF Warmed, a, h
  <1> QED  BY <1>4, <1>5 DEF Alike

\* page_heat, on a page written in this epoch, changes nothing the page holds.
LEMMA HeatStep ==
    ASSUME NEW p, Sound(p), p.dirty, p.unheld, p.status \in {"RW", "RWX"}
    PROVE  LET q == page_heat(p)
           IN  Sound(q) /\ Alike(p, q) /\ (Lets(p) => Lets(q))
  <1> DEFINE y == p.bytes
             a == [p EXCEPT !.hot = TRUE, !.heat = 0, !.shadow = y, !.unheld = FALSE]
  <1>0. 0 \in 0 .. HEAT_MOST
    BY HeatAssumption
  <1> HIDE DEF a
  <1>1. y \in Value /\ p \in PageRecord
    BY DEF Sound, PageRecord
  <1> HIDE DEF y
  <1>2. /\ a \in PageRecord /\ a.status = p.status /\ a.dirty = p.dirty
        /\ a.bytes = p.bytes /\ a.invisible = p.invisible /\ a.snap_kind = p.snap_kind
        /\ a.snap_data = p.snap_data /\ a.hot = TRUE /\ a.held = p.held
        /\ a.unheld = FALSE /\ a.plan_hold = p.plan_hold
    BY <1>0, <1>1 DEF PageRecord, a
  <1>3. Sound(a) /\ Alike(p, a) /\ (Lets(p) => Lets(a))
    BY <1>2 DEF Sound, MapsAgree, Alike, Lets, mb_page_native_prot
  <1> QED  BY <1>3 DEF page_heat, a, y

\* the bytes replaced, with the snapshot there to go back to
LEMMA RewrittenStep ==
    ASSUME NEW p, NEW b, Sound(p), p.snap_kind # "NONE", NEW v \in Value, NEW d \in BOOLEAN,
           (~d /\ ~p.invisible /\ Kept(p, b)) => v = b
    PROVE  LET q == set_dirty([p EXCEPT !.bytes = v], d)
           IN  Step(p, q, b) /\ (d => q.hot = p.hot)
  <1> DEFINE x == [p EXCEPT !.bytes = v]
             q == set_dirty(x, d)
  <1>1. /\ x \in PageRecord /\ x.status = p.status /\ x.dirty = p.dirty
        /\ x.bytes = v /\ x.invisible = p.invisible /\ x.snap_kind = p.snap_kind
        /\ x.snap_data = p.snap_data /\ x.hot = p.hot /\ x.held = p.held
        /\ x.unheld = p.unheld
    BY DEF Sound, PageRecord
  <1> HIDE DEF x
  <1>2. Sound(x)
    BY <1>1 DEF Sound, MapsAgree
  <1>3. /\ Sound(q) /\ q.dirty = d /\ q.bytes = v
        /\ q.invisible = p.invisible /\ q.snap_kind = p.snap_kind
        /\ q.snap_data = p.snap_data /\ (d => q.hot = p.hot)
    BY <1>1, <1>2, SetDirtyStep
  <1> HIDE DEF q
  <1>4. Step(p, q, b)
    BY <1>3 DEF Step, Kept
  <1> QED  BY <1>3, <1>4 DEF q, x

\* A dirty page may be given any bytes: its snapshot is there.
LEMMA OverwrittenStep ==
    ASSUME NEW p, NEW b, Sound(p), p.dirty, NEW v \in Value
    PROVE  LET q == [p EXCEPT !.bytes = v]
           IN  Step(p, q, b) /\ (Lets(p) => Lets(q))
  <1> DEFINE q == [p EXCEPT !.bytes = v]
  <1>1. /\ q \in PageRecord /\ q.status = p.status /\ q.dirty = p.dirty
        /\ q.bytes = v /\ q.invisible = p.invisible /\ q.snap_kind = p.snap_kind
        /\ q.snap_data = p.snap_data /\ q.hot = p.hot /\ q.held = p.held
        /\ q.unheld = p.unheld /\ q.plan_hold = p.plan_hold
    BY DEF Sound, PageRecord
  <1> HIDE DEF q
  <1>2. Sound(q) /\ (Lets(p) => Lets(q))
    BY <1>1 DEF Sound, MapsAgree, Lets, mb_page_native_prot
  <1>3. Step(p, q, b)
    BY <1>1, <1>2 DEF Step, Kept
  <1> QED  BY <1>2, <1>3 DEF q

\* The shadow of a hot page is no part of the baseline.
LEMMA ShadowStep ==
    ASSUME NEW p, Sound(p), NEW v \in Value
    PROVE  LET q == [p EXCEPT !.shadow = v]
           IN  Sound(q) /\ Alike(p, q)
  BY DEF Sound, PageRecord, MapsAgree, Alike

\* A read cut short leaves any bytes in a page, and the page dirty with its snapshot.
LEMMA CutStep ==
    ASSUME NEW p, NEW b, Sound(p), NEW v \in Value
    PROVE  Step(p, CutPage(p, v), b)
  <1> DEFINE a == mb_page_maybe_snapshot(p)
  <1>1. Sound(a) /\ a.snap_kind # "NONE" /\ Step(p, a, b)
    BY SnapshotStep DEF Step
  <1> HIDE DEF a
  <1>2. Step(a, set_dirty([a EXCEPT !.bytes = v], TRUE), b)
    BY <1>1, RewrittenStep
  <1> QED  BY <1>1, <1>2, StepTwice DEF CutPage, a

\* A page of a delta: clean only when its bytes are the baseline.
LEMMA DeltaPageStep ==
    ASSUME NEW p, NEW b, Sound(p), NEW e, e.bytes \in Value, e.clean \in BOOLEAN,
           e.clean /\ ~p.invisible => e.bytes = b
    PROVE  Step(p, DeltaPage(p, e), b)
  <1> DEFINE a == mb_page_maybe_snapshot(p)
             x == [a EXCEPT !.bytes = e.bytes]
             m == set_dirty(x, TRUE)
  <1>1. /\ Sound(a) /\ a.snap_kind # "NONE" /\ Step(p, a, b)
        /\ a.invisible = p.invisible
    BY SnapshotStep DEF Step
  <1> HIDE DEF a
  <1>2. CASE e.clean /\ ~p.invisible
    <2>1. Step(a, set_dirty(x, FALSE), b)
      BY <1>1, <1>2, RewrittenStep
    <2>2. DeltaPage(p, e) = set_dirty(x, FALSE)
      BY <1>2 DEF DeltaPage, x, a
    <2> QED  BY <1>1, <2>1, <2>2, StepTwice
  <1>3. CASE ~(e.clean /\ ~p.invisible)
    <2>1. Step(a, m, b)
      BY <1>1, RewrittenStep
    <2>2. DeltaPage(p, e) = [m EXCEPT !.shadow = IF p.hot THEN e.bytes ELSE m.shadow]
      BY <1>3 DEF DeltaPage, m, x, a
    <2> DEFINE v == IF p.hot THEN e.bytes ELSE m.shadow
    <2> HIDE DEF m
    <2>3. Sound(m) /\ v \in Value
      BY <2>1 DEF Step, Sound, PageRecord
    <2> HIDE DEF v
    <2>4. Sound([m EXCEPT !.shadow = v]) /\ Alike(m, [m EXCEPT !.shadow = v])
      BY <2>3, ShadowStep
    <2>5. Step(m, [m EXCEPT !.shadow = v], b)
      BY <2>4, AlikeStep
    <2> QED  BY <1>1, <2>1, <2>2, <2>5, StepTwice DEF v
  <1> QED  BY <1>2, <1>3

\* A page of a state: a clean one is put back from its snapshot.
LEMMA LoadedStep ==
    ASSUME NEW p, NEW b, Sound(p), NEW s \in Status, NEW d \in BOOLEAN, NEW v \in Value,
           ~p.invisible => Kept(p, b)
    PROVE  Step(p, LoadedPage(p, s, d, v), b)
  <1> DEFINE a == IF d /\ ~p.dirty THEN mb_page_maybe_snapshot(p) ELSE p
             w == CASE d -> v
                    [] ~d /\ ~p.dirty -> p.bytes
                    [] ~d /\ p.dirty -> IF p.snap_kind = "ZERO" THEN 0 ELSE p.snap_data
             f == set_dirty([a EXCEPT !.bytes = w], d)
             g == IF p.invisible THEN p ELSE IF f.hot THEN [f EXCEPT !.shadow = w] ELSE f
  <1>1. LoadedPage(p, s, d, v) = note_status(g, s)
    BY DEF LoadedPage
  <1>2. Sound(g) /\ Step(p, g, b)
    <2>1. CASE p.invisible
      BY <2>1, AlikeStep DEF Alike
    <2>2. CASE ~p.invisible /\ (d \/ p.dirty)
      <3>1. p \in PageRecord /\ 0 \in Value /\ p.snap_data \in Value /\ p.bytes \in Value
            /\ p.dirty \in BOOLEAN /\ p.snap_kind \in {"NONE", "ZERO", "DATA"}
        BY UsesAssumption DEF Sound, PageRecord
      <3>2. w \in Value
        BY <3>1
      <3>3. Sound(a) /\ Step(p, a, b) /\ a.snap_kind # "NONE" /\ a.invisible = p.invisible
        <4>1. CASE d /\ ~p.dirty
          BY <4>1, SnapshotStep DEF Step
        <4>2. CASE ~(d /\ ~p.dirty)
          <5>1. a = p /\ p.dirty
            BY <2>2, <4>2
          <5>2. p.snap_kind # "NONE"
            BY <2>2, <5>1 DEF Kept
          <5> QED  BY <5>1, <5>2 DEF Step
        <4> QED  BY <4>1, <4>2
      <3>4. ~d => w = b
        BY <2>2, <3>1 DEF Kept
      <3> HIDE DEF w, a
      <3>5. Step(a, f, b)
        BY <3>2, <3>3, <3>4, RewrittenStep
      <3>6. Step(p, f, b) /\ Sound(f)
        BY <3>3, <3>5, StepTwice DEF Step
      <3> HIDE DEF f
      <3>7. Step(f, [f EXCEPT !.shadow = w], b)
        BY <3>2, <3>6, ShadowStep, AlikeStep
      <3>8. Step(p, [f EXCEPT !.shadow = w], b)
        BY <3>6, <3>7, StepTwice
      <3> QED  BY <2>2, <3>6, <3>8 DEF Step
    <2>3. CASE ~p.invisible /\ ~d /\ ~p.dirty
      <3>1. a = p /\ w = p.bytes
        BY <2>3
      <3> DEFINE x == [p EXCEPT !.bytes = p.bytes]
      <3>2. x = p
        BY DEF Sound, PageRecord
      <3> HIDE DEF a, w, x
      <3>3. f = set_dirty(p, FALSE)
        BY <2>3, <3>1, <3>2 DEF x
      <3> HIDE DEF f
      <3>5. /\ Sound(f) /\ f.dirty = FALSE /\ f.bytes = p.bytes
            /\ f.invisible = p.invisible /\ f.snap_kind = p.snap_kind
            /\ f.snap_data = p.snap_data
        BY <3>3, SetDirtyStep
      <3>6. ~f.hot
        BY <3>5 DEF Sound, MapsAgree
      <3>7. Step(p, f, b)
        BY <2>3, <3>5 DEF Step, Kept
      <3> QED  BY <2>3, <3>5, <3>6, <3>7
    <2> QED  BY <2>1, <2>2, <2>3
  <1> HIDE DEF g
  <1>3. Step(g, note_status(g, s), b)
    BY <1>2, NoteStatusStep, AlikeStep
  <1> QED  BY <1>1, <1>2, <1>3, StepTwice

\* A page a plan holds allows no write and keeps what it holds.
LEMMA PlanHeldStep ==
    ASSUME NEW p, Sound(p)
    PROVE  LET q == note_prot(PlanHeld(p))
           IN  Sound(q) /\ Alike(p, q) /\ ~Lets(PlanHeld(p))
  <1> DEFINE q == note_prot(PlanHeld(p))
             h == PlanHeld(p)
             k == p.held \/ ~p.hot
  <1>0. k \in BOOLEAN /\ p \in PageRecord
    BY DEF Sound
  <1>1. h = [p EXCEPT !.plan_hold = 1, !.held = k]
    BY DEF PlanHeld
  <1> HIDE DEF k, h
  <1> DEFINE o == [p EXCEPT !.plan_hold = 1]
  <1>8. /\ o \in PageRecord /\ o.status = p.status /\ o.dirty = p.dirty
        /\ o.bytes = p.bytes /\ o.invisible = p.invisible /\ o.snap_kind = p.snap_kind
        /\ o.snap_data = p.snap_data /\ o.hot = p.hot /\ o.plan_hold = 1
    BY <1>0 DEF PageRecord
  <1>9. h = [o EXCEPT !.held = k]
    BY <1>1
  <1> HIDE DEF o
  <1>2. /\ h \in PageRecord /\ h.status = p.status /\ h.dirty = p.dirty
        /\ h.bytes = p.bytes /\ h.invisible = p.invisible /\ h.snap_kind = p.snap_kind
        /\ h.snap_data = p.snap_data /\ h.hot = p.hot /\ h.held = k
        /\ h.plan_hold = 1
    BY <1>0, <1>8, <1>9 DEF PageRecord
  <1>3. q = [h EXCEPT !.unheld = Lets(h) /\ ~h.hot /\ ~h.invisible,
                      !.held = h.held /\ ~Lets(h)]
    BY DEF note_prot, Lets, h
  <1> HIDE DEF q
  <1>4. ~Lets(h)
    BY <1>2 DEF Lets, mb_page_native_prot
  <1>5. /\ q \in PageRecord /\ q.status = h.status /\ q.dirty = h.dirty
        /\ q.bytes = h.bytes /\ q.invisible = h.invisible /\ q.snap_kind = h.snap_kind
        /\ q.snap_data = h.snap_data /\ q.hot = h.hot /\ q.held = h.held
        /\ q.unheld = FALSE
    <2>1. q = [h EXCEPT !.unheld = FALSE, !.held = h.held]
      BY <1>2, <1>3, <1>4 DEF PageRecord
    <2> QED  BY <2>1, <1>2 DEF PageRecord
  <1>6. Sound(q) /\ Alike(p, q)
    BY <1>2, <1>5 DEF Sound, MapsAgree, Alike, k
  <1> QED  BY <1>4, <1>6 DEF h, q

-----------------------------------------------------------------------------
(* The block *)

\* what page i goes back to: zeros until the block is sealed
Base(i) == IF sealed THEN baseline[i] ELSE 0

PageGood(p, o, b, after) ==
    /\ Sound(p)
    /\ "w" \in o => Lets(p)
    /\ ~p.invisible => Kept(p, b)
    /\ ~after => p.snap_kind # "NONE"

\* every page is sound, keeps its baseline, and traps the writes it must
PagesGood ==
    /\ page \in [Page -> PageRecord]
    /\ \A i \in Page : PageGood(page[i], os[i], Base(i), sealed)

\* the block may become r, with the OS enforcing o
Goes(r, o) ==
    /\ r \in [Page -> PageRecord]
    /\ \A i \in Page : /\ PageGood(r[i], o[i], Base(i), sealed)
                       /\ r[i].invisible = page[i].invisible

\* With one machine page per host page, a group is a page.
LEMMA OneGroup ==
    ASSUME GroupPages = 1
    PROVE  /\ \A i \in Page : i \div GroupPages = i
           /\ HostPage = Page
           /\ \A i \in Page : Group(i) = {i}
  <1>1. \A i \in Page : i \in Nat /\ i \div GroupPages = i
    BY PagesAssumption DEF Page
  <1>2. HostPage = Page
    BY <1>1 DEF HostPage
  <1>3. \A i \in Page : Group(i) = {i}
    BY <1>1 DEF Group
  <1> QED  BY <1>1, <1>2, <1>3

\* The OS lets a page be written when the page says so, or when it was not told.
LEMMA EnforcedOne ==
    ASSUME GroupPages = 1, NEW q, NEW S, NEW i \in Page, "w" \in Enforced(q, S)[i]
    PROVE  Lets(q[i]) \/ ("w" \in os[i] /\ i \notin S)
  <1>1. Enforced(q, S)[i] = IF i \in HostPages(S) THEN group_native_prot(q, i) ELSE os[i]
    BY OneGroup DEF Enforced
  <1>2. CASE i \in HostPages(S)
    <2>1. "w" \in group_native_prot(q, i)
      BY <1>1, <1>2
    <2>2. "w" \in UNION {mb_page_native_prot(q[k]) : k \in Group(i)}
      BY <2>1 DEF group_native_prot
    <2>3. PICK k \in Group(i) : "w" \in mb_page_native_prot(q[k])
      BY <2>2
    <2> QED  BY <2>3, OneGroup DEF Lets
  <1>3. CASE i \notin HostPages(S)
    BY <1>1, <1>3, OneGroup DEF HostPages
  <1> QED  BY <1>2, <1>3

\* A page stays good over a step when the OS allows no more than the page.
LEMMA StepGood ==
    ASSUME NEW p, NEW q, NEW o, NEW u, NEW b, NEW a,
           PageGood(p, o, b, a), Step(p, q, b), "w" \in u => Lets(q)
    PROVE  PageGood(q, u, b, a) /\ q.invisible = p.invisible
  BY DEF PageGood, Step

\* The block stays good when the OS is told of every page that allows less.
LEMMA ToldGood ==
    ASSUME GroupPages = 1, PagesGood, NEW q, NEW N, NEW S,
           \A i \in Page : Step(page[i], q[i], Base(i)),
           \A i \in Page \ S : Lets(page[i]) => Lets(q[i])
    PROVE  Goes(Noted(q, N), Enforced(q, S))
  <1> DEFINE r == Noted(q, N)
             o == Enforced(q, S)
  <1>1. \A i \in Page : r[i] = IF i \in N THEN note_prot(q[i]) ELSE q[i]
    BY DEF Noted, On
  <1>2. r = [i \in Page |-> r[i]]
    BY DEF Noted, On
  <1>3. ASSUME NEW i \in Page
        PROVE  PageGood(r[i], o[i], Base(i), sealed) /\ r[i].invisible = page[i].invisible
    <2>1. Sound(q[i]) /\ Step(page[i], q[i], Base(i)) /\ PageGood(page[i], os[i], Base(i), sealed)
      BY <1>3 DEF Step, PagesGood
    <2>2. Sound(note_prot(q[i])) /\ Alike(q[i], note_prot(q[i]))
      BY <2>1, NoteProtStep
    <2>3. Lets(note_prot(q[i])) <=> Lets(q[i])
      BY <2>1, NoteProtStep DEF Lets
    <2>4. Step(page[i], note_prot(q[i]), Base(i))
      BY <2>1, <2>2, AlikeStep, StepTwice
    <2>5. Step(page[i], r[i], Base(i)) /\ (Lets(r[i]) <=> Lets(q[i]))
      BY <2>1, <2>3, <2>4, <1>1
    <2>6. "w" \in o[i] => Lets(r[i])
      <3> HAVE "w" \in o[i]
      <3>1. Lets(q[i]) \/ ("w" \in os[i] /\ i \notin S)
        BY EnforcedOne
      <3> QED  BY <3>1, <2>1, <2>5 DEF PageGood
    <2> HIDE DEF r, o
    <2> QED  BY <2>1, <2>5, <2>6, StepGood
  <1> HIDE DEF r, o
  <1>4. r \in [Page -> PageRecord]
    BY <1>2, <1>3 DEF PageGood, Sound
  <1> QED  BY <1>3, <1>4 DEF Goes, r, o

\* The same when the pages S are given a new status as well (mprotect_range).
LEMMA ProtectGood ==
    ASSUME GroupPages = 1, PagesGood, NEW q, NEW S, NEW s \in Status,
           \A i \in Page : Step(page[i], q[i], Base(i)),
           \A i \in Page \ S : Lets(page[i]) => Lets(q[i])
    PROVE  Goes(Noted(Restated(q, S, s), S), Enforced(Restated(q, S, s), S))
  <1> DEFINE r == Restated(q, S, s)
  <1>1. \A i \in Page : r[i] = IF i \in S THEN note_status(epoch_note_status_change(q[i], s), s)
                                          ELSE q[i]
    BY DEF Restated, On
  <1> HIDE DEF r
  <1>2. ASSUME NEW i \in Page
        PROVE  Step(page[i], r[i], Base(i)) /\ (i \notin S => r[i] = q[i])
    <2> DEFINE n == epoch_note_status_change(q[i], s)
    <2>1. Sound(q[i]) /\ Step(page[i], q[i], Base(i))
      BY DEF Step
    <2>2. Sound(n) /\ Alike(q[i], n)
      BY <2>1, EpochNoteStep
    <2> HIDE DEF n
    <2>3. Sound(note_status(n, s)) /\ Alike(n, note_status(n, s))
      BY <2>2, NoteStatusStep
    <2>4. Step(page[i], note_status(n, s), Base(i))
      BY <2>1, <2>2, <2>3, AlikeStep, StepTwice
    <2> QED  BY <2>1, <2>4, <1>1 DEF n
  <1> QED  BY <1>2, ToldGood DEF r

-----------------------------------------------------------------------------
(* The guest *)

\* What a use of the block offers: pages, values, statuses and stretches of pages.
LEMMA UseTypes ==
    ASSUME use \in Uses
    PROVE  /\ use.pages \subseteq Page /\ use.values \subseteq Value
           /\ use.asks \subseteq Status
           /\ \A S \in Stretch : S \subseteq Page /\ First(S) \in S
  <1>1. use.pages \subseteq Page /\ use.values \subseteq Value /\ use.asks \subseteq Status
    BY UsesAssumption
  <1>2. ASSUME NEW S \in Stretch
        PROVE  S \subseteq Page /\ First(S) \in S
    <2>1. PICK a \in use.pages, b \in use.pages : S = a .. b
      BY DEF Stretch
    <2>2. S \subseteq use.pages /\ S # {}
      BY DEF Stretch
    <2>3. a \in Nat /\ b \in Nat
      BY <1>1, PagesAssumption DEF Page
    <2>4. a \in S /\ \A k \in S : a <= k
      BY <2>1, <2>2, <2>3
    <2>5. First(S) \in S
      BY <2>4 DEF First
    <2> QED  BY <1>1, <2>2, <2>5
  <1> QED  BY <1>1, <1>2

\* A page that may be written without a fault is dirty and held by no plan.
LEMMA LetsDirty ==
    ASSUME NEW p, Sound(p), Lets(p)
    PROVE  p.dirty /\ p.plan_hold = 0
  BY DEF Lets, mb_page_native_prot, Sound, MapsAgree, status_prot, PageRecord, Status

\* one page of the block changes, and the OS is told nothing
LEMMA OneGood ==
    ASSUME PagesGood, NEW i \in Page, NEW q, Step(page[i], q, Base(i)),
           "w" \in os[i] => Lets(q)
    PROVE  Goes([page EXCEPT ![i] = q], os)
  <1> DEFINE r == [page EXCEPT ![i] = q]
  <1>1. PageGood(q, os[i], Base(i), sealed) /\ q.invisible = page[i].invisible
    BY StepGood DEF PagesGood
  <1>2. r \in [Page -> PageRecord]
    BY <1>1 DEF PagesGood, PageGood, Sound
  <1>3. \A k \in Page : r[k] = IF k = i THEN q ELSE page[k]
    BY DEF PagesGood
  <1> HIDE DEF r
  <1> QED  BY <1>1, <1>2, <1>3 DEF Goes, PagesGood, r

\* A write the OS lets through.
LEMMA WriteGood ==
    ASSUME GroupPages = 1, PagesGood, NEW i \in Page, NEW v \in Value, guest_write(i, v)
    PROVE  Goes(page', os')
  <1> DEFINE p == page[i]
             q == [p EXCEPT !.bytes = v]
  <1>1. page' = [page EXCEPT ![i] = q] /\ os' = os
    BY DEF guest_write
  <1>2. Sound(p) /\ Lets(p)
    BY OneGroup DEF guest_write, PagesGood, PageGood
  <1> HIDE DEF p
  <1>3. p.dirty
    BY <1>2, LetsDirty
  <1>4. Step(p, q, Base(i)) /\ Lets(q)
    BY <1>2, <1>3, OverwrittenStep
  <1> HIDE DEF q
  <1> QED  BY <1>1, <1>4, OneGood DEF p

\* A fault releases the page it hit alone.
LEMMA ReleasedOne ==
    ASSUME GroupPages = 1, NEW i \in Page, tracked_status(page[i].status)
    PROVE  Released(i) = {i}
  BY OneGroup DEF Released

\* A write fault, taken or refused.
LEMMA TripGood ==
    ASSUME GroupPages = 1, PagesGood, NEW i \in Page, trip(i) \/ trip_refused(i)
    PROVE  Goes(page', os')
  <1> DEFINE p == page[i]
             t == Tripped(p)
             n == mb_block_note_unheld(t)
  <1>1. tracked_status(p.status) /\ "w" \notin os[i]
    BY OneGroup DEF trip, trip_refused
  <1>2. Released(i) = {i}
    BY <1>1, ReleasedOne
  <1>3. PageGood(p, os[i], Base(i), sealed) /\ Sound(p)
    BY DEF PagesGood, PageGood
  <1>4. /\ Step(p, t, Base(i)) /\ Step(p, n, Base(i))
        /\ Lets(t) => Lets(n)
    BY <1>3, TrippedStep
  <1>5. CASE trip(i)
    <2> DEFINE let == On(page, {i}, Tripped)
    <2>1. os' = Enforced(let, {i}) /\ page' = On(let, {i}, mb_block_note_unheld)
      BY <1>2, <1>5 DEF trip
    <2>2. let[i] = t /\ \A k \in Page \ {i} : let[k] = page[k]
      BY DEF On
    <2> HIDE DEF let
    <2>3. page' = [k \in Page |-> IF k = i THEN n ELSE page[k]]
      BY <2>1, <2>2 DEF On
    <2> HIDE DEF t, n, p
    <2>4. "w" \in os'[i] => Lets(n)
      BY <2>1, <2>2, <1>4, EnforcedOne
    <2>5. \A k \in Page \ {i} : "w" \in os'[k] => Lets(page[k])
      <3> SUFFICES ASSUME NEW k \in Page \ {i}, "w" \in os'[k] PROVE Lets(page[k])
        OBVIOUS
      <3>1. Lets(let[k]) \/ "w" \in os[k]
        BY <2>1, EnforcedOne
      <3> QED  BY <3>1, <2>2 DEF PagesGood, PageGood
    <2>6. PageGood(n, os'[i], Base(i), sealed) /\ n.invisible = p.invisible
      BY <1>3, <1>4, <2>4, StepGood
    <2>7. \A k \in Page \ {i} : PageGood(page[k], os'[k], Base(k), sealed)
      BY <2>5 DEF PagesGood, PageGood
    <2>8. page' \in [Page -> PageRecord]
      BY <2>3, <2>6 DEF PageGood, Sound, PagesGood
    <2> QED  BY <2>3, <2>6, <2>7, <2>8 DEF Goes, p
  <1>6. CASE trip_refused(i)
    <2>1. os' = os /\ page' = [k \in Page |-> IF k = i THEN t ELSE page[k]]
      BY <1>2, <1>6 DEF trip_refused, On
    <2> HIDE DEF t, p
    <2>2. PageGood(t, os[i], Base(i), sealed) /\ t.invisible = p.invisible
      BY <1>1, <1>3, <1>4, StepGood
    <2>3. page' \in [Page -> PageRecord]
      BY <2>1, <2>2 DEF PageGood, Sound, PagesGood
    <2> QED  BY <2>1, <2>2, <2>3 DEF Goes, PagesGood, p
  <1> QED  BY <1>5, <1>6

\* A page that is left alone.
LEMMA SelfStep ==
    ASSUME PagesGood, NEW i \in Page
    PROVE  Sound(page[i]) /\ Step(page[i], page[i], Base(i))
  BY DEF PagesGood, PageGood, Step

\* The pages of a stretch given back, the others left alone.
LEMMA BackStep ==
    ASSUME PagesGood, NEW S, NEW i \in Page
    PROVE  /\ Step(page[i], On(page, S, GivenBack)[i], Base(i))
           /\ i \notin S => On(page, S, GivenBack)[i] = page[i]
  BY SelfStep, GivenBackStep DEF On

\* mmap, mmap_fixed and mprotect.
LEMMA MapGood ==
    ASSUME GroupPages = 1, PagesGood, use \in Uses,
           NEW S \in Stretch, NEW s \in use.asks, NEW z \in BOOLEAN,
           mmap(S, s) \/ mmap_fixed(S, s, z) \/ mprotect(S, s)
    PROVE  Goes(page', os')
  <1>1. s \in Status
    BY UseTypes
  <1>2. \A i \in Page : Step(page[i], page[i], Base(i))
    BY SelfStep
  <1>3. CASE mmap(S, s) \/ mprotect(S, s)
    <2>1. set_protections(page, S, s)
      BY <1>3 DEF mmap, mprotect
    <2> QED  BY <2>1, <1>1, <1>2, ProtectGood DEF set_protections, refresh_range
  <1>4. CASE mmap_fixed(S, s, z)
    <2> DEFINE over == IF z THEN {i \in S : page[i].status # "FREE"} ELSE {}
               g == On(page, over, GivenBack)
               q == Noted(g, over)
    <2>1. set_protections(q, S, s)
      BY <1>4 DEF mmap_fixed
    <2>2. over \subseteq S
      OBVIOUS
    <2> HIDE DEF over
    <2>3. ASSUME NEW i \in Page
          PROVE  Step(page[i], q[i], Base(i)) /\ (i \notin S => q[i] = page[i])
      <3>1. Step(page[i], g[i], Base(i)) /\ (i \notin over => g[i] = page[i])
        BY BackStep
      <3> HIDE DEF g
      <3>2. Sound(g[i])
        BY <3>1 DEF Step
      <3>3. Step(page[i], note_prot(g[i]), Base(i))
        BY <3>1, <3>2, NoteProtStep, AlikeStep, StepTwice
      <3>4. q[i] = IF i \in over THEN note_prot(g[i]) ELSE g[i]
        BY DEF Noted, On
      <3> QED  BY <2>2, <3>1, <3>3, <3>4
    <2> HIDE DEF q
    <2> QED  BY <2>1, <2>3, <1>1, ProtectGood DEF set_protections, refresh_range
  <1> QED  BY <1>3, <1>4

\* munmap, madvise_dontneed and mremap in place.
LEMMA UnmapGood ==
    ASSUME GroupPages = 1, PagesGood, use \in Uses,
           NEW S \in Stretch, NEW T \in Stretch,
           munmap(S) \/ madvise_dontneed(S) \/ mremap(S, T)
    PROVE  Goes(page', os')
  <1>1. "FREE" \in Status
    BY DEF Status
  <1>2. \A i \in Page : Step(page[i], page[i], Base(i))
    BY SelfStep
  <1>3. CASE munmap(S)
    <2> DEFINE q == On(page, S, GivenBack)
    <2>1. set_protections(q, S, "FREE")
      BY <1>3 DEF munmap
    <2>2. \A i \in Page : Step(page[i], q[i], Base(i)) /\ (i \notin S => q[i] = page[i])
      BY BackStep
    <2> HIDE DEF q
    <2> QED  BY <2>1, <2>2, <1>1, ProtectGood DEF set_protections, refresh_range
  <1>4. CASE madvise_dontneed(S)
    <2> DEFINE q == On(page, S, GivenBack)
    <2>1. refresh_range(q, S)
      BY <1>4 DEF madvise_dontneed
    <2>2. \A i \in Page : Step(page[i], q[i], Base(i)) /\ (i \notin S => q[i] = page[i])
      BY BackStep
    <2> HIDE DEF q
    <2> QED  BY <2>1, <2>2, ToldGood DEF refresh_range
  <1>5. CASE mremap(S, T)
    <2> DEFINE t == page[First(S)].status
    <2>1. set_protections(page, T, t)
      BY <1>5 DEF mremap
    <2>2. t \in Status
      <3>1. page[First(S)] \in PageRecord
        BY UseTypes DEF PagesGood
      <3> QED  BY <3>1 DEF PageRecord
    <2> HIDE DEF t
    <2> QED  BY <2>1, <2>2, <1>2, ProtectGood DEF set_protections, refresh_range
  <1> QED  BY <1>3, <1>4, <1>5

-----------------------------------------------------------------------------
(* The loader, and the seal *)

\* mb_block_copy_from_external over one page.
LEMMA ExternalGood ==
    ASSUME PagesGood, NEW i \in Page, NEW v \in Value, copy_from_external(i, v)
    PROVE  Goes(page', os')
  <1> DEFINE p == page[i]
             a == Captured(p)
             c == set_dirty(a, TRUE)
             e == page_cool(c)
             q == [e EXCEPT !.bytes = v]
  <1>1. page' = [page EXCEPT ![i] = q] /\ os' = os /\ ~sealed
    BY DEF copy_from_external
  <1>2. Sound(p) /\ p.snap_kind # "NONE" /\ ("w" \in os[i] => Lets(p))
    BY <1>1 DEF PagesGood, PageGood
  <1> HIDE DEF p
  <1>3. Sound(a) /\ Alike(p, a) /\ (Lets(p) => Lets(a))
    BY <1>2, CapturedStep
  <1> HIDE DEF a
  <1>4. /\ Sound(c) /\ c.dirty /\ c.bytes = a.bytes /\ c.invisible = a.invisible
        /\ c.snap_kind = a.snap_kind /\ c.snap_data = a.snap_data /\ (Lets(a) => Lets(c))
    BY <1>3, SetDirtyStep
  <1> HIDE DEF c
  <1>5. Sound(e) /\ Alike(c, e) /\ (Lets(c) => Lets(e))
    BY <1>4, CoolStep
  <1> HIDE DEF e
  <1>6. Step(p, e, Base(i)) /\ e.dirty
    BY <1>2, <1>3, <1>4, <1>5 DEF Step, Alike, Kept
  <1>7. Step(e, q, Base(i)) /\ (Lets(e) => Lets(q))
    BY <1>5, <1>6, OverwrittenStep
  <1> HIDE DEF q
  <1>8. Step(p, q, Base(i)) /\ ("w" \in os[i] => Lets(q))
    BY <1>2, <1>3, <1>4, <1>5, <1>6, <1>7, StepTwice
  <1> QED  BY <1>1, <1>8, OneGood DEF p

\* Marking pages invisible: they leave the baseline, the others keep theirs.
LEMMA InvisibleGood ==
    ASSUME GroupPages = 1, PagesGood, NEW S, mark_invisible(S)
    PROVE  /\ page' \in [Page -> PageRecord]
           /\ \A i \in Page : PageGood(page'[i], os'[i], Base(i), sealed)
  <1> DEFINE F(p) == [set_dirty(p, TRUE) EXCEPT !.invisible = TRUE]
             q == [i \in Page |-> IF i \in S THEN F(page[i]) ELSE page[i]]
  <1>1. page' = Noted(q, S) /\ os' = Enforced(q, S) /\ ~sealed
    BY DEF mark_invisible, refresh_range, On
  <1>2. page' = [i \in Page |-> IF i \in S THEN note_prot(q[i]) ELSE q[i]]
    BY <1>1 DEF Noted, On
  <1>3. ASSUME NEW i \in Page
        PROVE  PageGood(page'[i], os'[i], Base(i), sealed)
    <2> DEFINE p == page[i]
    <2>1. PageGood(p, os[i], Base(i), sealed) /\ Sound(p) /\ p.snap_kind # "NONE"
      BY <1>1 DEF PagesGood, PageGood
    <2>2. CASE i \in S
      <3> DEFINE c == set_dirty(p, TRUE)
                 f == [c EXCEPT !.invisible = TRUE]
      <3>1. Sound(c) /\ c.snap_kind # "NONE"
        BY <2>1, SetDirtyStep
      <3> HIDE DEF c
      <3>2. /\ f \in PageRecord /\ f.status = c.status /\ f.dirty = c.dirty
            /\ f.invisible /\ f.snap_kind = c.snap_kind /\ f.hot = c.hot
            /\ f.held = c.held /\ f.unheld = c.unheld
        BY <3>1 DEF Sound, PageRecord
      <3> HIDE DEF f
      <3>3. Sound(f)
        BY <3>1, <3>2 DEF Sound, MapsAgree
      <3>4. Sound(note_prot(f)) /\ Alike(f, note_prot(f)) /\ (Lets(f) => Lets(note_prot(f)))
        BY <3>3, NoteProtStep DEF Lets
      <3>5. q[i] = f /\ page'[i] = note_prot(f)
        BY <2>2, <1>2 DEF f, c
      <3> HIDE DEF q
      <3>6. "w" \in os'[i] => Lets(f)
        BY <2>2, <1>1, <3>5, EnforcedOne
      <3> QED  BY <3>1, <3>2, <3>4, <3>5, <3>6 DEF PageGood, Alike
    <2>3. CASE i \notin S
      <3>1. q[i] = p /\ page'[i] = p
        BY <2>3, <1>2
      <3> HIDE DEF q, p
      <3>2. "w" \in os'[i] => Lets(p)
        BY <1>1, <2>1, <3>1, EnforcedOne DEF PageGood
      <3> QED  BY <2>1, <3>1, <3>2 DEF PageGood
    <2> QED  BY <2>2, <2>3
  <1>4. page' \in [Page -> PageRecord]
    <2>1. page' = [i \in Page |-> page'[i]]
      BY <1>2
    <2> QED  BY <2>1, <1>3 DEF PageGood, Sound
  <1> QED  BY <1>3, <1>4

\* Sealing one page: its bytes become the baseline.
LEMMA SealedStep ==
    ASSUME NEW p, NEW o, PageGood(p, o, 0, FALSE)
    PROVE  LET q == SealedPage(EpochForgotten(p))
           IN  /\ Sound(q) /\ q.invisible = p.invisible
               /\ ~p.invisible => Kept(q, p.bytes)
  <1> DEFINE e == EpochForgotten(p)
             d == set_dirty(e, FALSE)
             k == IF e.bytes = 0 THEN "ZERO" ELSE "NONE"
             f == [d EXCEPT !.snap_kind = k, !.snap_data = 0]
  <1>1. Sound(e) /\ Alike(p, e)
    BY ForgottenStep DEF PageGood
  <1>2. 0 \in Value
    BY UsesAssumption
  <1> HIDE DEF e
  <1>3. CASE e.dirty /\ ~e.invisible
    <2>1. Sound(d) /\ ~d.dirty /\ d.bytes = e.bytes /\ d.invisible = e.invisible
      BY <1>1, SetDirtyStep
    <2>2. k \in {"ZERO", "NONE"}
      OBVIOUS
    <2> HIDE DEF d, k
    <2>3. /\ f \in PageRecord /\ f.status = d.status /\ f.dirty = d.dirty
          /\ f.bytes = d.bytes /\ f.invisible = d.invisible /\ f.snap_kind = k
          /\ f.hot = d.hot /\ f.held = d.held /\ f.unheld = d.unheld
      BY <1>2, <2>1, <2>2 DEF Sound, PageRecord
    <2> HIDE DEF f
    <2>4. Sound(f)
      BY <2>1, <2>3 DEF Sound, MapsAgree
    <2>5. Kept(f, e.bytes)
      BY <2>1, <2>3 DEF Kept, k
    <2>6. SealedPage(e) = f
      BY <1>3 DEF SealedPage, f, d, k
    <2> QED  BY <1>1, <2>1, <2>3, <2>4, <2>5, <2>6 DEF e, Alike
  <1>4. CASE ~(e.dirty /\ ~e.invisible)
    <2>1. SealedPage(e) = e
      BY <1>4 DEF SealedPage
    <2>2. ~p.invisible => Kept(e, p.bytes)
      BY <1>1, <1>4 DEF PageGood, Alike, Kept
    <2> QED  BY <1>1, <2>1, <2>2 DEF e, Alike
  <1> QED  BY <1>3, <1>4

\* Sealing the block.
LEMMA SealGood ==
    ASSUME GroupPages = 1, PagesGood, seal
    PROVE  /\ page' \in [Page -> PageRecord]
           /\ \A i \in Page : /\ PageGood(page'[i], os'[i], page[i].bytes, TRUE)
                              /\ page'[i].invisible = page[i].invisible
  <1> DEFINE q == [i \in Page |-> SealedPage(EpochForgotten(page[i]))]
  <1>1. page' = Noted(q, Page) /\ os' = Enforced(q, Page) /\ ~sealed
    BY DEF seal, refresh_range, On
  <1>2. page' = [i \in Page |-> note_prot(q[i])]
    BY <1>1 DEF Noted, On
  <1>3. ASSUME NEW i \in Page
        PROVE  /\ PageGood(page'[i], os'[i], page[i].bytes, TRUE)
               /\ page'[i].invisible = page[i].invisible
    <2>1. PageGood(page[i], os[i], 0, FALSE)
      BY <1>1 DEF PagesGood, PageGood, Base
    <2>2. /\ Sound(q[i]) /\ q[i].invisible = page[i].invisible
          /\ ~page[i].invisible => Kept(q[i], page[i].bytes)
      BY <2>1, SealedStep
    <2> HIDE DEF q
    <2>3. /\ Sound(note_prot(q[i])) /\ Alike(q[i], note_prot(q[i]))
          /\ Lets(q[i]) => Lets(note_prot(q[i]))
      BY <2>2, NoteProtStep DEF Lets
    <2>4. "w" \in os'[i] => Lets(q[i])
      BY <1>1, EnforcedOne
    <2> QED  BY <1>2, <2>2, <2>3, <2>4 DEF PageGood, Alike, Kept
  <1>4. page' \in [Page -> PageRecord]
    <2>1. page' = [i \in Page |-> page'[i]]
      BY <1>2
    <2> QED  BY <2>1, <1>3 DEF PageGood, Sound
  <1> QED  BY <1>3, <1>4

-----------------------------------------------------------------------------
(* Epochs and deltas *)

\* mb_block_epoch_begin.
LEMMA BeginGood ==
    ASSUME GroupPages = 1, PagesGood, epoch_begin
    PROVE  Goes(page', os')
  <1> DEFINE q == On(page, Page, EpochOpened)
             S == {i \in Page : page[i].unheld}
  <1>1. page' = Noted(q, S) /\ os' = Enforced(q, S)
    BY DEF epoch_begin, refresh_range
  <1>2. ASSUME NEW i \in Page
        PROVE  /\ Step(page[i], q[i], Base(i))
               /\ i \notin S => (Lets(page[i]) => Lets(q[i]))
    <2>1. q[i] = EpochOpened(page[i])
      BY DEF On
    <2>2. /\ Sound(q[i]) /\ Alike(page[i], q[i])
          /\ Lets(page[i]) /\ ~page[i].unheld => Lets(q[i])
      BY <2>1, SelfStep, OpenedStep
    <2> HIDE DEF q
    <2> QED  BY <2>2, AlikeStep
  <1> HIDE DEF q, S
  <1> QED  BY <1>1, <1>2, ToldGood

\* What mb_block_delta_save does to the pages before it closes the epoch.
LEMMA HeatGood ==
    ASSUME PagesGood
    PROVE  LET seen == On(page, Page, get_hot_epoch)
           IN  /\ Goes(heat_written_pages(seen), os)
               /\ \A i \in Page : Sound(seen[i]) /\ Alike(page[i], seen[i])
  <1> DEFINE seen == On(page, Page, get_hot_epoch)
             warm == On(seen, Page, Warmed)
             earned == {i \in Page : /\ warm[i].epoch_dirty /\ ~warm[i].hot
                                     /\ warm[i].heat >= HOT_AFTER
                                     /\ ~warm[i].invisible /\ warm[i].dirty
                                     /\ warm[i].status \in {"RW", "RWX"} /\ warm[i].unheld}
             nhot(i) == Cardinality({k \in Page : warm[k].hot})
                        + Cardinality({k \in earned : k < i})
             chosen == {i \in earned : nhot(i) < HOT_MOST}
             r == On(warm, chosen, page_heat)
  <1>1. ASSUME NEW i \in Page
        PROVE  Sound(seen[i]) /\ Alike(page[i], seen[i]) /\ (Lets(page[i]) => Lets(seen[i]))
    <2>1. seen[i] = get_hot_epoch(page[i])
      BY DEF On
    <2> HIDE DEF seen
    <2> QED  BY <2>1, SelfStep, HotEpochStep
  <1> HIDE DEF seen
  <1>2. ASSUME NEW i \in Page
        PROVE  Sound(warm[i]) /\ Alike(page[i], warm[i]) /\ (Lets(page[i]) => Lets(warm[i]))
    <2>1. warm[i] = Warmed(seen[i])
      BY DEF On
    <2> HIDE DEF warm
    <2>2. Sound(warm[i]) /\ Alike(seen[i], warm[i]) /\ (Lets(seen[i]) => Lets(warm[i]))
      BY <2>1, <1>1, WarmedStep
    <2> QED  BY <2>2, <1>1 DEF Alike
  <1>3. \A i \in chosen : /\ i \in Page /\ warm[i].dirty /\ warm[i].unheld
                          /\ warm[i].status \in {"RW", "RWX"}
    OBVIOUS
  <1>4. heat_written_pages(seen) = r
    BY DEF heat_written_pages
  <1> HIDE DEF warm, chosen
  <1>5. r = [i \in Page |-> IF i \in chosen THEN page_heat(warm[i]) ELSE warm[i]]
    BY DEF On
  <1> HIDE DEF r
  <1>6. ASSUME NEW i \in Page
        PROVE  /\ PageGood(r[i], os[i], Base(i), sealed)
               /\ r[i].invisible = page[i].invisible
    <2>1. /\ Sound(r[i]) /\ Alike(page[i], r[i]) /\ (Lets(page[i]) => Lets(r[i]))
      <3>1. CASE i \in chosen
        <4>1. /\ Sound(page_heat(warm[i])) /\ Alike(warm[i], page_heat(warm[i]))
              /\ Lets(warm[i]) => Lets(page_heat(warm[i]))
          BY <3>1, <1>2, <1>3, HeatStep
        <4> QED  BY <3>1, <4>1, <1>2, <1>5 DEF Alike
      <3>2. CASE i \notin chosen
        BY <3>2, <1>2, <1>5
      <3> QED  BY <3>1, <3>2
    <2>2. PageGood(page[i], os[i], Base(i), sealed)
      BY DEF PagesGood
    <2>3. Step(page[i], r[i], Base(i))
      BY <2>1, AlikeStep
    <2>4. "w" \in os[i] => Lets(r[i])
      BY <2>1, <2>2 DEF PageGood
    <2> QED  BY <2>2, <2>3, <2>4, StepGood
  <1>7. r \in [Page -> PageRecord]
    BY <1>5, <1>6 DEF PageGood, Sound
  <1> QED  BY <1>1, <1>4, <1>6, <1>7 DEF Goes, seen

\* Closing the epoch, after whatever else the operation did.
LEMMA ForgetGood ==
    ASSUME NEW r, NEW o, Goes(r, o)
    PROVE  Goes(On(r, Page, EpochForgotten), o)
  <1> DEFINE q == On(r, Page, EpochForgotten)
  <1>1. q = [i \in Page |-> EpochForgotten(r[i])]
    BY DEF On
  <1> HIDE DEF q
  <1>2. ASSUME NEW i \in Page
        PROVE  PageGood(q[i], o[i], Base(i), sealed) /\ q[i].invisible = page[i].invisible
    <2>1. PageGood(r[i], o[i], Base(i), sealed) /\ Sound(r[i]) /\ r[i].invisible = page[i].invisible
      BY DEF Goes, PageGood
    <2>2. Sound(q[i]) /\ Alike(r[i], q[i]) /\ (Lets(r[i]) => Lets(q[i]))
      BY <2>1, <1>1, ForgottenStep DEF Lets
    <2> QED  BY <2>1, <2>2 DEF PageGood, Alike, Kept
  <1>3. q \in [Page -> PageRecord]
    BY <1>1, <1>2 DEF PageGood, Sound
  <1> QED  BY <1>2, <1>3 DEF Goes, q

\* a delta's entries: of pages, and clean only where they are the baseline
DeltaGood ==
    delta # << >> =>
        /\ sealed
        /\ \A i \in Page \cap DOMAIN delta[1].status : delta[1].status[i] \in Status
        /\ \A i \in Page \cap DOMAIN delta[1].data :
               /\ delta[1].data[i].bytes \in Value
               /\ delta[1].data[i].clean \in BOOLEAN
               /\ delta[1].data[i].clean /\ ~page[i].invisible
                      => delta[1].data[i].bytes = baseline[i]

\* The statuses of a delta given to a page, before the OS is told and after.
LEMMA ShapedStep ==
    ASSUME PagesGood, DeltaGood, delta # << >>, NEW A, A \subseteq DOMAIN delta[1].status,
           NEW i \in Page
    PROVE  LET q == Shaped(A)[i]
               t == RefreshChanged(page, Shaped(A))[i]
           IN  /\ Sound(q) /\ Sound(t) /\ Step(page[i], t, Base(i))
               /\ t.invisible = page[i].invisible
               /\ i \notin Changed(page, Shaped(A)) => t = q
  <1> DEFINE q == Shaped(A)[i]
             t == RefreshChanged(page, Shaped(A))[i]
  <1>1. q = IF i \in A THEN note_status(page[i], delta[1].status[i]) ELSE page[i]
    BY DEF Shaped
  <1>2. t = IF i \in Changed(page, Shaped(A)) THEN note_prot(q) ELSE q
    BY DEF RefreshChanged, Noted, On
  <1> HIDE DEF q, t
  <1>3. i \in A => delta[1].status[i] \in Status
    BY DEF DeltaGood
  <1>4. Sound(q) /\ Alike(page[i], q)
    BY <1>1, <1>3, SelfStep, NoteStatusStep DEF Alike
  <1>5. Sound(t) /\ Alike(page[i], t)
    BY <1>2, <1>4, NoteProtStep DEF Alike
  <1>6. Step(page[i], t, Base(i))
    BY <1>5, AlikeStep
  <1> QED  BY <1>2, <1>4, <1>5, <1>6 DEF q, t, Alike

\* A delta taken, whole or in part, whatever the bytes that were read.
LEMMA TakenGood ==
    ASSUME GroupPages = 1, PagesGood, DeltaGood, delta # << >>,
           NEW A, A \subseteq DOMAIN delta[1].status, NEW r,
           \A i \in Page : Step(page[i], r[i], Base(i)), DeltaTaken(A, r)
    PROVE  Goes(page', os')
  <1> DEFINE q == Shaped(A)
             t == RefreshChanged(page, q)
             S == Changed(page, q) \cup Changed(t, r)
  <1>1. /\ page' = On(RefreshChanged(t, r), Page, EpochForgotten)
        /\ os' = Enforced(r, S)
    BY DEF DeltaTaken
  <1>2. RefreshChanged(t, r) = Noted(r, Changed(t, r))
    BY DEF RefreshChanged
  <1>3. ASSUME NEW i \in Page \ S
        PROVE  Lets(page[i]) => Lets(r[i])
    <2>1. mb_page_native_prot(q[i]) = mb_page_native_prot(page[i])
      BY DEF Changed
    <2>2. t[i] = q[i]
      BY ShapedStep
    <2>3. mb_page_native_prot(r[i]) = mb_page_native_prot(t[i])
      BY DEF Changed
    <2> QED  BY <2>1, <2>2, <2>3 DEF Lets
  <1> HIDE DEF q, t, S
  <1>4. Goes(Noted(r, Changed(t, r)), Enforced(r, S))
    BY <1>3, ToldGood
  <1> QED  BY <1>1, <1>2, <1>4, ForgetGood

\* The pages of a delta filled in.
LEMMA FilledStep ==
    ASSUME PagesGood, DeltaGood, delta # << >>, NEW A, A \subseteq DOMAIN delta[1].status,
           NEW D, D \subseteq DOMAIN delta[1].data, NEW i \in Page
    PROVE  Step(page[i], Filled(RefreshChanged(page, Shaped(A)), D)[i], Base(i))
  <1> DEFINE t == RefreshChanged(page, Shaped(A))
             f == Filled(t, D)[i]
  <1>1. Sound(t[i]) /\ Step(page[i], t[i], Base(i)) /\ t[i].invisible = page[i].invisible
    BY ShapedStep
  <1> HIDE DEF t
  <1>2. f = IF i \in D THEN DeltaPage(t[i], delta[1].data[i]) ELSE t[i]
    BY DEF Filled
  <1>3. i \in D => /\ delta[1].data[i].bytes \in Value
                   /\ delta[1].data[i].clean \in BOOLEAN
                   /\ delta[1].data[i].clean /\ ~t[i].invisible
                          => delta[1].data[i].bytes = Base(i)
    BY <1>1 DEF DeltaGood, Base
  <1>4. i \in D => Step(t[i], DeltaPage(t[i], delta[1].data[i]), Base(i))
    BY <1>1, <1>3, DeltaPageStep
  <1> HIDE DEF f
  <1>5. Step(page[i], f, Base(i))
    BY <1>1, <1>2, <1>4, StepTwice
  <1> QED  BY <1>5 DEF f, t

\* mb_block_delta_apply of a whole delta.
LEMMA ApplyWholeGood ==
    ASSUME GroupPages = 1, PagesGood, DeltaGood, delta_apply
    PROVE  Goes(page', os')
  <1> DEFINE A == DOMAIN delta[1].status
             D == DOMAIN delta[1].data
             r == Filled(RefreshChanged(page, Shaped(A)), D)
  <1>1. delta # << >> /\ DeltaTaken(A, r)
    BY DEF delta_apply
  <1>2. \A i \in Page : Step(page[i], r[i], Base(i))
    BY <1>1, FilledStep
  <1> HIDE DEF r
  <1> QED  BY <1>1, <1>2, TakenGood

\* mb_block_delta_apply of a delta that ends too early.
LEMMA ApplyCutGood ==
    ASSUME GroupPages = 1, PagesGood, DeltaGood, NEW d \in Page, NEW v \in Value,
           delta_apply_cut_status(d) \/ delta_apply_cut(d, v)
    PROVE  Goes(page', os')
  <1>1. CASE delta_apply_cut_status(d)
    <2> DEFINE A == {i \in DOMAIN delta[1].status : i < d}
               r == RefreshChanged(page, Shaped(A))
    <2>1. delta # << >> /\ DeltaTaken(A, r)
      BY <1>1 DEF delta_apply_cut_status
    <2>2. A \subseteq DOMAIN delta[1].status
      OBVIOUS
    <2> HIDE DEF A
    <2>3. \A i \in Page : Step(page[i], r[i], Base(i))
      BY <2>1, <2>2, ShapedStep
    <2> HIDE DEF r
    <2> QED  BY <2>1, <2>2, <2>3, TakenGood
  <1>2. CASE delta_apply_cut(d, v)
    <2> DEFINE A == DOMAIN delta[1].status
               D == {i \in DOMAIN delta[1].data : i < d}
               q == Filled(RefreshChanged(page, Shaped(A)), D)
               r == [q EXCEPT ![d] = CutPage(q[d], v)]
    <2>1. delta # << >> /\ DeltaTaken(A, r)
      BY <1>2 DEF delta_apply_cut
    <2>2. D \subseteq DOMAIN delta[1].data
      OBVIOUS
    <2> HIDE DEF D
    <2>3. \A i \in Page : Step(page[i], q[i], Base(i))
      BY <2>1, <2>2, FilledStep
    <2>4. DOMAIN q = Page
      BY DEF Filled
    <2> HIDE DEF q
    <2>5. Step(page[d], CutPage(q[d], v), Base(d))
      <3>1. Sound(q[d]) /\ Step(page[d], q[d], Base(d))
        BY <2>3 DEF Step
      <3> QED  BY <3>1, CutStep, StepTwice
    <2>6. \A i \in Page : r[i] = IF i = d THEN CutPage(q[d], v) ELSE q[i]
      BY <2>4
    <2> HIDE DEF r
    <2>7. \A i \in Page : Step(page[i], r[i], Base(i))
      BY <2>3, <2>5, <2>6
    <2> QED  BY <2>1, <2>7, TakenGood
  <1> QED  BY <1>1, <1>2

-----------------------------------------------------------------------------
(* States *)

ImageGood ==
    image # << >> =>
        /\ \A i \in Page : image[1].status[i] \in Status /\ image[1].dirty[i] \in BOOLEAN
        /\ \A i \in Page \cap DOMAIN image[1].data : image[1].data[i] \in Value

\* mb_block_state_plan.
LEMMA PlanGood ==
    ASSUME GroupPages = 1, PagesGood, state_plan
    PROVE  Goes(page', os')
  <1> DEFINE S == {i \in StatePages(page) : tracked_status(page[i].status)}
             q == On(page, S, PlanHeld)
  <1>1. page' = Noted(q, S) /\ os' = Enforced(q, S)
    BY DEF state_plan, refresh_range
  <1> HIDE DEF S
  <1>2. \A i \in Page : q[i] = IF i \in S THEN PlanHeld(page[i]) ELSE page[i]
    BY DEF On
  <1> HIDE DEF q
  <1>3. page' = [i \in Page |-> IF i \in S THEN note_prot(q[i]) ELSE q[i]]
    BY <1>1 DEF Noted, On
  <1>4. ASSUME NEW i \in Page
        PROVE  /\ PageGood(page'[i], os'[i], Base(i), sealed)
               /\ page'[i].invisible = page[i].invisible
    <2>1. PageGood(page[i], os[i], Base(i), sealed) /\ Sound(page[i])
      BY DEF PagesGood, PageGood
    <2>2. "w" \in os'[i] => Lets(q[i]) \/ ("w" \in os[i] /\ i \notin S)
      BY <1>1, EnforcedOne
    <2>3. CASE i \in S
      <3>1. page'[i] = note_prot(PlanHeld(page[i]))
        BY <2>3, <1>2, <1>3
      <3>2. Sound(page'[i]) /\ Alike(page[i], page'[i]) /\ ~Lets(q[i])
        BY <2>1, <2>3, <1>2, <3>1, PlanHeldStep
      <3>3. Step(page[i], page'[i], Base(i))
        BY <3>2, AlikeStep
      <3> QED  BY <2>1, <2>2, <2>3, <3>2, <3>3, StepGood
    <2>4. CASE i \notin S
      BY <2>1, <2>2, <2>4, <1>2, <1>3 DEF PageGood
    <2> QED  BY <2>3, <2>4
  <1>5. page' \in [Page -> PageRecord]
    BY <1>3, <1>4 DEF PageGood, Sound
  <1> QED  BY <1>4, <1>5 DEF Goes

\* The copying thread takes a page.
LEMMA TakeGood ==
    ASSUME PagesGood, NEW i \in Page, plan_take(i)
    PROVE  Goes(page', os')
  <1> DEFINE p == page[i]
             q == [p EXCEPT !.plan_hold = 2]
  <1>1. page' = [page EXCEPT ![i] = q] /\ os' = os /\ p.plan_hold = 1
    BY DEF plan_take
  <1>2. Sound(p) /\ ("w" \in os[i] => Lets(p))
    BY DEF PagesGood, PageGood
  <1> HIDE DEF p
  <1>3. /\ q \in PageRecord /\ q.status = p.status /\ q.dirty = p.dirty
        /\ q.bytes = p.bytes /\ q.invisible = p.invisible /\ q.snap_kind = p.snap_kind
        /\ q.snap_data = p.snap_data /\ q.hot = p.hot /\ q.held = p.held
        /\ q.unheld = p.unheld
    BY <1>2 DEF Sound, PageRecord
  <1> HIDE DEF q
  <1>4. Sound(q) /\ Alike(p, q)
    BY <1>2, <1>3 DEF Sound, MapsAgree, Alike
  <1>5. "w" \notin os[i]
    BY <1>1, <1>2, LetsDirty
  <1>6. Step(p, q, Base(i))
    BY <1>4, AlikeStep
  <1> QED  BY <1>1, <1>5, <1>6, OneGood DEF p

\* The copying thread copies the page it took and lets it go.
LEMMA CopyGood ==
    ASSUME PagesGood, plan_copy_page
    PROVE  Goes(page', os')
  <1> DEFINE i == copier[1]
  <1>1. page' = [page EXCEPT ![i].plan_hold = 0] /\ os' = os
    BY DEF plan_copy_page
  <1> HIDE DEF i
  <1>2. CASE i \in Page
    <2>1. page' = [page EXCEPT ![i] = Captured(page[i])]
      BY <1>1 DEF Captured
    <2>2. Sound(page[i]) /\ ("w" \in os[i] => Lets(page[i]))
      BY <1>2 DEF PagesGood, PageGood
    <2>3. /\ Step(page[i], Captured(page[i]), Base(i))
          /\ "w" \in os[i] => Lets(Captured(page[i]))
      BY <2>2, CapturedStep, AlikeStep
    <2> DEFINE q == Captured(page[i])
    <2>4. page' = [page EXCEPT ![i] = q] /\ Step(page[i], q, Base(i)) /\ ("w" \in os[i] => Lets(q))
      BY <2>1, <2>3
    <2> HIDE DEF q
    <2>5. Goes([page EXCEPT ![i] = q], os)
      BY <1>2, <2>4, OneGood
    <2> QED  BY <1>1, <2>4, <2>5
  <1>3. CASE i \notin Page
    <2>1. page' = page
      BY <1>1, <1>3 DEF PagesGood
    <2> QED  BY <1>1, <2>1 DEF Goes, PagesGood
  <1> QED  BY <1>2, <1>3

\* What mb_block_plan_finish does to one page.
LEMMA FinishedStep ==
    ASSUME PagesGood, NEW i \in Page
    PROVE  /\ Sound(PlanFinished[i]) /\ Alike(page[i], PlanFinished[i])
           /\ Lets(page[i]) => Lets(PlanFinished[i])
  <1>1. PlanFinished[i] = IF i \in DOMAIN plan.dest THEN Captured(page[i]) ELSE page[i]
    BY DEF PlanFinished, On
  <1>2. Sound(page[i])
    BY SelfStep
  <1> QED  BY <1>1, <1>2, CapturedStep DEF Alike

\* mb_block_plan_finish.
LEMMA FinishGood ==
    ASSUME GroupPages = 1, PagesGood, plan_finish
    PROVE  Goes(page', os')
  <1>1. \A i \in Page : /\ Step(page[i], PlanFinished[i], Base(i))
                        /\ Lets(page[i]) => Lets(PlanFinished[i])
    BY FinishedStep, AlikeStep
  <1> QED  BY <1>1, ToldGood DEF plan_finish, refresh_range

\* A page of the machine a load starts from: plan finished and epoch closed.
LEMMA LoadBaseStep ==
    ASSUME PagesGood, NEW i \in Page
    PROVE  /\ Sound(LoadBase[i]) /\ Alike(page[i], LoadBase[i])
           /\ Lets(page[i]) => Lets(LoadBase[i])
  <1> DEFINE f == PlanFinished[i]
             n == IF i \in DOMAIN plan.dest THEN note_prot(f) ELSE f
  <1>1. LoadBase[i] = EpochForgotten(n)
    BY DEF LoadBase, Noted, On
  <1>2. Sound(f) /\ Alike(page[i], f) /\ (Lets(page[i]) => Lets(f))
    BY FinishedStep
  <1> HIDE DEF f
  <1>3. Sound(n) /\ Alike(f, n) /\ (Lets(f) => Lets(n))
    BY <1>2, NoteProtStep DEF Lets, Alike
  <1> HIDE DEF n
  <1>4. /\ Sound(EpochForgotten(n)) /\ Alike(n, EpochForgotten(n))
        /\ Lets(n) => Lets(EpochForgotten(n))
    BY <1>3, ForgottenStep DEF Lets
  <1> QED  BY <1>1, <1>2, <1>3, <1>4 DEF Alike

\* the pages become q over the machine a load starts from
LEMMA OverBaseGood ==
    ASSUME GroupPages = 1, PagesGood, NEW q,
           \A i \in Page : Step(page[i], q[i], Base(i))
    PROVE  Goes(RefreshChanged(LoadBase, q),
                Enforced(q, DOMAIN plan.dest \cup Changed(LoadBase, q)))
  <1> DEFINE S == DOMAIN plan.dest \cup Changed(LoadBase, q)
  <1>1. ASSUME NEW i \in Page \ S
        PROVE  Lets(page[i]) => Lets(q[i])
    <2>1. mb_page_native_prot(q[i]) = mb_page_native_prot(LoadBase[i])
      BY DEF Changed
    <2> QED  BY <2>1, LoadBaseStep DEF Lets
  <1> HIDE DEF S
  <1>2. Goes(Noted(q, Changed(LoadBase, q)), Enforced(q, S))
    BY <1>1, ToldGood
  <1> QED  BY <1>2 DEF RefreshChanged, S

\* A page of a load that has read the first n pages.
LEMMA UptoStep ==
    ASSUME PagesGood, ImageGood, image # << >>, NEW n, NEW i \in Page
    PROVE  /\ Step(page[i], LoadedUpto(n)[i], Base(i))
           /\ ~(i < n) => LoadedUpto(n)[i] = LoadBase[i]
  <1> DEFINE p == LoadBase[i]
             s == image[1].status[i]
             d == image[1].dirty[i]
             v == IF i \in DOMAIN image[1].data THEN image[1].data[i] ELSE 0
  <1>1. LoadedUpto(n)[i] = IF i < n THEN LoadedPage(p, s, d, v) ELSE p
    BY DEF LoadedUpto
  <1>2. s \in Status /\ d \in BOOLEAN /\ v \in Value
    BY UsesAssumption DEF ImageGood
  <1>3. Sound(p) /\ Alike(page[i], p)
    BY LoadBaseStep
  <1>4. Step(page[i], p, Base(i))
    BY <1>3, AlikeStep
  <1>5. ~p.invisible => Kept(p, Base(i))
    BY <1>3, <1>4 DEF PagesGood, PageGood, Step, Alike
  <1> HIDE DEF p, s, d, v
  <1>6. Step(p, LoadedPage(p, s, d, v), Base(i))
    BY <1>2, <1>3, <1>5, LoadedStep
  <1>7. Step(page[i], LoadedPage(p, s, d, v), Base(i))
    BY <1>4, <1>6, StepTwice
  <1> QED  BY <1>1, <1>4, <1>7 DEF p

\* mb_block_load_state of a whole state, and of one it refuses.
LEMMA LoadGood ==
    ASSUME GroupPages = 1, PagesGood, ImageGood, load_state \/ load_refused
    PROVE  Goes(page', os')
  <1>1. CASE load_state
    <2>1. image # << >> /\ Loading(LoadedUpto(NPages))
      BY <1>1 DEF load_state, Loading
    <2>2. \A i \in Page : Step(page[i], LoadedUpto(NPages)[i], Base(i))
      BY <2>1, UptoStep
    <2> QED  BY <2>1, <2>2, OverBaseGood DEF Loading
  <1>2. CASE load_refused
    <2>1. Loading(LoadBase)
      BY <1>2 DEF load_refused
    <2>2. \A i \in Page : Step(page[i], LoadBase[i], Base(i))
      BY LoadBaseStep, AlikeStep
    <2> QED  BY <2>1, <2>2, OverBaseGood DEF Loading
  <1> QED  BY <1>1, <1>2

\* mb_block_load_state of a state that ends too early.
LEMMA LoadCutGood ==
    ASSUME GroupPages = 1, PagesGood, ImageGood, NEW n \in Page, NEW v \in Value,
           load_state_cut(n, v)
    PROVE  Goes(page', os')
  <1> DEFINE q == LoadedUpto(n)
             short == IF page[n].dirty THEN [q[n] EXCEPT !.bytes = v] ELSE CutPage(q[n], v)
             seen == RefreshChanged(LoadBase, q)
             o == Enforced(q, DOMAIN plan.dest \cup Changed(LoadBase, q))
  <1>1. /\ image # << >> /\ os' = o
        /\ page' = seen \/ page' = [seen EXCEPT ![n] = short]
    BY DEF load_state_cut
  <1>2. \A i \in Page : Step(page[i], q[i], Base(i))
    BY <1>1, UptoStep
  <1>3. Goes(seen, o)
    BY <1>2, OverBaseGood
  <1>4. CASE page' = [seen EXCEPT ![n] = short]
    <2>1. q[n] = LoadBase[n]
      <3>1. ~(n < n)
        BY PagesAssumption DEF Page
      <3> QED  BY <1>1, <3>1, UptoStep
    <2>2. seen[n] = q[n]
      BY <2>1 DEF RefreshChanged, Noted, On, Changed
    <2>3. Sound(q[n]) /\ Alike(page[n], q[n])
      BY <2>1, LoadBaseStep
    <2>4. PageGood(q[n], o[n], Base(n), sealed) /\ q[n].invisible = page[n].invisible
      BY <1>3, <2>2 DEF Goes
    <2> HIDE DEF q, seen, o
    <2>5. Step(q[n], short, Base(n)) /\ ("w" \in o[n] => Lets(short))
      <3>1. CASE page[n].dirty
        <4>1. short = [q[n] EXCEPT !.bytes = v] /\ q[n].dirty
          BY <3>1, <2>3 DEF Alike
        <4> QED  BY <4>1, <2>3, <2>4, OverwrittenStep DEF PageGood
      <3>2. CASE ~page[n].dirty
        <4>1. short = CutPage(q[n], v) /\ ~q[n].dirty
          BY <3>2, <2>3 DEF Alike
        <4>2. ~Lets(q[n])
          BY <4>1, <2>3, LetsDirty
        <4> QED  BY <4>1, <4>2, <2>3, <2>4, CutStep DEF PageGood
      <3> QED  BY <3>1, <3>2
    <2> HIDE DEF short
    <2>6. PageGood(short, o[n], Base(n), sealed) /\ short.invisible = page[n].invisible
      BY <2>4, <2>5, StepGood
    <2>7. page' \in [Page -> PageRecord]
      BY <1>3, <1>4, <2>6 DEF Goes, PageGood, Sound
    <2>8. \A i \in Page : page'[i] = IF i = n THEN short ELSE seen[i]
      BY <1>3, <1>4 DEF Goes
    <2> QED  BY <1>1, <1>3, <2>6, <2>7, <2>8 DEF Goes
  <1> QED  BY <1>1, <1>3, <1>4

-----------------------------------------------------------------------------
(* Every step *)

\* what a restart comes back to is a block of the same baseline
BootGood ==
    sealed /\ "restart" \in use.ops =>
        /\ boot[1] \in [Page -> PageRecord]
        /\ \A i \in Page : /\ PageGood(boot[1][i], boot[2][i], baseline[i], TRUE)
                           /\ boot[1][i].invisible = page[i].invisible

BlockInv ==
    /\ use \in Uses /\ sealed \in BOOLEAN
    /\ epoch_active => sealed
    /\ PagesGood /\ ImageGood /\ DeltaGood /\ BootGood

\* The invariant holds after an operation that keeps the pages good and the stored data sound.
LEMMA GoesOn ==
    ASSUME BlockInv, Goes(page', os'), UNCHANGED <<use, sealed, baseline, boot>>,
           epoch_active' => sealed, image' = image \/ ImageGood', delta' = delta \/ DeltaGood'
    PROVE  BlockInv'
  <1>1. \A i \in Page : Base(i)' = Base(i)
    BY DEF Base
  <1>2. PagesGood'
    BY <1>1 DEF Goes, PagesGood
  <1>3. \A i \in Page : page'[i].invisible = page[i].invisible
    BY DEF Goes
  <1>4. ImageGood'
    BY DEF BlockInv, ImageGood
  <1>5. DeltaGood'
    BY <1>3 DEF BlockInv, DeltaGood
  <1>6. BootGood'
    BY <1>3 DEF BlockInv, BootGood
  <1> QED  BY <1>2, <1>4, <1>5, <1>6 DEF BlockInv

\* Every step of the guest keeps the invariant.
LEMMA GuestKeeps ==
    ASSUME GroupPages = 1, \A u \in Uses : "move" \notin u.ops,
           BlockInv, GuestStep, UNCHANGED use
    PROVE  BlockInv'
  <1> USE DEF BlockInv
  <1>1. ASSUME NEW S \in Stretch, NEW T \in Stretch, mremap_move(S, T)
        PROVE  FALSE
    BY <1>1 DEF mremap_move, GuestCall
  <1>2. /\ UNCHANGED <<sealed, epoch_active, image, delta, baseline, boot>>
        /\ Goes(page', os')
    <2>1. ASSUME NEW i \in use.pages, NEW v \in use.values, guest_write(i, v)
          PROVE  Goes(page', os') /\ Untouched
      <3>1. i \in Page /\ v \in Value
        BY UseTypes
      <3> QED  BY <2>1, <3>1, WriteGood DEF guest_write
    <2>2. ASSUME NEW i \in use.pages, trip(i) \/ trip_refused(i)
          PROVE  Goes(page', os') /\ Untouched
      <3>1. i \in Page
        BY UseTypes
      <3> QED  BY <2>2, <3>1, TripGood DEF trip, trip_refused
    <2>3. ASSUME NEW S \in Stretch, NEW s \in use.asks, NEW z \in BOOLEAN,
                 mmap(S, s) \/ mmap_fixed(S, s, z) \/ mprotect(S, s)
          PROVE  Goes(page', os') /\ Untouched
      BY <2>3, MapGood DEF mmap, mmap_fixed, mprotect, GuestCall
    <2>4. ASSUME NEW S \in Stretch, NEW T \in Stretch,
                 munmap(S) \/ madvise_dontneed(S) \/ mremap(S, T)
          PROVE  Goes(page', os') /\ Untouched
      BY <2>4, UnmapGood DEF munmap, madvise_dontneed, mremap, GuestCall
    <2> QED  BY <2>1, <2>2, <2>3, <2>4, <1>1 DEF GuestStep, Untouched, stored, history
  <1> QED  BY <1>2, GoesOn

\* Sealing keeps the invariant: its baseline is what the pages held.
LEMMA SealKeeps ==
    ASSUME GroupPages = 1, BlockInv, seal, UNCHANGED use
    PROVE  BlockInv'
  <1> DEFINE b == [i \in Page |-> page[i].bytes]
  <1>1. /\ sealed' = TRUE /\ ~sealed /\ epoch_active' = FALSE /\ baseline' = b
        /\ boot' = (IF "restart" \in use.ops THEN <<page', os'>> ELSE << >>)
        /\ UNCHANGED <<image, delta>>
    BY DEF seal, stored
  <1>2. /\ page' \in [Page -> PageRecord]
        /\ \A i \in Page : PageGood(page'[i], os'[i], b[i], TRUE)
    BY SealGood DEF BlockInv
  <1> HIDE DEF b
  <1>3. PagesGood'
    BY <1>1, <1>2 DEF PagesGood, Base
  <1>4. ImageGood'
    BY <1>1 DEF BlockInv, ImageGood
  <1>5. DeltaGood'
    BY <1>1 DEF BlockInv, DeltaGood
  <1>6. BootGood'
    <2> SUFFICES ASSUME "restart" \in use.ops
                 PROVE  BootGood'
      BY DEF BootGood
    <2>1. boot'[1] = page' /\ boot'[2] = os'
      BY <1>1
    <2> QED  BY <1>1, <1>2, <2>1 DEF BootGood
  <1> QED  BY <1>1, <1>3, <1>4, <1>5, <1>6 DEF BlockInv

\* A delta that is saved marks clean only pages that hold their baseline.
LEMMA DeltaSaveKeeps ==
    ASSUME BlockInv, delta_save, UNCHANGED use
    PROVE  BlockInv'
  <1> DEFINE seen == On(page, Page, get_hot_epoch)
             D == DeltaRead(seen)
  <1>1. /\ delta' = <<D>> /\ page' = heat_written_pages(seen) /\ os' = os /\ sealed
        /\ UNCHANGED <<sealed, epoch_active, image, boot, baseline>>
    BY DEF delta_save, BlockInv
  <1>2. /\ Goes(page', os')
        /\ \A i \in Page : Sound(seen[i]) /\ Alike(page[i], seen[i])
    BY <1>1, HeatGood DEF BlockInv
  <1> HIDE DEF seen
  <1>3. /\ DOMAIN D.status \subseteq Page
        /\ \A i \in DOMAIN D.status : D.status[i] = seen[i].status
        /\ DOMAIN D.data \subseteq Page
        /\ \A i \in DOMAIN D.data : /\ D.data[i].clean \in BOOLEAN
                                    /\ D.data[i].clean <=> ~seen[i].dirty
                                    /\ D.data[i].bytes = seen[i].bytes
    BY DEF DeltaRead
  <1> HIDE DEF D
  <1>4. delta'[1] = D
    BY <1>1
  <1>5. \A i \in Page \cap DOMAIN D.status : D.status[i] \in Status
    BY <1>2, <1>3 DEF Sound, PageRecord
  <1>6. ASSUME NEW i \in Page \cap DOMAIN D.data
        PROVE  /\ D.data[i].bytes \in Value /\ D.data[i].clean \in BOOLEAN
               /\ D.data[i].clean /\ ~page'[i].invisible => D.data[i].bytes = baseline'[i]
    <2>1. /\ D.data[i].clean \in BOOLEAN /\ (D.data[i].clean <=> ~seen[i].dirty)
          /\ D.data[i].bytes = seen[i].bytes
      BY <1>3
    <2>2. seen[i].bytes \in Value /\ seen[i].dirty = page[i].dirty /\ seen[i].bytes = page[i].bytes
      BY <1>2 DEF Sound, PageRecord, Alike
    <2>3. page'[i].invisible = page[i].invisible
      BY <1>2 DEF Goes
    <2>4. ~page[i].dirty /\ ~page[i].invisible => page[i].bytes = baseline[i]
      BY <1>1 DEF BlockInv, PagesGood, PageGood, Kept, Base
    <2> QED  BY <1>1, <2>1, <2>2, <2>3, <2>4
  <1>7. DeltaGood'
    BY <1>1, <1>4, <1>5, <1>6 DEF DeltaGood
  <1> QED  BY <1>1, <1>2, <1>7, GoesOn DEF BlockInv

\* A state that is saved is one a load can read.
LEMMA SaveKeeps ==
    ASSUME BlockInv, save_state, UNCHANGED use
    PROVE  BlockInv'
  <1> DEFINE I == [status |-> [i \in Page |-> page[i].status],
                   dirty |-> [i \in Page |-> page[i].dirty],
                   data |-> [i \in StatePages(page) |-> page[i].bytes]]
  <1>1. /\ image' = <<I>> /\ page' = page /\ os' = os
        /\ UNCHANGED <<sealed, epoch_active, delta, boot, baseline>>
    BY DEF save_state, tracking
  <1>2. \A i \in Page : page[i] \in PageRecord
    BY DEF BlockInv, PagesGood
  <1>3. \A i \in Page : I.status[i] = page[i].status /\ I.dirty[i] = page[i].dirty
    OBVIOUS
  <1>4. \A i \in DOMAIN I.data : i \in Page /\ I.data[i] = page[i].bytes
    BY DEF StatePages
  <1> HIDE DEF I
  <1>5. image'[1] = I
    BY <1>1
  <1>6. ImageGood'
    BY <1>2, <1>3, <1>4, <1>5 DEF ImageGood, PageRecord
  <1>7. Goes(page', os')
    BY <1>1 DEF BlockInv, PagesGood, Goes
  <1> QED  BY <1>1, <1>6, <1>7, GoesOn DEF BlockInv

\* A restarted process comes back to the sealed block, with the stored data it had.
LEMMA RestartKeeps ==
    ASSUME BlockInv, restart, UNCHANGED use
    PROVE  BlockInv'
  <1>1. /\ sealed /\ "restart" \in use.ops /\ page' = boot[1] /\ os' = boot[2]
        /\ epoch_active' = FALSE
        /\ UNCHANGED <<sealed, image, delta, boot, baseline>>
    BY DEF restart, stored, history
  <1>2. Goes(page', os')
    BY <1>1 DEF BlockInv, BootGood, Goes, PageGood, Base
  <1> QED  BY <1>1, <1>2, GoesOn

\* Every step of the host and of the copying thread keeps the invariant.
LEMMA HostKeeps ==
    ASSUME GroupPages = 1, BlockInv, HostStep \/ CopierStep, UNCHANGED use
    PROVE  BlockInv'
  <1> DEFINE Still == /\ Goes(page', os')
                      /\ UNCHANGED <<sealed, image, delta, boot, baseline>>
                      /\ epoch_active' => sealed
  <1>1. Still => BlockInv'
    BY GoesOn
  <1>2. PagesGood /\ ImageGood /\ DeltaGood /\ (epoch_active => sealed) /\ use \in Uses
    BY DEF BlockInv
  <1>3. ASSUME NEW S \in Stretch, mark_invisible(S)
        PROVE  BlockInv'
    <2>1. /\ page' \in [Page -> PageRecord]
          /\ \A i \in Page : PageGood(page'[i], os'[i], Base(i), sealed)
      BY <1>2, <1>3, InvisibleGood
    <2>2. ~sealed /\ UNCHANGED <<sealed, epoch_active, image, delta, boot, baseline>>
      BY <1>3 DEF mark_invisible, Untouched, stored, history
    <2>3. PagesGood'
      BY <2>1, <2>2 DEF PagesGood, Base
    <2>4. ImageGood'
      BY <1>2, <2>2 DEF ImageGood
    <2>5. DeltaGood' /\ BootGood'
      BY <1>2, <2>2 DEF DeltaGood, BootGood
    <2> QED  BY <2>2, <2>3, <2>4, <2>5 DEF BlockInv
  <1>4. ASSUME NEW i \in use.pages, NEW v \in use.values, copy_from_external(i, v)
        PROVE  Still
    BY <1>2, <1>4, UseTypes, ExternalGood DEF copy_from_external, Untouched, stored, history
  <1>5. epoch_begin => Still
    BY <1>2, BeginGood DEF epoch_begin, stored
  <1>14. ASSUME NEW d \in use.pages, delta_apply_cut_status(d)
         PROVE  Still
    <2>1. d \in Page /\ 0 \in Value
      BY <1>2, UseTypes, UsesAssumption
    <2> QED  BY <2>1, <1>2, <1>14, ApplyCutGood
             DEF delta_apply_cut_status, DeltaTaken, stored, history
  <1>6. ASSUME NEW d \in use.pages, NEW v \in use.values, delta_apply_cut(d, v)
        PROVE  Still
    BY <1>2, <1>6, UseTypes, ApplyCutGood DEF delta_apply_cut, DeltaTaken, stored, history
  <1>7. delta_apply => Still
    BY <1>2, ApplyWholeGood DEF delta_apply, DeltaTaken, stored, history
  <1>8. state_plan => Still
    BY <1>2, PlanGood DEF state_plan, stored
  <1>9. plan_finish => Still
    BY <1>2, FinishGood DEF plan_finish, stored, history
  <1>10. load_state \/ load_refused => Still
    BY <1>2, LoadGood DEF load_state, load_refused, Loading, stored, history
  <1>11. ASSUME NEW n \in use.pages, NEW v \in use.values, load_state_cut(n, v)
         PROVE  Still
    BY <1>2, <1>11, UseTypes, LoadCutGood DEF load_state_cut, stored, history
  <1>12. ASSUME NEW i \in use.pages, plan_take(i)
         PROVE  Still
    BY <1>2, <1>12, UseTypes, TakeGood DEF plan_take, stored, history
  <1>13. plan_copy_page => Still
    BY <1>2, CopyGood DEF plan_copy_page, stored, history
  <1> HIDE DEF Still
  <1>15. CASE CopierStep
    BY <1>15, <1>1, <1>12, <1>13 DEF CopierStep
  <1>16. CASE HostStep
    <2>1. CASE seal \/ delta_save \/ save_state \/ restart
      BY <2>1, SealKeeps, DeltaSaveKeeps, SaveKeeps, RestartKeeps
    <2>2. CASE ~(seal \/ delta_save \/ save_state \/ restart)
      BY <2>2, <1>16, <1>1, <1>3, <1>4, <1>5, <1>6, <1>7, <1>8, <1>9, <1>10, <1>11, <1>14
         DEF HostStep
    <2> QED  BY <2>1, <2>2
  <1> QED  BY <1>15, <1>16

-----------------------------------------------------------------------------

\* A new block satisfies the invariant.
LEMMA InitGood ==
    ASSUME GroupPages = 1, Init
    PROVE  BlockInv
  <1>1. 0 \in Value /\ 0 \in 0 .. HEAT_MOST
    BY UsesAssumption, HeatAssumption
  <1>2. FreshPage \in PageRecord
    BY <1>1 DEF FreshPage, PageRecord, Status
  <1>3. Sound(FreshPage) /\ Kept(FreshPage, 0) /\ FreshPage.snap_kind # "NONE"
    BY <1>2 DEF Sound, MapsAgree, Kept, FreshPage
  <1>4. page = [i \in Page |-> FreshPage] /\ ~sealed /\ image = << >> /\ delta = << >>
    BY DEF Init
  <1>5. \A i \in Page : "w" \notin os[i]
    BY OneGroup DEF Init
  <1>6. PagesGood
    BY <1>2, <1>3, <1>4, <1>5 DEF PagesGood, PageGood, Base
  <1> QED  BY <1>4, <1>6 DEF Init, BlockInv, ImageGood, DeltaGood, BootGood

\* Every step keeps the invariant.
LEMMA StepKeeps ==
    ASSUME GroupPages = 1, \A u \in Uses : "move" \notin u.ops
    PROVE  BlockInv /\ [Next]_vars => BlockInv'
  <1> SUFFICES ASSUME BlockInv, [Next]_vars PROVE BlockInv'
    OBVIOUS
  <1>1. CASE Next
    BY <1>1, GuestKeeps, HostKeeps DEF Next
  <1>2. CASE UNCHANGED vars
    BY <1>2 DEF vars, tracking, stored, history, BlockInv, PagesGood, ImageGood, DeltaGood,
                BootGood, Base
  <1> QED  BY <1>1, <1>2

\* The sealed bytes of every page can be had back at any time, from the page
\* while it is clean and from its snapshot once it is dirty, whatever the guest
\* maps, frees and writes, and whatever states, plans and deltas are taken,
\* loaded, cut short or refused (mb_page_maybe_snapshot before every change).
THEOREM BaselineAlwaysKept ==
    ASSUME GroupPages = 1, \A u \in Uses : "move" \notin u.ops
    PROVE  Spec => []BaselineKept
  <1>1. Init => BlockInv
    BY InitGood
  <1>2. BlockInv /\ [Next]_vars => BlockInv'
    BY StepKeeps
  <1>3. BlockInv => BaselineKept
    <2> SUFFICES ASSUME BlockInv, sealed, NEW i \in Visible
                 PROVE  LET p == page[i]
                        IN  CASE ~p.dirty -> p.bytes = baseline[i]
                              [] p.dirty /\ p.snap_kind = "ZERO" -> baseline[i] = 0
                              [] p.dirty /\ p.snap_kind # "ZERO" ->
                                     p.snap_kind = "DATA" /\ p.snap_data = baseline[i]
      BY DEF BaselineKept
    <2> DEFINE p == page[i]
    <2>1. i \in Page /\ ~p.invisible
      BY DEF Visible
    <2>2. Kept(p, baseline[i]) /\ p \in PageRecord
      BY <2>1 DEF BlockInv, PagesGood, PageGood, Base, Sound
    <2>3. p.dirty \in BOOLEAN /\ p.snap_kind \in {"NONE", "ZERO", "DATA"}
      BY <2>2 DEF PageRecord
    <2> HIDE DEF p
    <2>4. CASE ~p.dirty
      BY <2>2, <2>4 DEF Kept, p
    <2>5. CASE p.dirty /\ p.snap_kind = "ZERO"
      BY <2>2, <2>5 DEF Kept, p
    <2>6. CASE p.dirty /\ p.snap_kind # "ZERO"
      BY <2>2, <2>3, <2>6 DEF Kept, p
    <2> QED  BY <2>3, <2>4, <2>5, <2>6 DEF p
  <1> QED  BY <1>1, <1>2, <1>3, PTL DEF Spec

\* The maps of hot, held and written pages never contradict each other, at any
\* point where the code may ask (mb_block_maps_consistent).
THEOREM MapsAlwaysConsistent ==
    ASSUME GroupPages = 1, \A u \in Uses : "move" \notin u.ops
    PROVE  Spec => []MapsConsistent
  <1>1. Init => BlockInv
    BY InitGood
  <1>2. BlockInv /\ [Next]_vars => BlockInv'
    BY StepKeeps
  <1>3. BlockInv => MapsConsistent
    BY DEF BlockInv, PagesGood, PageGood, Sound, MapsAgree, MapsConsistent
  <1> QED  BY <1>1, <1>2, <1>3, PTL DEF Spec
=============================================================================
