------------------------------- MODULE Deltas -------------------------------
(***************************************************************************)
(* A delta: what one epoch changed in a machine's memory, as two lists in  *)
(* ascending page order (memblock.c, mb_block_delta_save).  `status` has   *)
(* the pages whose allocation moved, `data` the pages that were written,   *)
(* each with a flag that says it ended the epoch clean.  Two consecutive   *)
(* deltas are composed by merging their lists, without a machine.          *)
(*                                                                         *)
(* A page is [st, bytes, dirty]; bytes are the moment they were written    *)
(* (0: the sealed baseline's), Torn when a read stopped inside them.       *)
(***************************************************************************)
EXTENDS Integers, Sequences, FiniteSets, SequencesExt

Torn == -1

InOrder(S) == SetToSortSeq(S, <)

\* Mutated: a page given back is carried as a page written.
DeltaSaveUnflagged(mem, moved, wrote) ==
    LET status == [i \in 1..Cardinality(moved) |->
                      LET p == InOrder(moved)[i] IN [page |-> p, st |-> mem[p].st]]
        data == [i \in 1..Cardinality(wrote) |->
                    LET p == InOrder(wrote)[i] IN [page |-> p, bytes |-> mem[p].bytes, clean |-> FALSE]]
    IN  [status |-> status, data |-> data, nstatus |-> Len(status), ndata |-> Len(data)]

\* The lists of a delta of the memory `mem`, whose pages `moved` changed
\* allocation and whose pages `wrote` were written during the epoch.
mb_block_delta_save(mem, moved, wrote) ==
    LET status == [i \in 1..Cardinality(moved) |->
                      LET p == InOrder(moved)[i] IN [page |-> p, st |-> mem[p].st]]
        data == [i \in 1..Cardinality(wrote) |->
                    LET p == InOrder(wrote)[i]
                    IN [page |-> p, bytes |-> mem[p].bytes, clean |-> ~mem[p].dirty]]
    IN  [status |-> status, data |-> data, nstatus |-> Len(status), ndata |-> Len(data)]

-----------------------------------------------------------------------------
(* The merge: where both lists name a page the later one's entry is taken  *)
(* whole and the earlier one's is passed over.                             *)

TakesB(a, b, i, j) == i > Len(a) \/ (j <= Len(b) /\ b[j].page <= a[i].page)

\* Where a stands once b's entry j has been taken.
PassedOver(a, b, i, j) == IF i <= Len(a) /\ a[i].page = b[j].page THEN i + 1 ELSE i

Merge(a, b) ==
    LET from[i \in 1 .. Len(a) + 1, j \in 1 .. Len(b) + 1] ==
            IF i > Len(a) /\ j > Len(b) THEN <<>>
            ELSE IF TakesB(a, b, i, j) THEN <<b[j]>> \o from[PassedOver(a, b, i, j), j + 1]
            ELSE <<a[i]>> \o from[i + 1, j]
    IN  from[1, 1]

\* The count written before a merged list, as the streaming compose has it:
\* the pairs while both last, then what is left of either.
merged_count(a, b) ==
    LET n[i \in 1 .. Len(a) + 1, j \in 1 .. Len(b) + 1] ==
            IF i > Len(a) \/ j > Len(b) THEN (Len(a) - i + 1) + (Len(b) - j + 1)
            ELSE IF a[i].page < b[j].page THEN 1 + n[i + 1, j]
            ELSE IF b[j].page < a[i].page THEN 1 + n[i, j + 1]
            ELSE 1 + n[i + 1, j + 1]
    IN  n[1, 1]

\* The same count as the in-memory compose has it: one walk to the end of both.
view_merged(a, b) ==
    LET n[i \in 1 .. Len(a) + 1, j \in 1 .. Len(b) + 1] ==
            IF i > Len(a) /\ j > Len(b) THEN 0
            ELSE IF i > Len(a) THEN 1 + n[i, j + 1]
            ELSE IF j > Len(b) THEN 1 + n[i + 1, j]
            ELSE IF a[i].page = b[j].page THEN 1 + n[i + 1, j + 1]
            ELSE IF a[i].page < b[j].page THEN 1 + n[i + 1, j]
            ELSE 1 + n[i, j + 1]
    IN  n[1, 1]

mb_block_delta_compose(a, b) ==
    [status  |-> Merge(a.status, b.status), data |-> Merge(a.data, b.data),
     nstatus |-> merged_count(a.status, b.status), ndata |-> merged_count(a.data, b.data)]

mb_block_delta_compose_mem(a, b) ==
    [status  |-> Merge(a.status, b.status), data |-> Merge(a.data, b.data),
     nstatus |-> view_merged(a.status, b.status), ndata |-> view_merged(a.data, b.data)]

-----------------------------------------------------------------------------
(* mb_block_delta_apply, stopped by the end of its stream or not: the      *)
(* memory after the first s statuses and the first d pages, the next page  *)
(* torn when `cut` says the stream ended inside it.                        *)

\* The entries among the first n of a list that name the page.
Naming(list, n, page) == {i \in 1..n : list[i].page = page}

Applied(mem, delta, s, d, cut) ==
    [p \in DOMAIN mem |->
        LET st   == Naming(delta.status, s, p)
            data == Naming(delta.data, d, p)
            page == [mem[p] EXCEPT !.st = IF st = {} THEN @ ELSE delta.status[Max(st)].st]
        IN  IF cut /\ d < Len(delta.data) /\ delta.data[d + 1].page = p
            THEN [page EXCEPT !.bytes = Torn, !.dirty = TRUE]
            ELSE IF data = {} THEN page
            ELSE [page EXCEPT !.bytes = delta.data[Max(data)].bytes,
                              !.dirty = ~delta.data[Max(data)].clean]]

\* The whole delta applied: a later entry for a page overwrites an earlier one.
mb_block_delta_apply(mem, delta) ==
    Applied(mem, delta, Len(delta.status), Len(delta.data), FALSE)

\* A reader goes by the counts, so they must be the lists' lengths.
CountsTrue(delta) == delta.nstatus = Len(delta.status) /\ delta.ndata = Len(delta.data)
=============================================================================
