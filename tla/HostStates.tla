----------------------------- MODULE HostStates -----------------------------
(***************************************************************************)
(* A machine's states and deltas, as host.c writes and reads them: the     *)
(* program break, the memory, the thread set, the open files and the       *)
(* getrandom stream, one after the other in a stream that may end anywhere.*)
(* PageTracking has how a memory is tracked, FileSystem how descriptors    *)
(* are loaded; here a memory is a few pages and every other part one value *)
(* - the moment it last changed - and the question is whether the parts    *)
(* always belong together.  The machine is sealed, its pages' baseline is  *)
(* zero, and every file a state names is mounted.                          *)
(***************************************************************************)
EXTENDS Deltas

CONSTANTS Pages,      \* the machine's pages: 1..n
          Calls,      \* what a guest call may change: [write, free, parts]
          Budgets,    \* bounds on a session: how many guest calls, streams
                      \* written, streams cut or foreign, sizes, epochs, deaths,
                      \* deltas misread while they are composed
          Habits      \* what the frontend is relied on for: see Keeps

ASSUME StatesAssumption ==
    /\ IsFiniteSet(Pages) /\ Pages = 1..Cardinality(Pages)
    /\ \A b \in Budgets : b \in [{"runs", "saves", "cuts", "sizes", "epochs", "deaths", "misreads"} -> Nat]
    /\ \A c \in Calls : c.write \subseteq Pages /\ c.free \subseteq Pages \ c.write

VARIABLES now,        \* the machine: [brk, mem, threads, files, random]
          dead,       \* context.dead
          tid,        \* threads.active_tid: 1, or another a death left it on
          epoch,      \* the block's epoch: [open, wrote, moved, base]
          around,     \* plan_head and plan_tail
          store       \* the streams the frontend keeps, oldest first
VARIABLES existed,    \* history: the whole machines there have been
          fresh,      \* history: nothing changed since state_size
          last,       \* history: the load or apply just made: [op, whole, rc, to]
          left        \* what is left of the session's budget

stateVars == <<now, dead, tid, epoch, around, store>>
pastVars == <<existed, fresh, last, left>>
hostVars == <<now, dead, tid, epoch, around, store, existed, fresh, last, left>>

Parts == {"threads", "files", "random"}
NoEpoch == [open |-> FALSE, wrote |-> {}, moved |-> {}, base |-> <<>>]
NoPlan == [head |-> FALSE]
Nothing == [op |-> "none", whole |-> FALSE, rc |-> "ok", to |-> <<>>]

\* The pieces of a stream in the order they are written; a stream of n pieces
\* ends after the nth.
Hash == 3
Header == 4
Memory == 5
Threads == 6
Entropy == 7
Handles == 8
End == 9

\* What the frontend is relied on for, each one a habit that can be dropped:
\* it stores nothing of a dead machine (host.c, above poison_half_loaded), runs
\* nothing between state_size and state_plan, and applies or composes a delta
\* only after the machine or the delta it follows on.
Keeps(habit, held) == habit \in Habits => held

-----------------------------------------------------------------------------
(* The machine and the guest's calls.                                      *)

FirstPage == [st |-> "rw", bytes |-> 0, dirty |-> FALSE]
FirstMachine == [brk |-> 0, mem |-> [p \in Pages |-> FirstPage],
                 threads |-> 0, files |-> 0, random |-> 0]

StatesInit ==
    /\ now = FirstMachine
    /\ dead = FALSE
    /\ tid = 1
    /\ epoch = NoEpoch
    /\ around = NoPlan
    /\ store = <<>>
    /\ existed = {FirstMachine}
    /\ fresh = FALSE
    /\ last = Nothing
    /\ left \in Budgets

\* The machine after a call c at moment t (what is left of the budget: no two
\* calls have the same): pages written (mapped first when
\* free) or given back, and the parts it changed.
After(c, t) ==
    LET Moved(part) == IF part \in c.parts THEN t ELSE now[part]
    IN  [brk |-> Moved("brk"), threads |-> Moved("threads"), files |-> Moved("files"),
         random |-> Moved("random"),
         mem |-> [p \in Pages |-> IF p \in c.write THEN [st |-> "rw", bytes |-> t, dirty |-> TRUE]
                                  ELSE IF p \in c.free THEN [st |-> "free", bytes |-> 0, dirty |-> FALSE]
                                  ELSE now.mem[p]]]

NoChange == [write |-> {}, free |-> {}, parts |-> {}]

\* What the block notes of it while an epoch is open.
Noted(c, m) ==
    IF epoch.open
    THEN [epoch EXCEPT !.wrote = @ \cup c.write \cup {p \in c.free : now.mem[p].dirty},
                       !.moved = @ \cup {p \in Pages : m.mem[p].st # now.mem[p].st}]
    ELSE epoch

Run(c) ==
    /\ ~dead
    /\ left.runs > 0
    /\ LET m == After(c, left.runs)
       IN  /\ now' = m
           /\ epoch' = Noted(c, m)
    /\ fresh' = FALSE
    /\ last' = Nothing
    /\ UNCHANGED <<around, store>>

GuestCall(c) ==
    /\ Run(c)
    /\ existed' = existed \cup {now'}
    /\ left' = [left EXCEPT !.runs = @ - 1]
    /\ UNCHANGED <<dead, tid>>

\* A call the guest dies in, on its first thread or another, at once or after
\* it changed something (mb_host_guest_death).
GuestDies(c) ==
    /\ left.deaths > 0
    /\ Run(c)
    /\ dead' = TRUE
    /\ tid' \in {1, 2}
    /\ left' = [left EXCEPT !.runs = @ - 1, !.deaths = @ - 1]
    /\ UNCHANGED existed

-----------------------------------------------------------------------------
(* Writing.  A stream that is cut ends after fewer pieces than it should   *)
(* have; a thread set is not written while another thread is active.       *)

\* How much of a stream the write callback took: all, or less.
Written(n, cut) == IF cut THEN 0 .. n - 1 ELSE {n}

Stored(stream, bad, what) ==
    /\ left.saves > 0
    /\ bad => left[what] > 0
    /\ store' = Append(store, stream)
    /\ left' = [left EXCEPT !.saves = @ - 1, ![what] = IF bad THEN @ - 1 ELSE @]
    /\ last' = Nothing
    /\ UNCHANGED <<now, dead, tid, existed>>

StateOf(m, len) ==
    [kind |-> "state", of |-> "us", old |-> FALSE, len |-> len, brk |-> m.brk, body |-> m.mem,
     threads |-> m.threads, files |-> m.files, random |-> m.random, from |-> m, to |-> m]

mb_host_save_state(cut) ==
    /\ Keeps("alive", ~dead)
    /\ \E n \in Written(IF tid = 1 THEN End ELSE Memory, cut) : Stored(StateOf(now, n), cut, "cuts")
    /\ UNCHANGED <<epoch, around, fresh>>

\* A state in a file from elsewhere: another build's, another boot's, or one
\* written before states carried the open files.
FoundState(of, old) ==
    /\ ~dead
    /\ of # "us" \/ old
    /\ Stored([StateOf(now, End) EXCEPT !.of = of, !.old = old], TRUE, "cuts")
    /\ UNCHANGED <<epoch, around, fresh>>

\* host_state_surround: everything around the pages, as it is now.  A thread
\* set that cannot be written leaves a head and no tail.
mb_host_state_size ==
    /\ left.sizes > 0
    /\ left' = [left EXCEPT !.sizes = @ - 1]
    /\ around' = [head |-> TRUE, tail |-> tid = 1, brk |-> now.brk,
                  threads |-> now.threads, files |-> now.files, random |-> now.random]
    /\ fresh' = TRUE
    /\ last' = Nothing
    /\ UNCHANGED <<now, dead, tid, epoch, store, existed>>

\* The surround as it was captured, and the pages as they are now (that pages
\* copied later are these is PageTracking's).
mb_host_state_plan ==
    /\ around.head
    /\ Keeps("alive", ~dead)
    /\ Keeps("prompt", fresh)
    /\ Stored([StateOf(now, IF around.tail THEN End ELSE Memory) EXCEPT
                     !.brk = around.brk, !.threads = around.threads,
                     !.files = around.files, !.random = around.random], FALSE, "cuts")
    /\ UNCHANGED <<epoch, around, fresh>>

-----------------------------------------------------------------------------
(* Reading.  Each outcome is the machine it leaves and whether the stream  *)
(* was read to its end.                                                    *)

\* After the memory: the break, the thread set - half replaced when the stream
\* ends in it, refused whole when another thread is active - the files and
\* the end.  The stream's entropy is taken only with its descriptors.
AfterMemory(stream, mem, t) ==
    LET withBreak == [now EXCEPT !.mem = mem, !.brk = stream.brk]
        withThreads == [withBreak EXCEPT !.threads = stream.threads]
        withFiles == [withThreads EXCEPT !.files = stream.files, !.random = stream.random]
        ended == stream.len = End
    IN  IF t # 1 THEN {[m |-> withBreak, ok |-> FALSE]}
        ELSE IF stream.len < Threads
        THEN {[m |-> [withBreak EXCEPT !.threads = x], ok |-> FALSE] : x \in {now.threads, Torn}}
        ELSE IF stream.old \/ stream.len < Handles THEN {[m |-> withThreads, ok |-> ended]}
        ELSE {[m |-> withFiles, ok |-> ended]}

\* The memory of a state cut inside page k: the ones before are the state's.
HalfLoaded(mem, k) ==
    [p \in Pages |-> IF p < k THEN mem[p]
                     ELSE IF p = k THEN [now.mem[p] EXCEPT !.bytes = Torn, !.dirty = TRUE]
                     ELSE now.mem[p]]

HalfStates(stream) ==
    {[m |-> [now EXCEPT !.mem = HalfLoaded(stream.body, k)], ok |-> FALSE] : k \in Pages}

HalfDeltas(stream) ==
    {[m |-> [now EXCEPT !.mem = Applied(@, stream.body, i, 0, FALSE)], ok |-> FALSE]
        : i \in 0 .. Len(stream.body.status)}
    \cup {[m |-> [now EXCEPT !.mem = Applied(@, stream.body, Len(stream.body.status), d, TRUE)],
           ok |-> FALSE] : d \in 0 .. Len(stream.body.data)}

\* Mutated: a load that stopped half way leaves the machine as alive as it was.
PoisonNothing(touched) == dead

\* Whether the machine is dead after a load that failed: it is when memory was
\* touched.
poison_half_loaded(touched) == dead \/ touched

\* A stream that is whole and this machine's own.
Whole(stream) == stream.of = "us" /\ stream.len = End

\* What a load or an apply leaves once memory was touched.
Taken(op, stream, outcome, deadAfter) ==
    /\ now' = outcome.m
    /\ dead' = deadAfter
    /\ existed' = IF outcome.ok /\ stream.old THEN existed \cup {outcome.m} ELSE existed
    /\ last' = [op |-> op, whole |-> Whole(stream), rc |-> IF outcome.ok THEN "ok" ELSE "poisoned",
                to |-> IF stream.old THEN outcome.m ELSE stream.to]
    /\ fresh' = FALSE
    /\ UNCHANGED <<around, store, left>>

\* The stream is not this machine's, or ends too early to say.
Refused(op, stream) ==
    /\ last' = [op |-> op, whole |-> Whole(stream), rc |-> "refused", to |-> <<>>]
    /\ dead' = poison_half_loaded(FALSE)
    /\ UNCHANGED <<now, around, store, existed, fresh, left>>

\* Mutated: the machine stays on the thread it died on.
ResetActiveNever == tid

\* A machine that died on another thread is put back on its first.
mb_threads_reset_active == IF dead THEN 1 ELSE tid

\* Refused before the block sees it; refused by the block, whose epoch is gone
\* all the same; or begun, and then whole or half way.
mb_host_load_state(s) ==
    LET stream == store[s]
        t == mb_threads_reset_active
        foreign == stream.kind # "state" \/ stream.len < Hash \/ stream.of = "elf"
        other == stream.len < Header \/ stream.of = "boot"
    IN  /\ tid' = t
        /\ \/ foreign /\ Refused("load", stream) /\ UNCHANGED epoch
           \/ ~foreign /\ other /\ Refused("load", stream) /\ epoch' = NoEpoch
           \/ /\ ~foreign /\ ~other
              /\ epoch' = NoEpoch
              /\ \E outcome \in IF stream.len < Memory THEN HalfStates(stream)
                                ELSE AfterMemory(stream, stream.body, t) :
                    Taken("load", stream, outcome,
                          IF outcome.ok THEN FALSE ELSE poison_half_loaded(TRUE))

-----------------------------------------------------------------------------
(* Epochs and deltas.                                                      *)

\* The block's epoch is open even when the thread set could not be captured;
\* the capture is for a reverse delta, which the block refuses to save.
mb_host_epoch_begin ==
    /\ left.epochs > 0
    /\ left' = [left EXCEPT !.epochs = @ - 1]
    /\ epoch' = [open |-> TRUE, wrote |-> {}, moved |-> {}, base |-> now]
    /\ last' = Nothing
    /\ UNCHANGED <<now, dead, tid, around, store, existed, fresh>>

DeltaOf(m, len) ==
    [StateOf(m, len) EXCEPT !.kind = "delta", !.from = epoch.base,
                            !.body = mb_block_delta_save(m.mem, epoch.moved, epoch.wrote)]

\* Without an epoch only what comes before the block's lists is written.
mb_host_delta_save(cut) ==
    /\ Keeps("alive", ~dead)
    /\ \E n \in Written(IF ~epoch.open THEN Hash ELSE IF tid = 1 THEN End ELSE Memory, cut) :
          Stored(DeltaOf(now, n), cut \/ ~epoch.open, "cuts")
    /\ UNCHANGED <<epoch, around, fresh>>

\* A delta leaves a dead machine dead, and on the thread it died on.
mb_host_delta_apply(s) ==
    LET stream == store[s]
        foreign == stream.kind # "delta" \/ stream.len < Header \/ stream.of = "elf"
    IN  /\ UNCHANGED tid
        /\ \/ foreign /\ Refused("apply", stream) /\ UNCHANGED epoch
           \/ /\ ~foreign
              /\ Keeps("consecutive", now = stream.from)
              /\ epoch' = NoEpoch
              /\ \E outcome \in IF stream.len < Memory THEN HalfDeltas(stream)
                                ELSE AfterMemory(stream, mb_block_delta_apply(now.mem, stream.body), tid) :
                    Taken("apply", stream, outcome,
                          IF outcome.ok THEN dead ELSE poison_half_loaded(TRUE))

\* Two deltas as one, as the history keeps them: the block's lists merged, and
\* what is around them the later delta's, to where it ends - or to where
\* reading it failed, which is taken for its end.
mb_host_delta_compose(s, t, cut) ==
    LET a == store[s]
        b == store[t]
    IN  /\ s # t
        /\ a.kind = "delta" /\ b.kind = "delta"
        /\ a.len >= Memory /\ b.len >= Memory
        /\ a.of = b.of
        /\ Keeps("consecutive", a.to = b.from)
        /\ \E block \in {mb_block_delta_compose(a.body, b.body),
                         mb_block_delta_compose_mem(a.body, b.body)},
              n \in IF cut THEN Memory .. b.len - 1 ELSE {b.len} :
              Stored([b EXCEPT !.body = block, !.from = a.from, !.len = n], cut, "misreads")
        /\ UNCHANGED <<epoch, around, fresh>>

StatesNext ==
    \/ \E c \in Calls : GuestCall(c)
    \/ \E c \in Calls \cup {NoChange} : GuestDies(c)
    \/ \E cut \in BOOLEAN : mb_host_save_state(cut) \/ mb_host_delta_save(cut)
    \/ \E of \in {"us", "elf", "boot"}, old \in BOOLEAN : FoundState(of, old)
    \/ mb_host_state_size
    \/ mb_host_state_plan
    \/ mb_host_epoch_begin
    \/ \E s \in DOMAIN store : mb_host_load_state(s) \/ mb_host_delta_apply(s)
    \/ \E s, t \in DOMAIN store, cut \in BOOLEAN : mb_host_delta_compose(s, t, cut)

-----------------------------------------------------------------------------
(* Properties.                                                             *)

\* A machine that is not dead is a whole machine that did exist: its break,
\* memory, threads, files and entropy are of one moment, whatever sequence of
\* runs, deaths, states, deltas, composed deltas and loads that stopped half
\* way it came by (poison_half_loaded, mb_host_load_state, mb_host_delta_apply).
LiveMachineWhole == ~dead => now \in existed

\* A whole state of this machine always loads, is the machine then, and brings
\* a dead machine back, on whatever thread it died and however many loads
\* failed before (mb_threads_reset_active in mb_host_load_state).
WholeStateLoads ==
    last.op = "load" /\ last.whole /\ last.rc # "refused" => last.rc = "ok" /\ ~dead /\ now = last.to

\* A delta announces as many entries as it has, composed ones included
\* (merged_count and view_merged are written before the lists they count), and
\* lands on the machine it was saved from, to each page's dirty flag - the
\* machine the run that made it was left with (mb_block_delta_save,
\* mb_block_delta_compose, mb_block_delta_apply).
DeltasLand ==
    /\ \A s \in DOMAIN store : store[s].kind = "delta" => CountsTrue(store[s].body)
    /\ last.op = "apply" /\ last.rc = "ok" => now = last.to
=============================================================================
