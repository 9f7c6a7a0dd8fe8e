----------------------------- MODULE GuestThreads -----------------------------
(***************************************************************************)
(* The guest's green threads (source/host/threading.c) and the system      *)
(* calls of source/host/host.c that reach them: cooperative scheduling,    *)
(* futexes with their timeouts, priority-inheritance locks, thread start   *)
(* and exit, the v3 virtual clock, and saving and loading the thread set.  *)
(*                                                                         *)
(* One guest thread runs at a time, so a system call is one atomic step.   *)
(* The variable t is struct mb_threads, with the arrays threads[],         *)
(* deadlines[] and futicies[] as functions; a thread that is not in        *)
(* threads[] has state "NONE", a futex queue that does not exist is << >>. *)
(* rax[x] is the answer of x's last call: what swap_to hands it when it    *)
(* next runs, and its rax register while it does.                          *)
(***************************************************************************)
EXTENDS Integers, Sequences, FiniteSets, Fifo

CONSTANTS
  MaxTid,       \* bound: the largest thread id ever given out
  Plain,        \* addresses of the futex words the guest waits and wakes on
  Pi,           \* addresses of the words it uses as PI locks
  NoAddr,       \* the null address
  MachineSpec,  \* what the guest declared, __wbx_machine_spec: 2 or 3
  KitRevision,  \* the guest kit the core was built with
  ClockStart,   \* clock_start_ns: what the clock reads at vclock 0
  ClockMax,     \* MB_V3_CLOCK_MAX
  ClockWidth,   \* 2^64: nanoseconds are kept modulo this
  Times,        \* timespecs a guest passes, as (unbounded) nanoseconds
  Values,       \* what the guest stores in its futex words
  Joins,        \* the futex words it passes as tid addresses
  MaxCount      \* bound: the largest count passed to a wake or a requeue

Addr == Plain \cup Pi
Tids == 1..MaxTid

ASSUME ConstantsAssumption ==
  /\ MaxTid \in Nat \ {0}
  /\ Plain \cap Pi = {}
  /\ NoAddr \notin Addr
  /\ MachineSpec \in {2, 3}
  /\ KitRevision \in Nat
  /\ ClockStart \in Nat
  /\ ClockMax \in Nat \ {0}
  /\ ClockWidth \in Nat
  /\ ClockMax + ClockStart < ClockWidth
  /\ Times \subseteq Nat
  /\ 0 \in Values /\ Values \subseteq Nat
  /\ Joins \subseteq Plain
  /\ MaxCount \in Nat

\* The answers a call returns in rax: a count, a tid, or minus a Linux errno.
EAGAIN    == -11
EFAULT    == -14
EINVAL    == -22
ETIMEDOUT == -110
Tick == 1       \* MB_V3_TICK_NS: the unit of the model's time

None == -1      \* of asked: the call set no deadline

VARIABLES
  t,      \* struct mb_threads
  ctx,    \* mb_context.guest_rsp and thread_area: the thread they belong to
  dead,   \* why the machine died, "no" while it lives
  word,   \* the guest's futex words
  lock,   \* the guest's PI words: the owner and the FUTEX_WAITERS bit
  stack,  \* whether a thread's stack is mapped
  asked,  \* history: the absolute deadline of a thread's last wait
  image   \* the last state saved: << >>, or << it >>

vars == <<t, ctx, dead, word, lock, stack, asked, image>>
guest == <<word, lock, stack, image>>

Free == [owner |-> 0, waiters |-> FALSE]

-----------------------------------------------------------------------------
(* Virtual time. *)

\* mb_threads_ns_of
ns_of(n) == IF KitRevision >= 2
            THEN IF n > ClockMax THEN ClockMax ELSE n
            ELSE n % ClockWidth

\* mb_threads_ns_add
ns_add_wrapping(a, b) == (a + b) % (ClockMax + 1)
ns_add(a, b) == IF KitRevision >= 2
                THEN IF a + b > ClockMax THEN ClockMax ELSE a + b
                ELSE (a + b) % ClockWidth

\* An absolute time of the guest, on the clock's own scale, as a vclock value.
past_start(n) == IF ns_of(n) > ClockStart THEN ns_of(n) - ClockStart ELSE 0

Runnable(u) == {x \in Tids : u.state[x] = "RUNNABLE"}
Timed(u) == {x \in Tids : u.state[x] = "WAITING" /\ u.deadline[x] # 0}

\* Each waiter whose deadline has passed becomes runnable with ETIMEDOUT and
\* leaves its queue. (The loop's order, by deadline and then by park order, is
\* lost in its outcome: all that are due are runnable when it ends.)
Due_all(u) == Timed(u)
Due(u) == {x \in Timed(u) : u.deadline[x] <= u.vclock}
undated(u, S) == [x \in Tids |-> IF x \in S THEN 0 ELSE u.deadline[x]]
unqueue_nothing(u, S) == u.queue
unqueue(u, S) == [a \in Addr |-> Without(u.queue[a], S)]
expire_due(u) ==
  [u EXCEPT
     !.state = [x \in Tids |-> IF x \in Due(u) THEN "RUNNABLE" ELSE u.state[x]],
     !.rax = [x \in Tids |-> IF x \in Due(u) THEN ETIMEDOUT ELSE u.rax[x]],
     !.deadline = undated(u, Due(u)),
     !.queue = unqueue(u, Due(u))]

advance(u, ns) == expire_due([u EXCEPT !.vclock = ns_add(u.vclock, ns)])

-----------------------------------------------------------------------------
(* Scheduling. *)

\* The runnable thread after the active one in tid order, wrapping around.
next_runnable_first(u) == Least(Runnable(u))
next_runnable(u) ==
  LET after == {x \in Runnable(u) : x > u.active_tid}
  IN IF after # {} THEN Least(after) ELSE Least(Runnable(u))

\* v3: with nothing runnable, jump to the earliest deadline and expire.
to_earliest(u) == [u EXCEPT !.vclock = Least({u.deadline[x] : x \in Timed(u)})]
fast_forward(u) == IF MachineSpec = 3 /\ Runnable(u) = {} /\ Timed(u) # {}
                   THEN expire_due(to_earliest(u)) ELSE u

\* The outcome of a call: the thread set, the context, the death.
Outcome(u, c, d) == [t |-> u, ctx |-> c, dead |-> d]

swap_to(u, c, tid, r) ==
  LET o == [u EXCEPT !.rax[u.active_tid] = r, !.area[u.active_tid] = c]
  IN Outcome([o EXCEPT !.active_tid = tid], o.area[tid], "no")

stored_overwritten(o, r) == r
stored(o, r) == o.rax[o.active_tid]   \* r, or what the expiry wrote over it
swap_to_next(u, c, r) ==
  LET o == fast_forward([u EXCEPT !.rax[u.active_tid] = r,
                                  !.area[u.active_tid] = c])
  IN IF Runnable(o) = {}
     THEN Outcome(o, c, "deadlock")
     ELSE swap_to(o, c, next_runnable(o), stored(o, r))

park_first(u, a, tid) == [u EXCEPT !.queue[a] = <<tid>> \o u.queue[a],
                                   !.state[tid] = "WAITING"]
park(u, a, tid) == [u EXCEPT !.queue[a] = Append(u.queue[a], tid),
                             !.state[tid] = "WAITING"]
park_me(u, c, r, a) == swap_to_next(park(u, a, u.active_tid), c, r)

\* unpark_one, n times over: the positions of a's queue it can wake from, the
\* threads it wakes, and the thread set after. An entry whose thread does not
\* wait is passed over and dropped.
Wakeable(u, a) == {i \in DOMAIN u.queue[a] : u.state[u.queue[a][i]] = "WAITING"}
Reached(u, a, n) ==
  IF n = 0 THEN 0
  ELSE IF n > Cardinality(Wakeable(u, a)) THEN Len(u.queue[a])
  ELSE Nth(Wakeable(u, a), n)
Woken(u, a, n) == At(u.queue[a], {i \in Wakeable(u, a) : i <= Reached(u, a, n)})
WokenSet(u, a, n) == {Woken(u, a, n)[j] : j \in DOMAIN Woken(u, a, n)}
unpark(u, a, n) ==
  LET woken == WokenSet(u, a, n)
  IN [u EXCEPT
        !.queue[a] = SubSeq(u.queue[a], Reached(u, a, n) + 1, Len(u.queue[a])),
        !.state = [x \in Tids |-> IF x \in woken THEN "RUNNABLE" ELSE u.state[x]],
        !.deadline = undated(u, woken)]

remove_thread(u, tid) == [u EXCEPT !.state[tid] = "NONE", !.rax[tid] = 0,
                                   !.area[tid] = 0, !.tid_address[tid] = NoAddr,
                                   !.deadline[tid] = 0]

-----------------------------------------------------------------------------
(* System calls. Each is made by the active thread of a live machine. *)

me == t.active_tid
Call == dead = "no"

Returns(s, deadline) ==
  \E o \in {s} : /\ t' = o.t /\ ctx' = o.ctx /\ dead' = o.dead
                /\ asked' = [asked EXCEPT ![me] = deadline]
Done(s) == Returns(s, None)
Answer(u, r) == Outcome([u EXCEPT !.rax[u.active_tid] = r], ctx, "no")

\* v3, kit revision 2: a yield by the only runnable thread costs a tick.
lone_yield_free(u) == u
lone_yield(u) == IF /\ MachineSpec = 3 /\ KitRevision >= 2
                    /\ Runnable(u) \ {u.active_tid} = {} /\ Timed(u) # {}
                 THEN advance(u, Tick) ELSE u
sched_yield ==
  /\ Call
  /\ Done(swap_to_next(lone_yield(t), ctx, 0))
  /\ UNCHANGED guest

clock_gettime ==
  /\ Call
  /\ Done(IF MachineSpec = 3 THEN swap_to_next(advance(t, Tick), ctx, 0)
                             ELSE Answer(t, 0))
  /\ UNCHANGED guest

nanosleep(n) ==
  /\ Call
  /\ Done(swap_to_next(IF MachineSpec = 3 THEN advance(t, ns_of(n)) ELSE t,
                       ctx, 0))
  /\ UNCHANGED guest

\* With an absolute target (TIMER_ABSTIME); the relative form is nanosleep. A
\* rem pointer the host may not write is refused after the clock moved.
clock_nanosleep(n, remGood) ==
  LET ahead == past_start(n) - t.vclock
      u == IF ahead > 0 THEN advance(t, ahead) ELSE t
  IN /\ Call /\ MachineSpec = 3
     /\ Done(IF remGood THEN swap_to_next(u, ctx, 0) ELSE Answer(u, EFAULT))
     /\ UNCHANGED guest

futex_wait(a, compare) ==
  /\ Call
  /\ Done(IF word[a] # compare THEN Answer(t, EAGAIN)
                               ELSE park_me(t, ctx, 0, a))
  /\ UNCHANGED guest

\* FUTEX_WAIT with its relative and FUTEX_WAIT_BITSET with its absolute time.
futex_wait_timeout(a, compare, n, absolute) ==
  LET deadline == IF absolute THEN past_start(n) ELSE ns_add(t.vclock, ns_of(n))
      late == advance(t, Tick)
      parked == [park(t, a, me) EXCEPT !.deadline[me] = deadline]
      s == IF word[a] # compare THEN Answer(t, EAGAIN)
           ELSE IF deadline > t.vclock THEN swap_to_next(parked, ctx, 0)
           ELSE IF KitRevision >= 2 THEN swap_to_next(late, ctx, ETIMEDOUT)
           ELSE Answer(late, ETIMEDOUT)
  IN /\ Call /\ MachineSpec = 3
     /\ Returns(s, deadline)
     /\ UNCHANGED guest

futex_wake(a, n) ==
  LET u == unpark(t, a, n)
      count == Len(Woken(t, a, n))
  IN /\ Call
     /\ Done(IF MachineSpec = 3 THEN swap_to_next(u, ctx, count)
                                ELSE Answer(u, count))
     /\ UNCHANGED guest

\* The first wake waiters of from run, the next requeue ones wait on to.
Requeued(u, from, to, wake, requeue) ==
  LET woken == Woken(u, from, wake + requeue)
      moved == SubSeq(woken, wake + 1, Len(woken))
      v == unpark(u, from, wake + requeue)
  IN [v EXCEPT !.queue[to] = v.queue[to] \o moved,
               !.state = [x \in Tids |-> IF \E j \in DOMAIN moved : moved[j] = x
                                         THEN "WAITING" ELSE v.state[x]]]
futex_requeue(from, to, wake, requeue) ==
  /\ Call
  /\ Done(Answer(Requeued(t, from, to, wake, requeue),
                 Len(Woken(t, from, wake + requeue))))
  /\ UNCHANGED guest

Owned == [owner |-> me, waiters |-> FALSE]
futex_lock_pi(p) ==
  LET free == lock[p].owner = 0
  IN /\ Call
     /\ lock[p].owner # me          \* the guest does not relock its own lock
     /\ lock' = [lock EXCEPT ![p] = IF free THEN Owned
                                    ELSE [lock[p] EXCEPT !.waiters = TRUE]]
     /\ Done(IF free THEN Answer(t, 0) ELSE park_me(t, ctx, 0, p))
     /\ UNCHANGED <<word, stack, image>>

\* The lock word as futex_unlock_pi leaves it for the thread it wakes.
handed_alone(tid, more) == [owner |-> tid, waiters |-> FALSE]
handed(tid, more) == [owner |-> tid, waiters |-> more]
futex_unlock_pi(p) ==
  LET u == unpark(t, p, 1)
      woken == Woken(t, p, 1)
  IN /\ Call
     /\ lock[p].owner = me          \* nor unlocks another's
     /\ lock' = [lock EXCEPT ![p] = IF woken = << >> THEN Free
                                    ELSE handed(woken[1], u.queue[p] # << >>)]
     /\ Done(IF woken = << >> THEN Answer(u, 0)
                              ELSE swap_to(u, ctx, woken[1], 0))
     /\ UNCHANGED <<word, stack, image>>

set_tid_address(a) ==
  /\ Call
  /\ Done(Answer([t EXCEPT !.tid_address[me] = a], me))
  /\ UNCHANGED guest

spawn(child_tid) ==
  LET n == t.next_tid
      u == [t EXCEPT !.state[n] = "RUNNABLE", !.rax[n] = 0, !.area[n] = n,
                     !.tid_address[n] = child_tid, !.next_tid = n + 1]
  IN /\ Call
     /\ n <= MaxTid
     /\ Done(Answer(u, n))
     /\ stack' = [stack EXCEPT ![n] = TRUE]
     /\ UNCHANGED <<word, lock, image>>

\* A null thread area, or a stack that cannot be protected.
spawn_refused == Call /\ Done(Answer(t, EINVAL)) /\ UNCHANGED guest

\* munmap by a thread of its own stack: held until it has left it.
hold_stack_unmap_at_once ==
  Call /\ me # 1 /\ stack' = [stack EXCEPT ![me] = FALSE] /\ Done(Answer(t, 0))
  /\ UNCHANGED <<word, lock, image>>
hold_stack_unmap ==
  /\ Call
  /\ me # 1                         \* the first thread's stack is not known
  /\ Done(Answer([t EXCEPT !.pending[me] = TRUE], 0))
  /\ UNCHANGED guest

\* NR_exit, the held unmap included: taken before, done after.
leave_runnable(u) == [u EXCEPT !.pending[u.active_tid] = FALSE]
leave(u) == [u EXCEPT !.state[u.active_tid] = "WAITING",
                      !.pending[u.active_tid] = FALSE]
exit ==
  LET a == t.tid_address[me]
      u == IF a = NoAddr THEN t ELSE unpark(t, a, 1)
      s == swap_to_next(leave(u), ctx, 0)
      out == IF me = 1 THEN Outcome(t, ctx, "main thread exited")
             ELSE IF s.dead # "no" THEN s
             ELSE IF s.t.active_tid = me THEN [s EXCEPT !.dead = "last thread exited"]
             ELSE [s EXCEPT !.t = remove_thread(s.t, me)]
  IN /\ Call
     /\ \A p \in Pi : lock[p].owner # me   \* the guest leaves no lock behind
     /\ Done(out)
     /\ word' = IF a # NoAddr /\ me # 1 THEN [word EXCEPT ![a] = 0] ELSE word
     /\ stack' = IF t.pending[me] /\ out.dead = "no"
                 THEN [stack EXCEPT ![me] = FALSE] ELSE stack
     /\ UNCHANGED <<lock, image>>

\* exit_group, and a signal the core raises against itself.
die == /\ Call
       /\ dead' = "ended by the core"
       /\ UNCHANGED <<t, ctx, asked, word, lock, stack, image>>

-----------------------------------------------------------------------------
(* The guest's own code between calls: stores to its futex words, and the  *)
(* uncontended path of its PI locks (extern/musl), a compare-and-swap.     *)

Store(a, v) ==
  /\ Call
  /\ word' = [word EXCEPT ![a] = v]
  /\ UNCHANGED <<t, ctx, dead, lock, stack, asked, image>>

Swap(p, from, to) ==
  /\ Call
  /\ lock[p] = from
  /\ lock' = [lock EXCEPT ![p] = to]
  /\ UNCHANGED <<t, ctx, dead, word, stack, asked, image>>

GuestCode == \/ \E a \in Plain, v \in Values : Store(a, v)
             \/ \E p \in Pi : Swap(p, Free, Owned) \/ Swap(p, Owned, Free)

-----------------------------------------------------------------------------
(* The host saves and loads the machine between two calls into the guest,  *)
(* when the first thread is the active one. The guest's memory is saved    *)
(* and loaded with the thread set (memblock.c).                            *)

save ==
  /\ Call /\ me = 1
  /\ t' = [t EXCEPT !.area[1] = ctx]
  /\ image' = << [t |-> t', word |-> word, lock |-> lock, stack |-> stack,
                  asked |-> asked] >>
  /\ UNCHANGED <<ctx, dead, word, lock, stack, asked>>

\* A machine that died is put back on its first thread before. A v2 image
\* holds neither clock nor deadlines: insert_thread starts each without one.
restored_clock_kept(i, u) == [i EXCEPT !.vclock = u.vclock]
restored(i, u) == IF MachineSpec = 3 THEN i
                  ELSE [i EXCEPT !.vclock = u.vclock,
                                 !.deadline = [x \in Tids |-> 0]]
loaded_context_kept(i) == ctx
loaded_context(i) == i.area[1]
load ==
  /\ image # << >>
  /\ dead # "no" \/ me = 1
  /\ LET i == image[1]
     IN /\ t' = restored(i.t, t)
        /\ ctx' = loaded_context(i.t)
        /\ word' = i.word /\ lock' = i.lock /\ stack' = i.stack
        /\ asked' = i.asked
  /\ dead' = "no"
  /\ UNCHANGED image

-----------------------------------------------------------------------------
Init ==
  /\ t = [next_tid |-> 2, active_tid |-> 1, vclock |-> 0,
          state |-> [x \in Tids |-> IF x = 1 THEN "RUNNABLE" ELSE "NONE"],
          rax |-> [x \in Tids |-> 0],
          area |-> [x \in Tids |-> IF x = 1 THEN 1 ELSE 0],
          tid_address |-> [x \in Tids |-> NoAddr],
          pending |-> [x \in Tids |-> FALSE],
          deadline |-> [x \in Tids |-> 0],
          queue |-> [a \in Addr |-> << >>]]
  /\ ctx = 1 /\ dead = "no"
  /\ word = [a \in Plain |-> 0]
  /\ lock = [p \in Pi |-> Free]
  /\ stack = [x \in Tids |-> x = 1]
  /\ asked = [x \in Tids |-> None]
  /\ image = << >>

Futex ==
  \/ \E a \in Plain, v \in {0, 1} : futex_wait(a, v)
  \/ \E a \in Plain, v \in {0, 1}, n \in Times, abs \in BOOLEAN :
       futex_wait_timeout(a, v, n, abs)
  \/ \E a \in Plain, n \in 0..MaxCount : futex_wake(a, n)
  \/ \E a, b \in Plain, m, n \in 0..MaxCount : a # b /\ futex_requeue(a, b, m, n)
  \/ \E p \in Pi : futex_lock_pi(p) \/ futex_unlock_pi(p)

Clock == \/ sched_yield
         \/ clock_gettime
         \/ \E n \in Times : nanosleep(n)
         \/ \E n \in Times, good \in BOOLEAN : clock_nanosleep(n, good)

Threads == \/ \E a \in Joins \cup {NoAddr} : spawn(a) \/ set_tid_address(a)
           \/ spawn_refused
           \/ hold_stack_unmap
           \/ exit
           \/ die

\* The guest alone, and with a host that saves and loads it.
Run == Futex \/ Clock \/ Threads \/ GuestCode
Next == Run \/ save \/ load

Spec == Init /\ [][Next]_vars

-----------------------------------------------------------------------------
(* Properties. *)

Answers == Nat \cup {EAGAIN, EFAULT, EINVAL, ETIMEDOUT}

\* What the clock can read: saturated from kit revision 2, wrapped before.
ClockRange == IF KitRevision >= 2 THEN 0..ClockMax ELSE 0..(ClockWidth - 1)

ThreadSet ==
  [next_tid : 2..(MaxTid + 1), active_tid : Tids, vclock : ClockRange,
   state : [Tids -> {"NONE", "RUNNABLE", "WAITING"}],
   rax : [Tids -> Answers], area : [Tids -> 0..MaxTid],
   tid_address : [Tids -> Plain \cup {NoAddr}],
   pending : [Tids -> BOOLEAN], deadline : [Tids -> ClockRange],
   queue : [Addr -> Seq(Tids)]]

Words == [Plain -> Values]
Locks == [Pi -> [owner : 0..MaxTid, waiters : BOOLEAN]]
Asked == [Tids -> ClockRange \cup {None}]
Images == [t : ThreadSet, word : Words, lock : Locks,
           stack : [Tids -> BOOLEAN], asked : Asked]

\* The thread set, the clock and the saved image keep their types; from kit
\* revision 2 no clock and no deadline passes the clock's maximum (ns_of, ns_add).
TypeOK ==
  /\ t \in ThreadSet
  /\ ctx \in 0..MaxTid
  /\ dead \in {"no", "deadlock", "main thread exited", "last thread exited",
               "ended by the core"}
  /\ word \in Words
  /\ lock \in Locks
  /\ stack \in [Tids -> BOOLEAN]
  /\ asked \in Asked
  /\ image # << >> => image[1] \in Images

Alive(P) == dead = "no" => P

\* No waiter is lost and none is woken twice: every thread that waits stands
\* in exactly one futex queue, once, and every entry of a queue is a thread
\* that waits (park_me, unpark_one, unqueue, mb_threads_futex_requeue; the
\* defect the comment over unqueue describes).
Queued(u) ==
  /\ \A x \in Tids : u.state[x] = "WAITING" =>
       \E a \in Addr : \E i \in DOMAIN u.queue[a] : u.queue[a][i] = x
  /\ \A a \in Addr : \A i \in DOMAIN u.queue[a] :
       u.state[u.queue[a][i]] = "WAITING"
  /\ \A a, b \in Addr : \A i \in DOMAIN u.queue[a], j \in DOMAIN u.queue[b] :
       u.queue[a][i] = u.queue[b][j] => a = b /\ i = j
WaitersQueued == Alive(Queued(t))

\* Expiry is eager: while a thread of the guest runs, no waiter's deadline has
\* passed (mb_threads_advance, swap_to_next's fast-forward), and only a waiter
\* has one (unpark_one drops it, or a later wait would expire at once).
Ahead(u) == \A x \in Tids : u.deadline[x] # 0 =>
              u.state[x] = "WAITING" /\ u.deadline[x] > u.vclock
DeadlineAhead == Alive(Ahead(t))

\* A thread is told ETIMEDOUT only by a wait that had a deadline, and not
\* before that deadline (expire_due, and swap_to_next, which must keep the
\* answer that expiry stored for the thread that is parking).
TimeoutIsReal ==
  Alive(\A x \in Runnable(t) :
          t.rax[x] = ETIMEDOUT =>
            asked[x] # None /\ asked[x] <= t.vclock)

\* A timed wait that returns in the step of its call, nobody else having run,
\* was refused or timed out; it is never told that somebody woke it
\* (mb_threads_futex_wait_timeout, "finds its own stored return").
OwnTimeoutKept ==
  [][t' # t /\ ~load /\ t'.active_tid = me /\ asked'[me] # None =>
       t'.rax[me] \in {EAGAIN, ETIMEDOUT}]_vars

\* The machine stops for want of a runnable thread only when no thread is
\* runnable and none waits with a deadline (swap_to_next; mb_threads_exit takes
\* the dying thread off the runnable ones first for this).
StopsOnlyWhenStuck ==
  dead \in {"deadlock", "last thread exited"} =>
    Runnable(t) \subseteq {me} /\ Timed(t) = {} /\ dead = "deadlock"

\* The registers loaded are those of the active thread, and every other thread
\* finds its own when it runs (swap_to, swap_to_next, mb_threads_save and
\* mb_threads_load).
ContextIsActives ==
  Alive(/\ ctx = me /\ t.state[me] = "RUNNABLE"
        /\ \A x \in Tids \ {me} : t.state[x] # "NONE" => t.area[x] = x)

\* A thread in the table has its stack mapped, its own munmap of it held until
\* it is gone (mb_threads_hold_stack_unmap).
StackOutlivesThread ==
  Alive(\A x \in Tids : t.state[x] # "NONE" => stack[x])

\* The bit that makes the owner call unlock is set exactly while threads wait
\* for the lock; the owner is a live thread and not one of those
\* (futex_lock_pi, futex_unlock_pi).
PiWordMatchesQueue ==
  Alive(\A p \in Pi :
          /\ lock[p].waiters <=> t.queue[p] # << >>
          /\ lock[p].waiters => lock[p].owner # 0
          /\ lock[p].owner # 0 =>
               /\ t.state[lock[p].owner] # "NONE"
               /\ \A i \in DOMAIN t.queue[p] : t.queue[p][i] # lock[p].owner)

\* From kit revision 2 only a load puts the clock back, whatever the guest does
\* (ns_add saturates; the fast-forward jumps to a deadline that lies ahead).
ClockForward == [][t'.vclock >= t.vclock \/ load]_vars

\* A waiter is not kept past the time it asked for: the deadline of its call
\* has not passed while it still waits (MACHINE-SPEC, "Futex timeouts": "A
\* waiter whose deadline arrives returns ETIMEDOUT").
DeadlineHonoured ==
  Alive(\A x \in Tids : t.state[x] = "WAITING" /\ asked[x] # None =>
          asked[x] > t.vclock)

-----------------------------------------------------------------------------
(* Fairness: what a guest must keep doing for its threads to share the     *)
(* machine. The host schedules nothing by itself.                          *)

\* Some thread of the guest yields again and again.
Yields == WF_vars(sched_yield)
\* A thread that holds a PI lock gives it up at last.
Unlocks == \A p \in Pi : SF_vars(futex_unlock_pi(p))

\* No runnable thread starves: swap_to_next goes round by tid, and the direct
\* hand-over of futex_unlock_pi skips nobody for ever.
RunnableRuns ==
  \A x \in Tids : t.state[x] = "RUNNABLE" ~> (me = x \/ dead # "no")

\* A wait with a deadline ends (mb_threads_advance and, for a guest that only
\* yields, the tick of a lone mb_threads_sched_yield).
TimedWaitEnds ==
  \A x \in Tids : t.deadline[x] # 0 ~> (t.deadline[x] = 0 \/ dead # "no")

\* A thread that queues for a PI lock gets it (first in, first out).
LockGranted ==
  \A p \in Pi, x \in Tids :
    (\E i \in DOMAIN t.queue[p] : t.queue[p][i] = x)
      ~> (lock[p].owner = x \/ dead # "no")
=============================================================================
