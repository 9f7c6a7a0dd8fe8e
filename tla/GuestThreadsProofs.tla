------------------------- MODULE GuestThreadsProofs -------------------------
(***************************************************************************)
(* The thread set of GuestThreads is well formed for any number of         *)
(* threads, futex words, locks and times.                                  *)
(***************************************************************************)
EXTENDS GuestThreads, FifoProofs

\* Queued, but for the threads in E, which may wait in no queue: the dying
\* thread of mb_threads_exit while the next one is chosen.
QueuedBut(u, E) ==
  /\ \A x \in Tids \ E : u.state[x] = "WAITING" =>
       \E a \in Addr : \E i \in DOMAIN u.queue[a] : u.queue[a][i] = x
  /\ \A a \in Addr : \A i \in DOMAIN u.queue[a] :
       u.state[u.queue[a][i]] = "WAITING" /\ u.queue[a][i] \notin E
  /\ \A a, b \in Addr : \A i \in DOMAIN u.queue[a], j \in DOMAIN u.queue[b] :
       u.queue[a][i] = u.queue[b][j] => a = b /\ i = j

\* Only a waiter has a deadline.
Dated(u) == \A x \in Tids : u.deadline[x] # 0 => u.state[x] = "WAITING"

\* A well-formed thread set: its queues and its deadlines.
Sound(u, E) == u \in ThreadSet /\ QueuedBut(u, E) /\ Ahead(u)

\* c is the active thread, and every other finds its own registers.
Loaded(u, c) ==
  /\ c = u.active_tid
  /\ \A x \in Tids \ {u.active_tid} : u.state[x] # "NONE" => u.area[x] = x

\* Tids not given out yet name no thread.
Fresh(u) == \A x \in Tids : x >= u.next_tid => u.state[x] = "NONE"

\* What v keeps of u when threads only move between running and waiting.
SameThreads(u, v) ==
  /\ v.active_tid = u.active_tid /\ v.next_tid = u.next_tid
  /\ v.area = u.area
  /\ \A x \in Tids : v.state[x] = "NONE" <=> u.state[x] = "NONE"
  /\ \A x \in Tids : u.state[x] = "RUNNABLE" => v.state[x] = "RUNNABLE"

\* The queues stay right when no thread starts or stops waiting, except that a
\* thread outside them may be counted out before and in after, or the reverse.
LEMMA QueuedSame ==
  ASSUME NEW u, NEW v \in ThreadSet, NEW E, NEW F, QueuedBut(v, E),
         u.queue = v.queue,
         \A x \in Tids \ F : u.state[x] = "WAITING" =>
           v.state[x] = "WAITING" /\ x \notin E,
         \A x \in Tids \ E : v.state[x] = "WAITING" =>
           u.state[x] = "WAITING" /\ x \notin F
  PROVE  QueuedBut(u, F)
<1> DEFINE Q == v.queue
           S == v.state
           R == u.state
<1>1. Q \in [Addr -> Seq(Tids)]
  BY Zenon DEF ThreadSet
<1>2. \A x \in Tids \ E : S[x] = "WAITING" =>
        \E b \in Addr : \E i \in DOMAIN Q[b] : Q[b][i] = x
  BY Zenon DEF QueuedBut
<1>3. \A b \in Addr : \A i \in DOMAIN Q[b] :
        S[Q[b][i]] = "WAITING" /\ Q[b][i] \notin E
  BY Zenon DEF QueuedBut
<1>4. \A b, c \in Addr : \A i \in DOMAIN Q[b], j \in DOMAIN Q[c] :
        Q[b][i] = Q[c][j] => b = c /\ i = j
  BY Zenon DEF QueuedBut
<1>5. /\ \A x \in Tids \ F : R[x] = "WAITING" => S[x] = "WAITING" /\ x \notin E
      /\ \A x \in Tids \ E : S[x] = "WAITING" => R[x] = "WAITING" /\ x \notin F
      /\ u.queue = Q
  BY Zenon
<1> HIDE DEF Q, S
<1>6. \A b \in Addr : \A i \in DOMAIN Q[b] : Q[b][i] \in Tids \ E
  BY <1>1, <1>3, SMTT(60)
<1>7. \A x \in Tids \ F : R[x] = "WAITING" =>
        \E b \in Addr : \E i \in DOMAIN Q[b] : Q[b][i] = x
  BY <1>2, <1>5, Zenon
<1>8. \A b \in Addr : \A i \in DOMAIN Q[b] :
        R[Q[b][i]] = "WAITING" /\ Q[b][i] \notin F
  BY <1>3, <1>5, <1>6, Zenon
<1> QED BY <1>4, <1>5, <1>7, <1>8, SMTT(60) DEF QueuedBut

\* A thread set that differs in neither queues, states, deadlines nor clock.
LEMMA SoundSame ==
  ASSUME NEW u \in ThreadSet, NEW v, NEW E, Sound(v, E), u.queue = v.queue,
         u.state = v.state, u.deadline = v.deadline, u.vclock = v.vclock
  PROVE  Sound(u, E)
<1>1. v \in ThreadSet /\ QueuedBut(v, E) /\ Ahead(v)
  BY Zenon DEF Sound
<1>2. QueuedBut(u, E)
  <2>1. /\ \A x \in Tids \ E : u.state[x] = "WAITING" =>
             v.state[x] = "WAITING" /\ x \notin E
        /\ \A x \in Tids \ E : v.state[x] = "WAITING" =>
             u.state[x] = "WAITING" /\ x \notin E
    OBVIOUS
  <2> QED BY <1>1, <2>1, QueuedSame, SMTT(60)
<1>3. Ahead(u)
  BY <1>1, SMTT(60) DEF Ahead
<1> QED BY <1>2, <1>3, Zenon DEF Sound

\* Times and their sums stay in the range of the clock, saturated or wrapped.
LEMMA ClockArithmetic ==
  /\ \A n \in Nat : ns_of(n) \in ClockRange /\ past_start(n) \in ClockRange
  /\ \A a, b \in ClockRange : ns_add(a, b) \in ClockRange
  /\ ClockRange \in SUBSET Nat /\ 0 \in ClockRange
  /\ \E n \in Nat : ClockRange = 0..n
<1> USE ConstantsAssumption
<1>1. \A n \in Nat : ns_of(n) \in ClockRange
  BY DEF ns_of, ClockRange
<1>2. \A a, b \in ClockRange : ns_add(a, b) \in ClockRange
  BY DEF ns_add, ClockRange
<1>3. ClockRange \in SUBSET Nat /\ 0 \in ClockRange
  BY DEF ClockRange
<1>4. \E n \in Nat : ClockRange = 0..n
  <2>1. ClockMax \in Nat /\ ClockWidth - 1 \in Nat
    OBVIOUS
  <2> QED BY <2>1 DEF ClockRange
<1>5. \A n \in Nat : past_start(n) \in ClockRange
  BY <1>1 DEF past_start, ClockRange
<1> QED BY <1>1, <1>2, <1>3, <1>4, <1>5, Zenon

\* expire_due keeps the queues right and leaves no deadline behind the clock.
LEMMA ExpireDue ==
  ASSUME NEW u \in ThreadSet, NEW E, QueuedBut(u, E), Dated(u)
  PROVE  /\ expire_due(u) \in ThreadSet
         /\ QueuedBut(expire_due(u), E)
         /\ Ahead(expire_due(u))
         /\ SameThreads(u, expire_due(u))
         /\ expire_due(u).vclock = u.vclock
<1> DEFINE D == Due(u)
           v == expire_due(u)
           st == [x \in Tids |-> IF x \in D THEN "RUNNABLE" ELSE u.state[x]]
           rx == [x \in Tids |-> IF x \in D THEN ETIMEDOUT ELSE u.rax[x]]
           dl == undated(u, D)
           q == unqueue(u, D)
<1>1. D \in SUBSET Tids
  BY DEF Due, Timed
<1>2. \A a \in Addr : u.queue[a] \in Seq(Tids)
  BY DEF ThreadSet
<1>3. st \in [Tids -> {"NONE", "RUNNABLE", "WAITING"}]
  BY DEF ThreadSet
<1>4. rx \in [Tids -> Answers]
  BY DEF ThreadSet, Answers
<1>5. dl \in [Tids -> ClockRange]
  BY ClockArithmetic DEF ThreadSet, undated
<1>6. q \in [Addr -> Seq(Tids)]
  <2>1. \A a \in Addr : Without(u.queue[a], D) \in Seq(Tids)
    BY <1>2, WithoutProperties
  <2> QED BY <2>1 DEF unqueue
<1>7. v = [u EXCEPT !.state = st, !.rax = rx, !.deadline = dl, !.queue = q]
  BY DEF expire_due
<1> HIDE DEF st, rx, dl, q, v
<1>8. v \in ThreadSet
  BY <1>3, <1>4, <1>5, <1>6, <1>7, Zenon DEF ThreadSet
<1>9. /\ v.state = st /\ v.deadline = dl /\ v.queue = q
      /\ v.active_tid = u.active_tid /\ v.next_tid = u.next_tid
      /\ v.vclock = u.vclock /\ v.area = u.area
  BY <1>7 DEF ThreadSet
<1>10. Ahead(v)
  <2> SUFFICES ASSUME NEW x \in Tids, v.deadline[x] # 0
               PROVE  v.state[x] = "WAITING" /\ v.deadline[x] > v.vclock
    BY DEF Ahead
  <2>1. x \notin D /\ v.deadline[x] = u.deadline[x]
    BY <1>9 DEF dl, undated
  <2>2. v.state[x] = u.state[x] /\ u.state[x] = "WAITING"
    BY <1>9, <2>1 DEF st, Dated
  <2>3. u.deadline[x] \in Nat /\ u.vclock \in Nat
    BY ClockArithmetic DEF ThreadSet
  <2>4. ~(u.deadline[x] <= u.vclock)
    BY <2>1, <2>2 DEF Due, Timed
  <2> QED BY <1>9, <2>1, <2>2, <2>3, <2>4
<1>11. QueuedBut(v, E)
  <2>1. \A x \in Tids : /\ v.state[x] = "WAITING" => u.state[x] = "WAITING" /\ x \notin D
                        /\ u.state[x] = "WAITING" /\ x \notin D => v.state[x] = "WAITING"
    BY <1>9 DEF st
  <2>2. ASSUME NEW a \in Addr
        PROVE  /\ \A j \in DOMAIN v.queue[a] :
                    \E i \in DOMAIN u.queue[a] :
                       u.queue[a][i] = v.queue[a][j] /\ u.queue[a][i] \notin D
               /\ \A i \in DOMAIN u.queue[a] : u.queue[a][i] \notin D =>
                    \E j \in DOMAIN v.queue[a] : v.queue[a][j] = u.queue[a][i]
               /\ (\A i, k \in DOMAIN u.queue[a] : u.queue[a][i] = u.queue[a][k] => i = k)
                   => \A j, k \in DOMAIN v.queue[a] : v.queue[a][j] = v.queue[a][k] => j = k
    <3>1. u.queue[a] \in Seq(Tids)
      BY <1>2
    <3>2. v.queue[a] = Without(u.queue[a], D)
      BY <1>9 DEF q, unqueue
    <3> DEFINE p == u.queue[a]
    <3> HIDE DEF D, p
    <3>3. /\ \A j \in DOMAIN Without(p, D) :
               \E i \in DOMAIN p : p[i] = Without(p, D)[j] /\ p[i] \notin D
          /\ \A i \in DOMAIN p : p[i] \notin D =>
               \E j \in DOMAIN Without(p, D) : Without(p, D)[j] = p[i]
          /\ (\A i, k \in DOMAIN p : p[i] = p[k] => i = k) =>
               \A j, k \in DOMAIN Without(p, D) :
                 Without(p, D)[j] = Without(p, D)[k] => j = k
      <4>1. p \in Seq(Tids)
        BY <3>1 DEF p
      <4> QED BY <4>1, WithoutProperties, Zenon
    <3> QED BY <3>2, <3>3 DEF p
  <2>3. ASSUME NEW x \in Tids \ E, v.state[x] = "WAITING"
        PROVE  \E a \in Addr : \E i \in DOMAIN v.queue[a] : v.queue[a][i] = x
    <3>1. PICK a \in Addr : \E i \in DOMAIN u.queue[a] : u.queue[a][i] = x
      BY <2>1, <2>3 DEF QueuedBut
    <3>2. x \notin D
      BY <2>1, <2>3
    <3> HIDE DEF D
    <3> QED BY <2>2, <3>1, <3>2
  <2>4. ASSUME NEW a \in Addr, NEW i \in DOMAIN v.queue[a]
        PROVE  v.state[v.queue[a][i]] = "WAITING" /\ v.queue[a][i] \notin E
    <3>1. PICK k \in DOMAIN u.queue[a] : v.queue[a][i] = u.queue[a][k] /\ u.queue[a][k] \notin D
      BY <2>2
    <3>2. u.queue[a][k] \in Tids
      BY <1>2
    <3> QED BY <2>1, <3>1, <3>2 DEF QueuedBut
  <2>5. ASSUME NEW a \in Addr, NEW b \in Addr, NEW i \in DOMAIN v.queue[a],
               NEW j \in DOMAIN v.queue[b], v.queue[a][i] = v.queue[b][j]
        PROVE  a = b /\ i = j
    <3> HIDE DEF D
    <3>1. PICK k \in DOMAIN u.queue[a] : v.queue[a][i] = u.queue[a][k]
      BY <2>2
    <3>2. PICK l \in DOMAIN u.queue[b] : v.queue[b][j] = u.queue[b][l]
      BY <2>2
    <3>0. u.queue[a][k] = u.queue[b][l]
      BY <2>5, <3>1, <3>2, Zenon
    <3>3. a = b
      BY <3>0 DEF QueuedBut
    <3>4. \A m, n \in DOMAIN u.queue[a] : u.queue[a][m] = u.queue[a][n] => m = n
      BY DEF QueuedBut
    <3> QED BY <2>2, <2>5, <3>3, <3>4
  <2> QED BY <2>3, <2>4, <2>5 DEF QueuedBut
<1>12. SameThreads(u, v)
  <2>1. \A x \in D : u.state[x] = "WAITING"
    BY DEF Due, Timed
  <2> QED BY <1>9, <2>1 DEF SameThreads, st
<1> QED BY <1>8, <1>9, <1>10, <1>11, <1>12 DEF v

\* Moving the clock forward leaves a well-formed thread set.
LEMMA Advance ==
  ASSUME NEW u, NEW E, Sound(u, E), NEW n \in ClockRange
  PROVE  Sound(advance(u, n), E) /\ SameThreads(u, advance(u, n))
<1> DEFINE c == ns_add(u.vclock, n)
           w == [u EXCEPT !.vclock = c]
<1>1. u \in ThreadSet /\ QueuedBut(u, E) /\ Ahead(u)
  BY DEF Sound
<1>2. c \in ClockRange
  BY <1>1, ClockArithmetic, Zenon DEF ThreadSet
<1> HIDE DEF c
<1>3. /\ w \in ThreadSet /\ w.state = u.state /\ w.queue = u.queue
      /\ w.deadline = u.deadline /\ w.area = u.area
      /\ w.active_tid = u.active_tid /\ w.next_tid = u.next_tid
  BY <1>1, <1>2, Zenon DEF ThreadSet
<1> HIDE DEF w
<1>4. QueuedBut(w, E) /\ Dated(w) /\ SameThreads(u, w)
  <2>1. QueuedBut(w, E)
    BY <1>1, <1>3, QueuedSame, SMTT(60)
  <2> QED BY <1>1, <1>3, <2>1, SMTT(60) DEF Dated, Ahead, SameThreads
<1>5. Sound(expire_due(w), E) /\ SameThreads(w, expire_due(w))
  BY <1>3, <1>4, ExpireDue DEF Sound
<1>6. advance(u, n) = expire_due(w)
  BY DEF advance, w, c
<1> QED BY <1>4, <1>5, <1>6 DEF SameThreads

\* So does jumping to the earliest deadline when nothing can run.
LEMMA FastForward ==
  ASSUME NEW u, NEW E, Sound(u, E)
  PROVE  Sound(fast_forward(u), E) /\ SameThreads(u, fast_forward(u))
<1>1. u \in ThreadSet /\ QueuedBut(u, E) /\ Ahead(u)
  BY DEF Sound
<1>2. CASE ~(MachineSpec = 3 /\ Runnable(u) = {} /\ Timed(u) # {})
  BY <1>2 DEF fast_forward, SameThreads
<1>3. CASE MachineSpec = 3 /\ Runnable(u) = {} /\ Timed(u) # {}
  <2> DEFINE S == {u.deadline[x] : x \in Timed(u)}
             c == Least(S)
             w == [u EXCEPT !.vclock = c]
  <2>1. S # {} /\ S \in SUBSET ClockRange
    BY <1>1, <1>3 DEF Timed, ThreadSet
  <2>2. c \in ClockRange
    <3>1. PICK n \in Nat : ClockRange = 0..n
      BY ClockArithmetic
    <3> HIDE DEF S
    <3>2. c \in S
      BY <2>1, <3>1, LeastExists, Zenon
    <3> QED BY <2>1, <3>2
  <2>3. fast_forward(u) = expire_due(w)
    BY <1>3 DEF fast_forward, to_earliest
  <2> HIDE DEF c
  <2>4. /\ w \in ThreadSet /\ w.state = u.state /\ w.queue = u.queue
        /\ w.deadline = u.deadline /\ w.area = u.area
        /\ w.active_tid = u.active_tid /\ w.next_tid = u.next_tid
    BY <1>1, <2>2, Zenon DEF ThreadSet
  <2> HIDE DEF w
  <2>5. QueuedBut(w, E) /\ Dated(w) /\ SameThreads(u, w)
    <3>1. QueuedBut(w, E)
      BY <1>1, <2>4, QueuedSame, SMTT(60)
    <3> QED BY <1>1, <2>4, <3>1, SMTT(60) DEF Dated, Ahead, SameThreads
  <2>6. Sound(expire_due(w), E) /\ SameThreads(w, expire_due(w))
    BY <2>4, <2>5, ExpireDue DEF Sound
  <2> QED BY <2>3, <2>5, <2>6 DEF SameThreads
<1> QED BY <1>2, <1>3

\* The scheduler picks a thread that can run.
LEMMA NextRunnable ==
  ASSUME NEW u, Runnable(u) # {}
  PROVE  next_runnable(u) \in Runnable(u)
<1> DEFINE after == {x \in Runnable(u) : x > u.active_tid}
<1>1. Runnable(u) \in SUBSET (0..MaxTid)
  BY ConstantsAssumption DEF Runnable, Tids
<1>2. after \in SUBSET (0..MaxTid) /\ after \in SUBSET Runnable(u)
  BY <1>1
<1>3. after # {} => Least(after) \in after
  <2> HIDE DEF after
  <2> QED BY <1>2, ConstantsAssumption, LeastExists
<1>4. Least(Runnable(u)) \in Runnable(u)
  BY <1>1, ConstantsAssumption, LeastExists
<1> QED BY <1>2, <1>3, <1>4 DEF next_runnable

\* Switching to a runnable thread stores the registers of one and loads those
\* of the other.
LEMMA SwapTo ==
  ASSUME NEW u, NEW E, Sound(u, E), NEW c, Loaded(u, c), NEW r \in Answers,
         NEW tid \in Tids, u.state[tid] = "RUNNABLE"
  PROVE  LET s == swap_to(u, c, tid, r)
         IN /\ Sound(s.t, E) /\ Loaded(s.t, s.ctx)
            /\ s.dead = "no" /\ s.t.active_tid = tid
            /\ s.t.state = u.state /\ s.t.next_tid = u.next_tid
            /\ s.t.queue = u.queue
<1> DEFINE rx == [u.rax EXCEPT ![u.active_tid] = r]
           ar == [u.area EXCEPT ![u.active_tid] = c]
           o == [u EXCEPT !.rax[u.active_tid] = r, !.area[u.active_tid] = c]
           v == [o EXCEPT !.active_tid = tid]
           s == swap_to(u, c, tid, r)
<1>1. u \in ThreadSet /\ QueuedBut(u, E) /\ Ahead(u) /\ c = u.active_tid
  BY DEF Sound, Loaded
<1>2. rx \in [Tids -> Answers] /\ ar \in [Tids -> 0..MaxTid]
  BY <1>1, ConstantsAssumption DEF ThreadSet, Tids
<1>3. \A x \in Tids : u.state[x] # "NONE" => ar[x] = x
  BY <1>1 DEF Loaded, ThreadSet
<1>4. o = [u EXCEPT !.rax = rx, !.area = ar]
  BY <1>1 DEF ThreadSet
<1>5. s = [t |-> v, ctx |-> o.area[tid], dead |-> "no"]
  BY DEF swap_to, Outcome
<1> HIDE DEF rx, ar, o, s
<1>6. /\ o \in ThreadSet /\ o.area = ar /\ o.state = u.state
      /\ o.queue = u.queue /\ o.deadline = u.deadline
      /\ o.vclock = u.vclock /\ o.next_tid = u.next_tid
  BY <1>1, <1>2, <1>4, Zenon DEF ThreadSet
<1>7. /\ v \in ThreadSet /\ v.area = ar /\ v.state = u.state
      /\ v.queue = u.queue /\ v.deadline = u.deadline /\ v.active_tid = tid
      /\ v.vclock = u.vclock /\ v.next_tid = u.next_tid
  BY <1>6, Zenon DEF ThreadSet
<1> HIDE DEF v
<1>8. s.t = v /\ s.ctx = tid /\ s.dead = "no"
  BY <1>3, <1>5, <1>6
<1>9. Sound(v, E)
  BY <1>1, <1>7, SoundSame, Zenon
<1>10. Loaded(v, tid)
  BY <1>3, <1>7 DEF Loaded
<1> QED BY <1>7, <1>8, <1>9, <1>10 DEF s

\* Giving up the machine: the next thread runs, or there is none.
LEMMA SwapToNext ==
  ASSUME NEW u, NEW E, Sound(u, E), NEW c, Loaded(u, c), NEW r \in Answers
  PROVE  LET s == swap_to_next(u, c, r)
         IN /\ s.t \in ThreadSet /\ s.ctx \in 0..MaxTid
            /\ s.dead \in {"no", "deadlock"}
            /\ s.dead = "no" =>
                 /\ Sound(s.t, E) /\ Loaded(s.t, s.ctx)
                 /\ s.t.state[s.t.active_tid] = "RUNNABLE"
                 /\ s.t.next_tid = u.next_tid
                 /\ \A x \in Tids : s.t.state[x] = "NONE" <=> u.state[x] = "NONE"
<1> DEFINE rx == [u.rax EXCEPT ![u.active_tid] = r]
           ar == [u.area EXCEPT ![u.active_tid] = c]
           p == [u EXCEPT !.rax[u.active_tid] = r, !.area[u.active_tid] = c]
           o == fast_forward(p)
           s == swap_to_next(u, c, r)
<1>1. u \in ThreadSet /\ QueuedBut(u, E) /\ Ahead(u) /\ c = u.active_tid
  BY DEF Sound, Loaded
<1>2. rx \in [Tids -> Answers] /\ ar \in [Tids -> 0..MaxTid]
  BY <1>1, ConstantsAssumption DEF ThreadSet, Tids
<1>3. \A x \in Tids : u.state[x] # "NONE" => ar[x] = x
  BY <1>1 DEF Loaded, ThreadSet
<1>4. p = [u EXCEPT !.rax = rx, !.area = ar]
  BY <1>1 DEF ThreadSet
<1>5. s = IF Runnable(o) = {} THEN Outcome(o, c, "deadlock")
          ELSE swap_to(o, c, next_runnable(o), stored(o, r))
  BY DEF swap_to_next
<1> HIDE DEF rx, ar, p, s
<1>6. /\ p \in ThreadSet /\ p.area = ar /\ p.state = u.state
      /\ p.queue = u.queue /\ p.deadline = u.deadline
      /\ p.vclock = u.vclock /\ p.next_tid = u.next_tid
      /\ p.active_tid = u.active_tid
  BY <1>1, <1>2, <1>4, Zenon DEF ThreadSet
<1>7. Sound(p, E)
  BY <1>1, <1>6, SoundSame, Zenon
<1>8. Sound(o, E) /\ SameThreads(p, o)
  BY <1>7, FastForward
<1> HIDE DEF o
<1>9. c \in 0..MaxTid
  BY <1>1, ConstantsAssumption DEF ThreadSet, Tids
<1>10. CASE Runnable(o) = {}
  <2>1. s.t = o /\ s.ctx = c /\ s.dead = "deadlock"
    BY <1>5, <1>10 DEF Outcome
  <2> QED BY <1>8, <1>9, <2>1 DEF Sound, s
<1>11. CASE Runnable(o) # {}
  <2> DEFINE n == next_runnable(o)
             b == stored(o, r)
  <2>1. n \in Tids /\ o.state[n] = "RUNNABLE"
    BY <1>11, NextRunnable DEF Runnable
  <2>2. Loaded(o, c)
    BY <1>1, <1>3, <1>6, <1>8 DEF SameThreads, Loaded
  <2>3. b \in Answers
    BY <1>8 DEF Sound, stored, ThreadSet
  <2>4. s = swap_to(o, c, n, b)
    BY <1>5, <1>11
  <2> HIDE DEF n, b
  <2>5. /\ Sound(s.t, E) /\ Loaded(s.t, s.ctx)
        /\ s.dead = "no" /\ s.t.active_tid = n
        /\ s.t.state = o.state /\ s.t.next_tid = o.next_tid
    BY <1>8, <2>1, <2>2, <2>3, <2>4, SwapTo
  <2>6. s.ctx \in 0..MaxTid
    BY <2>1, <2>5, ConstantsAssumption DEF Loaded, Tids
  <2>7. \A x \in Tids : s.t.state[x] = "NONE" <=> u.state[x] = "NONE"
    BY <1>6, <1>8, <2>5 DEF SameThreads
  <2> QED BY <1>6, <1>8, <2>1, <2>5, <2>6, <2>7 DEF Sound, SameThreads, s
<1> QED BY <1>10, <1>11

\* With only waiters in a queue, unpark_one wakes from its front.
LEMMA WokenFront ==
  ASSUME NEW u, Sound(u, {}), NEW a \in Addr, NEW n \in Nat
  PROVE  \E k \in 0..Len(u.queue[a]) :
           Reached(u, a, n) = k /\ Woken(u, a, n) = SubSeq(u.queue[a], 1, k)
<1> DEFINE q == u.queue[a]
<1>1. q \in Seq(Tids) /\ Len(q) \in Nat
  BY DEF Sound, ThreadSet
<1>2. DOMAIN q = 1..Len(q)
  BY <1>1
<1>3. Wakeable(u, a) = 1..Len(q)
  BY <1>2 DEF Wakeable, Sound, QueuedBut
<1> HIDE DEF q
<1>4. Len(q) \in 0..Len(q)
  BY <1>1
<1>5. Cardinality(1..Len(q)) = Len(q) /\ \A j \in 1..Len(q) : Nth(1..Len(q), j) = j
  BY <1>1, <1>4, AtInitial, Zenon
<1> DEFINE k == Reached(u, a, n)
<1>6. k \in 0..Len(q)
  BY <1>1, <1>3, <1>5 DEF Reached, q
<1>7. {i \in Wakeable(u, a) : i <= k} = 1..k
  BY <1>1, <1>3, <1>6
<1>8. At(q, 1..k) = SubSeq(q, 1, k)
  <2> HIDE DEF k
  <2> QED BY <1>1, <1>6, AtInitial, Zenon
<1>9. Woken(u, a, n) = SubSeq(q, 1, k)
  BY <1>7, <1>8, Zenon DEF Woken, q
<1> QED BY <1>6, <1>9 DEF q

\* Waking takes the threads off their queue and clears their deadlines.
LEMMA Unpark ==
  ASSUME NEW u, Sound(u, {}), NEW a \in Addr, NEW n \in Nat
  PROVE  LET v == unpark(u, a, n)
         IN /\ Sound(v, {}) /\ SameThreads(u, v)
            /\ v.vclock = u.vclock
            /\ Woken(u, a, n) \in Seq(Tids)
            /\ \A j \in DOMAIN Woken(u, a, n) :
                 /\ u.state[Woken(u, a, n)[j]] = "WAITING"
                 /\ v.state[Woken(u, a, n)[j]] = "RUNNABLE"
            /\ \A i, j \in DOMAIN Woken(u, a, n) :
                 Woken(u, a, n)[i] = Woken(u, a, n)[j] => i = j
<1> DEFINE q == u.queue[a]
           W == Woken(u, a, n)
           S == WokenSet(u, a, n)
           v == unpark(u, a, n)
           st == [x \in Tids |-> IF x \in S THEN "RUNNABLE" ELSE u.state[x]]
           dl == undated(u, S)
<1>1. u \in ThreadSet /\ QueuedBut(u, {}) /\ Ahead(u)
  BY DEF Sound
<1>2. q \in Seq(Tids) /\ Len(q) \in Nat /\ DOMAIN q = 1..Len(q)
  BY <1>1 DEF ThreadSet
<1>3. PICK k \in 0..Len(q) : Reached(u, a, n) = k /\ W = SubSeq(q, 1, k)
  BY WokenFront, Zenon
<1> DEFINE rest == SubSeq(q, k + 1, Len(q))
           qs == [u.queue EXCEPT ![a] = rest]
<1>4. v = [u EXCEPT !.queue[a] = rest, !.state = st, !.deadline = dl]
  BY <1>3 DEF unpark
<1>5. S = {q[i] : i \in 1..k} /\ W \in Seq(Tids)
      /\ DOMAIN W = 1..k /\ \A i \in 1..k : W[i] = q[i]
  <2> HIDE DEF q, W
  <2>1. W \in Seq(Tids) /\ DOMAIN W = 1..k /\ \A i \in 1..k : W[i] = q[i]
    BY <1>2, <1>3
  <2>2. S = {W[j] : j \in DOMAIN W}
    BY DEF WokenSet, W
  <2> QED BY <2>1, <2>2
<1>6. rest \in Seq(Tids) /\ DOMAIN rest = 1..(Len(q) - k)
      /\ \A i \in 1..(Len(q) - k) : rest[i] = q[i + k]
  <2> HIDE DEF q
  <2> QED BY <1>2, <1>3
<1>7. S \in SUBSET Tids
  BY <1>2, <1>3, <1>5
<1>8. \A x \in S : u.state[x] = "WAITING"
  BY <1>1, <1>2, <1>3, <1>5 DEF QueuedBut
<1> HIDE DEF S, W, rest, v
<1>9. st \in [Tids -> {"NONE", "RUNNABLE", "WAITING"}]
  BY <1>1 DEF ThreadSet
<1>10. dl \in [Tids -> ClockRange]
  BY <1>1, ClockArithmetic DEF ThreadSet, undated
<1>11. qs \in [Addr -> Seq(Tids)]
  BY <1>1, <1>6 DEF ThreadSet
<1>12. v = [u EXCEPT !.queue = qs, !.state = st, !.deadline = dl]
  BY <1>1, <1>4 DEF ThreadSet
<1> HIDE DEF st, dl, qs
<1>13. /\ v \in ThreadSet /\ v.state = st /\ v.deadline = dl /\ v.queue = qs
       /\ v.active_tid = u.active_tid /\ v.next_tid = u.next_tid
       /\ v.vclock = u.vclock /\ v.area = u.area
  BY <1>1, <1>9, <1>10, <1>11, <1>12, Zenon DEF ThreadSet
<1>14. Ahead(v)
  BY <1>1, <1>13 DEF Ahead, dl, st, undated
<1>15. SameThreads(u, v)
  BY <1>8, <1>13 DEF SameThreads, st
<1>16. QueuedBut(v, {})
  <2>1. v.queue[a] = rest /\ \A b \in Addr \ {a} : v.queue[b] = u.queue[b]
    BY <1>1, <1>13 DEF qs, ThreadSet
  <2>2. \A x \in Tids : v.state[x] = "WAITING" <=> u.state[x] = "WAITING" /\ x \notin S
    BY <1>13 DEF st
  <2>3. \A b \in Addr : \A i \in DOMAIN v.queue[b] :
          \E j \in DOMAIN u.queue[b] : /\ v.queue[b][i] = u.queue[b][j]
                                       /\ b = a => j = i + k
                                       /\ b # a => j = i
    <3> SUFFICES ASSUME NEW b \in Addr, NEW i \in DOMAIN v.queue[b]
                 PROVE  \E j \in DOMAIN u.queue[b] :
                          /\ v.queue[b][i] = u.queue[b][j]
                          /\ b = a => j = i + k
                          /\ b # a => j = i
      OBVIOUS
    <3>1. CASE b # a
      BY <2>1, <3>1
    <3>2. CASE b = a
      <4>1. i \in 1..(Len(q) - k) /\ v.queue[b][i] = q[i + k]
        BY <1>6, <2>1, <3>2, Zenon
      <4>2. i + k \in DOMAIN q
        BY <1>2, <1>3, <4>1
      <4> QED BY <3>2, <4>1, <4>2
    <3> QED BY <3>1, <3>2
  <2>4. ASSUME NEW x \in Tids, v.state[x] = "WAITING"
        PROVE  \E b \in Addr : \E i \in DOMAIN v.queue[b] : v.queue[b][i] = x
    <3>1. PICK b \in Addr : \E i \in DOMAIN u.queue[b] : u.queue[b][i] = x
      BY <1>1, <2>2, <2>4 DEF QueuedBut
    <3>2. PICK i \in DOMAIN u.queue[b] : u.queue[b][i] = x
      BY <3>1
    <3>3. CASE b # a
      BY <2>1, <3>2, <3>3
    <3>4. CASE b = a
      <4>1. x \notin S
        BY <2>2, <2>4
      <4>2. i \in 1..Len(q) /\ i \notin 1..k
        BY <1>2, <1>5, <3>2, <3>4, <4>1
      <4>3. i - k \in 1..(Len(q) - k) /\ i - k + k = i
        BY <1>2, <1>3, <4>2
      <4>4. rest[i - k] = x
        BY <1>6, <3>2, <3>4, <4>3, Zenon
      <4> QED BY <1>6, <2>1, <4>3, <4>4, Zenon
    <3> QED BY <3>3, <3>4
  <2>5. ASSUME NEW b \in Addr, NEW i \in DOMAIN v.queue[b]
        PROVE  v.state[v.queue[b][i]] = "WAITING"
    <3>1. PICK j \in DOMAIN u.queue[b] : /\ v.queue[b][i] = u.queue[b][j]
                                         /\ b = a => j = i + k
                                         /\ b # a => j = i
      BY <2>3
    <3>2. u.state[u.queue[b][j]] = "WAITING" /\ u.queue[b][j] \in Tids
      BY <1>1 DEF QueuedBut, ThreadSet
    <3>3. u.queue[b][j] \notin S
      <4> SUFFICES ASSUME NEW m \in 1..k, u.queue[b][j] = q[m] PROVE FALSE
        BY <1>5
      <4>1. m \in DOMAIN u.queue[a]
        BY <1>2, <1>3
      <4>2. b = a /\ j = m
        BY <1>1, <4>1 DEF QueuedBut
      <4>3. i \in 1..(Len(q) - k)
        BY <1>6, <2>1, <4>2
      <4> QED BY <1>2, <1>3, <3>1, <4>2, <4>3
    <3> QED BY <2>2, <3>1, <3>2, <3>3
  <2>6. ASSUME NEW b \in Addr, NEW c \in Addr, NEW i \in DOMAIN v.queue[b],
               NEW j \in DOMAIN v.queue[c], v.queue[b][i] = v.queue[c][j]
        PROVE  b = c /\ i = j
    <3>1. PICK l \in DOMAIN u.queue[b] : /\ v.queue[b][i] = u.queue[b][l]
                                         /\ b = a => l = i + k
                                         /\ b # a => l = i
      BY <2>3
    <3>2. PICK m \in DOMAIN u.queue[c] : /\ v.queue[c][j] = u.queue[c][m]
                                         /\ c = a => m = j + k
                                         /\ c # a => m = j
      BY <2>3
    <3>3. u.queue[b][l] = u.queue[c][m]
      BY <2>6, <3>1, <3>2, Zenon
    <3>4. b = c /\ l = m
      BY <1>1, <3>3 DEF QueuedBut
    <3>5. b = a => i \in Nat /\ j \in Nat
      BY <1>2, <1>3, <1>6, <2>1, <3>4, SMTT(60)
    <3> QED BY <1>2, <1>3, <3>1, <3>2, <3>4, <3>5
  <2> QED BY <2>4, <2>5, <2>6 DEF QueuedBut
<1>17. \A j \in DOMAIN W : u.state[W[j]] = "WAITING" /\ v.state[W[j]] = "RUNNABLE"
  BY <1>5, <1>7, <1>8, <1>13 DEF st
<1>18. \A i, j \in DOMAIN W : W[i] = W[j] => i = j
  <2>1. \A i, j \in DOMAIN q : q[i] = q[j] => i = j
    BY <1>1 DEF QueuedBut
  <2>2. 1..k \in SUBSET DOMAIN q
    BY <1>2, <1>3
  <2> HIDE DEF q
  <2> QED BY <1>5, <2>1, <2>2
<1> QED BY <1>5, <1>13, <1>14, <1>15, <1>16, <1>17, <1>18 DEF Sound, W, v

\* u with the threads of m waiting at the end of the queue of a.
Enqueued(u, a, m) ==
  [u EXCEPT !.queue[a] = u.queue[a] \o m,
            !.state = [x \in Tids |-> IF \E j \in DOMAIN m : m[j] = x
                                      THEN "WAITING" ELSE u.state[x]]]

\* Threads that run may be put at the end of a queue, each once.
LEMMA Enqueue ==
  ASSUME NEW u, Sound(u, {}), NEW a \in Addr, NEW m \in Seq(Tids),
         \A j \in DOMAIN m : u.state[m[j]] = "RUNNABLE",
         \A i, j \in DOMAIN m : m[i] = m[j] => i = j,
         NEW v, v = Enqueued(u, a, m)
  PROVE  /\ Sound(v, {})
         /\ v.active_tid = u.active_tid /\ v.next_tid = u.next_tid
         /\ v.area = u.area /\ v.vclock = u.vclock /\ v.deadline = u.deadline
         /\ \A x \in Tids : /\ v.state[x] = "NONE" <=> u.state[x] = "NONE"
                            /\ \/ v.state[x] = u.state[x]
                               \/ \E j \in DOMAIN m : m[j] = x
<1> DEFINE q == u.queue[a]
           p == q \o m
           qs == [u.queue EXCEPT ![a] = p]
           st == [x \in Tids |-> IF \E j \in DOMAIN m : m[j] = x
                                 THEN "WAITING" ELSE u.state[x]]
<1>1. u \in ThreadSet /\ QueuedBut(u, {}) /\ Ahead(u)
  BY DEF Sound
<1>2. q \in Seq(Tids) /\ Len(q) \in Nat /\ DOMAIN q = 1..Len(q)
      /\ Len(m) \in Nat /\ DOMAIN m = 1..Len(m)
  BY <1>1 DEF ThreadSet
<1>3. /\ p \in Seq(Tids) /\ DOMAIN p = 1..(Len(q) + Len(m))
      /\ \A i \in 1..(Len(q) + Len(m)) :
           p[i] = IF i <= Len(q) THEN q[i] ELSE m[i - Len(q)]
  <2> HIDE DEF q
  <2> QED BY <1>2
<1>4. v = [u EXCEPT !.queue = qs, !.state = st]
  BY <1>1 DEF ThreadSet, Enqueued
<1>5. qs \in [Addr -> Seq(Tids)]
  <2> HIDE DEF p
  <2> QED BY <1>1, <1>3 DEF ThreadSet
<1>6. st \in [Tids -> {"NONE", "RUNNABLE", "WAITING"}]
  BY <1>1 DEF ThreadSet
<1> HIDE DEF qs, st, p
<1>7. /\ v \in ThreadSet /\ v.state = st /\ v.queue = qs
      /\ v.deadline = u.deadline /\ v.area = u.area
      /\ v.active_tid = u.active_tid /\ v.next_tid = u.next_tid
      /\ v.vclock = u.vclock
  BY <1>1, <1>4, <1>5, <1>6, Zenon DEF ThreadSet
<1>8. \A j \in DOMAIN m : m[j] \in Tids
  BY <1>2
<1>9. \A x \in Tids : /\ v.state[x] = "NONE" <=> u.state[x] = "NONE"
                      /\ v.state[x] = "WAITING" <=>
                           u.state[x] = "WAITING" \/ \E j \in DOMAIN m : m[j] = x
                      /\ \/ v.state[x] = u.state[x]
                         \/ \E j \in DOMAIN m : m[j] = x
  BY <1>7, <1>8 DEF st
<1>10. Ahead(v)
  BY <1>1, <1>7, <1>9 DEF Ahead
<1>11. v.queue[a] = p /\ \A b \in Addr \ {a} : v.queue[b] = u.queue[b]
  <2>1. u.queue \in [Addr -> Seq(Tids)]
    BY <1>1 DEF ThreadSet
  <2> QED BY <1>7, <2>1 DEF qs
<1>12. \A b \in Addr : \A i \in DOMAIN v.queue[b] :
         \/ i \in DOMAIN u.queue[b] /\ v.queue[b][i] = u.queue[b][i]
         \/ b = a /\ i - Len(q) \in DOMAIN m /\ v.queue[b][i] = m[i - Len(q)] /\ i \in Nat
  <2> SUFFICES ASSUME NEW b \in Addr, NEW i \in DOMAIN v.queue[b]
               PROVE  \/ i \in DOMAIN u.queue[b] /\ v.queue[b][i] = u.queue[b][i]
                      \/ /\ b = a /\ i - Len(q) \in DOMAIN m
                         /\ v.queue[b][i] = m[i - Len(q)] /\ i \in Nat
    OBVIOUS
  <2>1. CASE b # a
    BY <1>11, <2>1
  <2>2. CASE b = a
    <3>1. v.queue[b] = p /\ i \in 1..(Len(q) + Len(m)) /\ u.queue[b] = q
      BY <1>3, <1>11, <2>2
    <3> HIDE DEF q
    <3>2. CASE i <= Len(q)
      BY <1>2, <1>3, <3>1, <3>2
    <3>3. CASE ~(i <= Len(q))
      BY <1>2, <1>3, <2>2, <3>1, <3>3
    <3> QED BY <3>2, <3>3
  <2> QED BY <2>1, <2>2
<1>13. \A b \in Addr : \A i \in DOMAIN u.queue[b] :
         i \in DOMAIN v.queue[b] /\ v.queue[b][i] = u.queue[b][i]
  <2> SUFFICES ASSUME NEW b \in Addr, NEW i \in DOMAIN u.queue[b]
               PROVE  i \in DOMAIN v.queue[b] /\ v.queue[b][i] = u.queue[b][i]
    OBVIOUS
  <2>1. CASE b # a
    BY <1>11, <2>1
  <2>2. CASE b = a
    <3>1. v.queue[b] = p /\ i \in 1..Len(q) /\ u.queue[b] = q
      BY <1>2, <1>11, <2>2
    <3> HIDE DEF q
    <3> QED BY <1>2, <1>3, <3>1
  <2> QED BY <2>1, <2>2
<1>14. \A j \in DOMAIN m : j + Len(q) \in DOMAIN v.queue[a] /\ v.queue[a][j + Len(q)] = m[j]
  <2> SUFFICES ASSUME NEW j \in DOMAIN m
               PROVE  j + Len(q) \in DOMAIN p /\ p[j + Len(q)] = m[j]
    BY <1>11
  <2> HIDE DEF q
  <2>1. j + Len(q) \in 1..(Len(q) + Len(m)) /\ ~(j + Len(q) <= Len(q))
        /\ j + Len(q) - Len(q) = j
    BY <1>2, SMTT(60)
  <2> QED BY <1>3, <2>1
<1>15. QueuedBut(v, {})
  <2>1. ASSUME NEW x \in Tids, v.state[x] = "WAITING"
        PROVE  \E b \in Addr : \E i \in DOMAIN v.queue[b] : v.queue[b][i] = x
    <3>1. CASE u.state[x] = "WAITING"
      <4>1. PICK b \in Addr : \E i \in DOMAIN u.queue[b] : u.queue[b][i] = x
        BY <1>1, <3>1 DEF QueuedBut
      <4> QED BY <1>13, <4>1
    <3>2. CASE \E j \in DOMAIN m : m[j] = x
      BY <1>14, <3>2, SMTT(60)
    <3> QED BY <1>9, <2>1, <3>1, <3>2
  <2>2. ASSUME NEW b \in Addr, NEW i \in DOMAIN v.queue[b]
        PROVE  v.state[v.queue[b][i]] = "WAITING"
    <3>1. CASE i \in DOMAIN u.queue[b] /\ v.queue[b][i] = u.queue[b][i]
      <4>1. u.state[u.queue[b][i]] = "WAITING" /\ u.queue[b][i] \in Tids
        BY <1>1, <3>1 DEF QueuedBut, ThreadSet
      <4> QED BY <1>9, <3>1, <4>1, SMTT(60)
    <3>2. CASE i - Len(q) \in DOMAIN m /\ v.queue[b][i] = m[i - Len(q)]
      <4> HIDE DEF q
      <4> QED BY <1>8, <1>9, <3>2
    <3> QED BY <1>12, <3>1, <3>2
  <2>3. ASSUME NEW b \in Addr, NEW c \in Addr, NEW i \in DOMAIN v.queue[b],
               NEW j \in DOMAIN v.queue[c], v.queue[b][i] = v.queue[c][j]
        PROVE  b = c /\ i = j
    <3> DEFINE Old(d, k) == k \in DOMAIN u.queue[d] /\ v.queue[d][k] = u.queue[d][k]
               New(d, k) == /\ d = a /\ k - Len(q) \in DOMAIN m
                            /\ v.queue[d][k] = m[k - Len(q)] /\ k \in Nat
    <3>1. (Old(b, i) \/ New(b, i)) /\ (Old(c, j) \/ New(c, j))
      BY <1>12
    <3>2. ASSUME NEW d \in Addr, NEW k, Old(d, k)
          PROVE  u.state[v.queue[d][k]] = "WAITING"
      <4>1. k \in DOMAIN u.queue[d] /\ v.queue[d][k] = u.queue[d][k]
        BY <3>2, SMTT(60)
      <4>2. u.state[u.queue[d][k]] = "WAITING"
        BY <1>1, <4>1 DEF QueuedBut
      <4> QED BY <4>1, <4>2
    <3>3. \A d \in Addr : \A k : New(d, k) => u.state[v.queue[d][k]] = "RUNNABLE"
      <4> HIDE DEF q
      <4> QED BY SMTT(60)
    <3>4. CASE Old(b, i) /\ Old(c, j)
      <4>1. u.queue[b][i] = u.queue[c][j]
        BY <2>3, <3>4, Zenon
      <4> QED BY <1>1, <3>4, <4>1 DEF QueuedBut
    <3>5. CASE New(b, i) /\ New(c, j)
      <4> HIDE DEF q
      <4>1. i - Len(q) = j - Len(q)
        BY <2>3, <3>5, SMTT(60)
      <4> QED BY <1>2, <3>5, <4>1
    <3> HIDE DEF Old, New
    <3>6. ~(Old(b, i) /\ New(c, j)) /\ ~(New(b, i) /\ Old(c, j))
      BY <2>3, <3>2, <3>3
    <3> QED BY <3>1, <3>4, <3>5, <3>6, SMTT(60)
  <2> QED BY <2>1, <2>2, <2>3 DEF QueuedBut
<1> QED BY <1>7, <1>9, <1>10, <1>15 DEF Sound

\* A thread that parks waits at the end of the queue.
LEMMA Park ==
  ASSUME NEW u, Sound(u, {}), NEW a \in Addr, NEW x \in Tids, u.state[x] = "RUNNABLE"
  PROVE  LET v == park(u, a, x)
         IN /\ Sound(v, {}) /\ v.state[x] = "WAITING"
            /\ v.active_tid = u.active_tid /\ v.next_tid = u.next_tid
            /\ v.area = u.area /\ v.vclock = u.vclock
            /\ \A y \in Tids : v.state[y] = "NONE" <=> u.state[y] = "NONE"
<1> DEFINE m == <<x>>
           v == park(u, a, x)
           st == [y \in Tids |-> IF \E j \in DOMAIN m : m[j] = y
                                 THEN "WAITING" ELSE u.state[y]]
<1>1. u \in ThreadSet
  BY DEF Sound
<1>2. m \in Seq(Tids) /\ DOMAIN m = {1} /\ m[1] = x
  OBVIOUS
<1>3. st = [u.state EXCEPT ![x] = "WAITING"]
  BY <1>1, <1>2 DEF ThreadSet
<1>4. u.queue[a] \o m = Append(u.queue[a], x)
  BY <1>1 DEF ThreadSet
<1>5. v = Enqueued(u, a, m)
  BY <1>1, <1>3, <1>4, Zenon DEF park, ThreadSet, Enqueued
<1> HIDE DEF m, v
<1>6. /\ \A j \in DOMAIN m : u.state[m[j]] = "RUNNABLE"
      /\ \A i, j \in DOMAIN m : m[i] = m[j] => i = j
  BY <1>2
<1>7. /\ Sound(v, {})
      /\ v.active_tid = u.active_tid /\ v.next_tid = u.next_tid
      /\ v.area = u.area /\ v.vclock = u.vclock
      /\ \A y \in Tids : v.state[y] = "NONE" <=> u.state[y] = "NONE"
  BY <1>2, <1>5, <1>6, Enqueue
<1>8. v.state[x] = "WAITING"
  BY <1>1 DEF ThreadSet, park, v
<1> QED BY <1>7, <1>8 DEF v

-----------------------------------------------------------------------------
(* The inductive invariant. *)

Deaths == {"no", "deadlock", "main thread exited", "last thread exited",
           "ended by the core"}

\* What a running guest, and a saved one, can rely on.
ThreadInv(u, c) == /\ Sound(u, {}) /\ Loaded(u, c) /\ Fresh(u)
                   /\ u.state[u.active_tid] = "RUNNABLE"

MachineInv == /\ t \in ThreadSet /\ ctx \in 0..MaxTid /\ dead \in Deaths
              /\ dead = "no" => ThreadInv(t, ctx)
GuestInv == /\ word \in Words /\ lock \in Locks
            /\ stack \in [Tids -> BOOLEAN] /\ asked \in Asked
ImageInv == \/ image = << >>
            \/ \E i \in Images : /\ image = << i >>
                                 /\ ThreadInv(i.t, i.t.area[1])
                                 /\ i.t.active_tid = 1
IInv == MachineInv /\ GuestInv /\ ImageInv

\* An outcome a call may return.
Good(s) == /\ s.t \in ThreadSet /\ s.ctx \in 0..MaxTid /\ s.dead \in Deaths
           /\ s.dead = "no" => ThreadInv(s.t, s.ctx)

\* Returning to the caller without a switch is a good outcome.
LEMMA AnswerGood ==
  ASSUME NEW u, ThreadInv(u, ctx), NEW r \in Answers
  PROVE  Good(Answer(u, r))
<1> DEFINE rx == [u.rax EXCEPT ![u.active_tid] = r]
           v == [u EXCEPT !.rax[u.active_tid] = r]
<1>1. u \in ThreadSet /\ QueuedBut(u, {}) /\ Ahead(u) /\ Loaded(u, ctx) /\ Fresh(u)
  BY DEF ThreadInv, Sound
<1>2. rx \in [Tids -> Answers]
  BY <1>1 DEF ThreadSet
<1>3. v = [u EXCEPT !.rax = rx]
  BY <1>1 DEF ThreadSet
<1>4. Answer(u, r) = [t |-> v, ctx |-> ctx, dead |-> "no"]
  BY DEF Answer, Outcome
<1> HIDE DEF rx, v
<1>5. /\ v \in ThreadSet /\ v.area = u.area /\ v.state = u.state
      /\ v.queue = u.queue /\ v.deadline = u.deadline
      /\ v.vclock = u.vclock /\ v.next_tid = u.next_tid
      /\ v.active_tid = u.active_tid
  BY <1>1, <1>2, <1>3, Zenon DEF ThreadSet
<1>6. Sound(v, {})
  <2>1. Sound(u, {})
    BY Zenon DEF ThreadInv
  <2> QED BY <1>5, <2>1, SoundSame, Zenon
<1>7. Loaded(v, ctx) /\ Fresh(v) /\ v.state[v.active_tid] = "RUNNABLE"
  BY <1>1, <1>5 DEF Loaded, Fresh, ThreadInv
<1>8. ctx \in 0..MaxTid
  BY <1>1, ConstantsAssumption DEF Loaded, ThreadSet, Tids
<1> QED BY <1>4, <1>5, <1>6, <1>7, <1>8 DEF Good, ThreadInv, Deaths

\* So is giving up the machine.
LEMMA YieldGood ==
  ASSUME NEW u, Sound(u, {}), NEW c, Loaded(u, c), Fresh(u), NEW r \in Answers
  PROVE  Good(swap_to_next(u, c, r))
<1> DEFINE s == swap_to_next(u, c, r)
<1>1. /\ s.t \in ThreadSet /\ s.ctx \in 0..MaxTid
      /\ s.dead \in {"no", "deadlock"}
      /\ s.dead = "no" =>
           /\ Sound(s.t, {}) /\ Loaded(s.t, s.ctx)
           /\ s.t.state[s.t.active_tid] = "RUNNABLE"
           /\ s.t.next_tid = u.next_tid
           /\ \A x \in Tids : s.t.state[x] = "NONE" <=> u.state[x] = "NONE"
  BY SwapToNext, Zenon
<1> HIDE DEF s
<1>2. s.dead = "no" => Fresh(s.t)
  BY <1>1 DEF Fresh
<1>3. Good(s)
  BY <1>1, <1>2, Zenon DEF Good, ThreadInv, Deaths
<1> QED BY <1>3 DEF s

\* The invariant only looks at what SameThreads keeps, and at Sound.
LEMMA SameInv ==
  ASSUME NEW u, NEW c, ThreadInv(u, c), NEW v, Sound(v, {}), SameThreads(u, v)
  PROVE  ThreadInv(v, c)
<1>1. u.active_tid \in Tids
  BY DEF ThreadInv, Sound, ThreadSet
<1>2. Loaded(v, c)
  BY DEF ThreadInv, SameThreads, Loaded
<1>3. Fresh(v)
  BY DEF ThreadInv, SameThreads, Fresh
<1> QED BY <1>1, <1>2, <1>3, SMTT(60) DEF ThreadInv, SameThreads

\* Parking the caller and running the next thread is a good outcome.
LEMMA ParkGood ==
  ASSUME NEW u, NEW c, ThreadInv(u, c), NEW a \in Addr, NEW r \in Answers
  PROVE  Good(park_me(u, c, r, a))
<1> DEFINE v == park(u, a, u.active_tid)
<1>1. /\ Sound(u, {}) /\ Loaded(u, c) /\ Fresh(u) /\ u.active_tid \in Tids
      /\ u.state[u.active_tid] = "RUNNABLE"
  BY SMTT(60) DEF ThreadInv, Sound, ThreadSet
<1>2. /\ Sound(v, {}) /\ v.active_tid = u.active_tid /\ v.next_tid = u.next_tid
      /\ v.area = u.area
      /\ \A y \in Tids : v.state[y] = "NONE" <=> u.state[y] = "NONE"
  BY <1>1, Park
<1> HIDE DEF v
<1>3. Loaded(v, c) /\ Fresh(v)
  BY <1>1, <1>2 DEF Loaded, Fresh
<1>4. Good(swap_to_next(v, c, r))
  BY <1>2, <1>3, YieldGood
<1> QED BY <1>4, SMTT(60) DEF park_me, v

\* Counts, tids and the errnos are answers; a tick is a time.
LEMMA AnswersInclude ==
  /\ Nat \in SUBSET Answers
  /\ EAGAIN \in Answers /\ EFAULT \in Answers /\ EINVAL \in Answers
  /\ ETIMEDOUT \in Answers
  /\ Tick \in ClockRange /\ Tids \in SUBSET Nat
BY ConstantsAssumption DEF Answers, Tick, ClockRange, Tids

\* A call that returns a good outcome keeps the machine's invariant.
LEMMA ReturnsInv ==
  ASSUME IInv, NEW s, NEW d \in ClockRange \cup {None}, Good(s), Returns(s, d)
  PROVE  MachineInv' /\ asked' \in Asked
<1>1. t' = s.t /\ ctx' = s.ctx /\ dead' = s.dead
      /\ asked' = [asked EXCEPT ![me] = d]
  BY DEF Returns
<1>2. asked \in Asked /\ me \in Tids
  BY DEF IInv, MachineInv, GuestInv, me, ThreadSet
<1>3. asked' \in Asked
  BY <1>1, <1>2 DEF Asked
<1> QED BY <1>1, <1>3 DEF MachineInv, Good

\* A call that touches the thread set alone keeps the whole invariant.
LEMMA DoneInv ==
  ASSUME IInv, NEW s, Good(s), Done(s), UNCHANGED guest
  PROVE  IInv'
<1>1. MachineInv' /\ asked' \in Asked
  BY ReturnsInv DEF Done
<1>2. ImageInv'
  BY DEF guest, IInv, ImageInv
<1> QED BY <1>1, <1>2 DEF guest, IInv, GuestInv

-----------------------------------------------------------------------------
(* Each action keeps the invariant. *)

\* Before a call the thread set is well formed.
LEMMA CallState ==
  ASSUME IInv, Call
  PROVE  /\ ThreadInv(t, ctx) /\ Sound(t, {}) /\ Loaded(t, ctx) /\ Fresh(t)
         /\ t \in ThreadSet /\ me \in Tids /\ t.active_tid = me
         /\ t.state[me] = "RUNNABLE" /\ t.vclock \in ClockRange
BY Zenon DEF IInv, MachineInv, Call, ThreadInv, Sound, ThreadSet, me

\* After a move of the clock it still is.
LEMMA AdvanceInv ==
  ASSUME NEW u, NEW c, ThreadInv(u, c), NEW n \in ClockRange
  PROVE  ThreadInv(advance(u, n), c)
<1>1. Sound(u, {})
  BY DEF ThreadInv
<1>2. Sound(advance(u, n), {}) /\ SameThreads(u, advance(u, n))
  BY <1>1, Advance
<1> QED BY <1>2, SameInv

\* Nor does a wake disturb it.
LEMMA UnparkInv ==
  ASSUME NEW u, NEW c, ThreadInv(u, c), NEW a \in Addr, NEW n \in Nat
  PROVE  ThreadInv(unpark(u, a, n), c) /\ Len(Woken(u, a, n)) \in Nat
<1>1. Sound(u, {})
  BY SMTT(60) DEF ThreadInv
<1>2. /\ Sound(unpark(u, a, n), {}) /\ SameThreads(u, unpark(u, a, n))
      /\ Woken(u, a, n) \in Seq(Tids)
  BY <1>1, Unpark
<1> QED BY <1>2, SameInv, SMTT(60)

\* sched_yield, clock_gettime, nanosleep, clock_nanosleep.
LEMMA ClockInv ==
  ASSUME IInv, Clock
  PROVE  IInv'
<1>1. Call
  BY SMTT(60) DEF Clock, sched_yield, clock_gettime, nanosleep, clock_nanosleep
<1>2. ThreadInv(t, ctx)
  BY <1>1, CallState
<1>3. ASSUME NEW u, ThreadInv(u, ctx), NEW r \in Answers
      PROVE  Good(swap_to_next(u, ctx, r))
  BY <1>3, YieldGood DEF ThreadInv
<1>4. CASE sched_yield
  <2>1. ThreadInv(lone_yield(t), ctx)
    BY <1>2, AdvanceInv, AnswersInclude DEF lone_yield
  <2>2. Good(swap_to_next(lone_yield(t), ctx, 0))
    BY <1>3, <2>1, AnswersInclude
  <2> QED BY <1>4, <2>2, DoneInv DEF sched_yield
<1>5. CASE clock_gettime
  <2> DEFINE s == IF MachineSpec = 3 THEN swap_to_next(advance(t, Tick), ctx, 0)
                                     ELSE Answer(t, 0)
  <2>1. ThreadInv(advance(t, Tick), ctx)
    BY <1>2, AdvanceInv, AnswersInclude
  <2>2. Good(s)
    BY <1>2, <1>3, <2>1, AnswerGood, AnswersInclude
  <2>3. Done(s) /\ UNCHANGED guest
    BY <1>5 DEF clock_gettime
  <2> HIDE DEF s
  <2> QED BY <2>2, <2>3, DoneInv
<1>6. ASSUME NEW n \in Times, nanosleep(n)
      PROVE  IInv'
  <2> DEFINE u == IF MachineSpec = 3 THEN advance(t, ns_of(n)) ELSE t
  <2>1. ns_of(n) \in ClockRange
    BY ClockArithmetic, ConstantsAssumption
  <2>2. ThreadInv(u, ctx)
    BY <1>2, <2>1, AdvanceInv
  <2>3. Done(swap_to_next(u, ctx, 0)) /\ UNCHANGED guest
    BY <1>6 DEF nanosleep
  <2> HIDE DEF u
  <2>4. Good(swap_to_next(u, ctx, 0))
    BY <1>3, <2>2, AnswersInclude
  <2> QED BY <2>3, <2>4, DoneInv
<1>7. ASSUME NEW n \in Times, NEW good \in BOOLEAN, clock_nanosleep(n, good)
      PROVE  IInv'
  <2> DEFINE ahead == past_start(n) - t.vclock
             u == IF ahead > 0 THEN advance(t, ahead) ELSE t
             s == IF good THEN swap_to_next(u, ctx, 0) ELSE Answer(u, EFAULT)
  <2>1. past_start(n) \in ClockRange /\ t.vclock \in ClockRange
    BY <1>1, CallState, ClockArithmetic, ConstantsAssumption
  <2>2. ahead > 0 => ahead \in ClockRange
    <3> DEFINE p == past_start(n)
               v == t.vclock
    <3>1. PICK m \in Nat : ClockRange = 0..m
      BY ClockArithmetic
    <3>2. p \in 0..m /\ v \in 0..m
      BY <2>1, <3>1
    <3> HIDE DEF p, v
    <3>3. p - v > 0 => p - v \in 0..m
      BY <3>2
    <3> QED BY <3>1, <3>3 DEF p, v
  <2> HIDE DEF ahead
  <2>3. ThreadInv(u, ctx)
    BY <1>2, <2>2, AdvanceInv
  <2>4. Done(s) /\ UNCHANGED guest
    BY <1>7 DEF clock_nanosleep, ahead
  <2> HIDE DEF u
  <2>5. Good(s)
    BY <1>3, <2>3, AnswerGood, AnswersInclude
  <2> HIDE DEF s
  <2> QED BY <2>4, <2>5, DoneInv
<1> QED BY <1>4, <1>5, <1>6, <1>7 DEF Clock

\* mb_threads_futex_wait.
LEMMA WaitInv ==
  ASSUME IInv, NEW a \in Plain, NEW v, futex_wait(a, v)
  PROVE  IInv'
<1> DEFINE s == IF word[a] # v THEN Answer(t, EAGAIN) ELSE park_me(t, ctx, 0, a)
<1>1. Call /\ Done(s) /\ UNCHANGED guest
  BY DEF futex_wait
<1>2. ThreadInv(t, ctx)
  BY <1>1, CallState
<1>3. Good(s)
  BY <1>2, AnswerGood, ParkGood, AnswersInclude, SMTT(60) DEF Addr
<1> HIDE DEF s
<1> QED BY <1>1, <1>3, DoneInv

\* mb_threads_futex_wait_timeout: parks with a deadline ahead of the clock, or
\* does not park.
LEMMA WaitTimeoutInv ==
  ASSUME IInv, NEW a \in Plain, NEW v, NEW n \in Times, NEW abs \in BOOLEAN,
         futex_wait_timeout(a, v, n, abs)
  PROVE  IInv'
<1> DEFINE deadline == IF abs THEN past_start(n) ELSE ns_add(t.vclock, ns_of(n))
           late == advance(t, Tick)
           parked == [park(t, a, me) EXCEPT !.deadline[me] = deadline]
           s == IF word[a] # v THEN Answer(t, EAGAIN)
                ELSE IF deadline > t.vclock THEN swap_to_next(parked, ctx, 0)
                ELSE IF KitRevision >= 2 THEN swap_to_next(late, ctx, ETIMEDOUT)
                ELSE Answer(late, ETIMEDOUT)
<1>1. Call /\ Returns(s, deadline) /\ UNCHANGED guest
  BY DEF futex_wait_timeout
<1>2. /\ ThreadInv(t, ctx) /\ Sound(t, {}) /\ Loaded(t, ctx) /\ Fresh(t)
      /\ t \in ThreadSet /\ me \in Tids /\ t.active_tid = me
      /\ t.state[me] = "RUNNABLE" /\ t.vclock \in ClockRange
  BY <1>1, CallState, SMTT(60)
<1>3. deadline \in ClockRange
  BY <1>2, ClockArithmetic, ConstantsAssumption, Zenon
<1>4. ThreadInv(late, ctx)
  BY <1>2, AdvanceInv, AnswersInclude, SMTT(60)
<1> HIDE DEF deadline, late
<1>5. Good(swap_to_next(late, ctx, ETIMEDOUT))
  BY <1>4, YieldGood, AnswersInclude, SMTT(60) DEF ThreadInv
<1>6. Good(Answer(late, ETIMEDOUT)) /\ Good(Answer(t, EAGAIN))
  BY <1>2, <1>4, AnswerGood, AnswersInclude, SMTT(60)
<1>7. ASSUME deadline > t.vclock
      PROVE  Good(swap_to_next(parked, ctx, 0))
  <2> DEFINE p == park(t, a, me)
             dl == [p.deadline EXCEPT ![me] = deadline]
  <2>1. /\ Sound(p, {}) /\ p.state[me] = "WAITING"
        /\ p.active_tid = me /\ p.next_tid = t.next_tid
        /\ p.area = t.area /\ p.vclock = t.vclock
        /\ \A y \in Tids : p.state[y] = "NONE" <=> t.state[y] = "NONE"
    BY <1>2, Park, SMTT(60) DEF Addr
  <2> HIDE DEF p
  <2>2. p \in ThreadSet /\ QueuedBut(p, {}) /\ Ahead(p)
    BY <2>1, SMTT(60) DEF Sound
  <2>3. dl \in [Tids -> ClockRange]
    BY <1>2, <1>3, <2>2 DEF ThreadSet
  <2>4. parked = [p EXCEPT !.deadline = dl]
    BY <2>2 DEF ThreadSet, p
  <2> HIDE DEF dl, parked
  <2>5. /\ parked \in ThreadSet /\ parked.state = p.state
        /\ parked.queue = p.queue /\ parked.deadline = dl
        /\ parked.vclock = p.vclock /\ parked.active_tid = p.active_tid
        /\ parked.next_tid = p.next_tid /\ parked.area = p.area
    BY <2>2, <2>3, <2>4, Zenon DEF ThreadSet
  <2>6. QueuedBut(parked, {})
    BY <2>2, <2>5, QueuedSame, SMTT(60)
  <2>7. Ahead(parked)
    <3>1. \A x \in Tids : dl[x] = IF x = me THEN deadline ELSE p.deadline[x]
      BY <2>2, SMTT(60) DEF dl, ThreadSet
    <3> QED BY <1>7, <2>1, <2>2, <2>5, <3>1 DEF Ahead
  <2>8. Loaded(parked, ctx) /\ Fresh(parked)
    BY <1>2, <2>1, <2>5 DEF Loaded, Fresh
  <2> QED BY <2>5, <2>6, <2>7, <2>8, YieldGood, AnswersInclude, SMTT(60) DEF Sound
<1>8. Good(s)
  <2> HIDE DEF parked
  <2> QED BY <1>5, <1>6, <1>7
<1> HIDE DEF s
<1>9. MachineInv' /\ asked' \in Asked
  BY <1>1, <1>3, <1>8, ReturnsInv
<1> QED BY <1>1, <1>9 DEF guest, IInv, ImageInv, GuestInv

\* FUTEX_WAKE.
LEMMA WakeInv ==
  ASSUME IInv, NEW a \in Plain, NEW n \in 0..MaxCount, futex_wake(a, n)
  PROVE  IInv'
<1> DEFINE u == unpark(t, a, n)
           count == Len(Woken(t, a, n))
           s == IF MachineSpec = 3 THEN swap_to_next(u, ctx, count)
                                   ELSE Answer(u, count)
<1>1. Call /\ Done(s) /\ UNCHANGED guest
  BY SMTT(60) DEF futex_wake
<1>2. ThreadInv(t, ctx) /\ n \in Nat /\ a \in Addr
  BY <1>1, CallState, ConstantsAssumption DEF Addr
<1>3. ThreadInv(u, ctx) /\ count \in Answers
  BY <1>2, UnparkInv, AnswersInclude, SMTT(60)
<1> HIDE DEF u, count
<1>4. Good(s)
  BY <1>3, YieldGood, AnswerGood DEF ThreadInv
<1> HIDE DEF s
<1> QED BY <1>1, <1>4, DoneInv

\* mb_threads_futex_requeue: the moved threads were waiters of the first word
\* and become waiters of the second, in order.
LEMMA RequeueInv ==
  ASSUME IInv, NEW from \in Plain, NEW to \in Plain, NEW m \in 0..MaxCount,
         NEW n \in 0..MaxCount, futex_requeue(from, to, m, n)
  PROVE  IInv'
<1> DEFINE k == m + n
           W == Woken(t, from, k)
           moved == SubSeq(W, m + 1, Len(W))
           v == unpark(t, from, k)
           w == Requeued(t, from, to, m, n)
<1>1. Call /\ Done(Answer(w, Len(W))) /\ UNCHANGED guest
  BY SMTT(60) DEF futex_requeue
<1>2. /\ ThreadInv(t, ctx) /\ Sound(t, {}) /\ t.state[me] = "RUNNABLE"
      /\ me \in Tids /\ t.active_tid = me
  BY <1>1, CallState
<1>3. k \in Nat /\ m \in Nat /\ from \in Addr /\ to \in Addr
  BY ConstantsAssumption DEF Addr
<1>4. w = Enqueued(v, to, moved)
  BY DEF Requeued, Enqueued
<1> HIDE DEF k
<1>5. /\ Sound(v, {}) /\ SameThreads(t, v) /\ W \in Seq(Tids)
      /\ \A j \in DOMAIN W : t.state[W[j]] = "WAITING" /\ v.state[W[j]] = "RUNNABLE"
      /\ \A i, j \in DOMAIN W : W[i] = W[j] => i = j
  BY <1>2, <1>3, Unpark, Zenon
<1> HIDE DEF v, W, w
<1>6. Len(W) \in Nat /\ DOMAIN W = 1..Len(W)
  BY <1>5
<1>7. /\ moved \in Seq(Tids) /\ DOMAIN moved \in SUBSET Int
      /\ \A j \in DOMAIN moved : j + m \in DOMAIN W /\ moved[j] = W[j + m]
  BY <1>3, <1>5, <1>6, SMTT(60)
<1> HIDE DEF moved
<1>8. /\ \A j \in DOMAIN moved : /\ v.state[moved[j]] = "RUNNABLE"
                                 /\ t.state[moved[j]] = "WAITING"
      /\ \A i, j \in DOMAIN moved : moved[i] = moved[j] => i = j
  <2>1. \A i, j \in DOMAIN moved : moved[i] = moved[j] => i + m = j + m
    BY <1>5, <1>7, SMTT(60)
  <2> QED BY <1>3, <1>5, <1>7, <2>1, SMTT(60)
<1>9. /\ Sound(w, {})
      /\ w.active_tid = v.active_tid /\ w.next_tid = v.next_tid /\ w.area = v.area
      /\ \A x \in Tids : /\ w.state[x] = "NONE" <=> v.state[x] = "NONE"
                         /\ \/ w.state[x] = v.state[x]
                            \/ \E j \in DOMAIN moved : moved[j] = x
  BY <1>3, <1>4, <1>5, <1>7, <1>8, Enqueue, SMTT(60)
<1>10. SameThreads(t, w)
  <2>1. \A x \in Tids : t.state[x] = "RUNNABLE" => w.state[x] = "RUNNABLE"
    BY <1>5, <1>8, <1>9, SMTT(60) DEF SameThreads
  <2> QED BY <1>5, <1>9, <2>1, SMTT(60) DEF SameThreads
<1>11. ThreadInv(w, ctx) /\ Len(W) \in Answers
  BY <1>2, <1>6, <1>9, <1>10, SameInv, AnswersInclude
<1>12. Good(Answer(w, Len(W)))
  BY <1>11, AnswerGood
<1> QED BY <1>1, <1>12, DoneInv

\* mb_threads_futex_lock_pi.
LEMMA LockPiInv ==
  ASSUME IInv, NEW p \in Pi, futex_lock_pi(p)
  PROVE  IInv'
<1> DEFINE free == lock[p].owner = 0
           s == IF free THEN Answer(t, 0) ELSE park_me(t, ctx, 0, p)
<1>1. /\ Call /\ Done(s) /\ UNCHANGED <<word, stack, image>>
      /\ lock' = [lock EXCEPT ![p] = IF free THEN Owned
                                     ELSE [lock[p] EXCEPT !.waiters = TRUE]]
  BY DEF futex_lock_pi
<1>2. ThreadInv(t, ctx) /\ me \in Tids
  BY <1>1, CallState
<1>3. Good(s)
  BY <1>2, AnswerGood, ParkGood, AnswersInclude DEF Addr
<1>4. lock' \in Locks
  <2>1. lock[p] \in [owner : 0..MaxTid, waiters : BOOLEAN] /\ lock \in Locks
    BY DEF IInv, GuestInv, Locks
  <2>2. Owned \in [owner : 0..MaxTid, waiters : BOOLEAN]
    BY <1>2, ConstantsAssumption DEF Owned, Tids
  <2>3. [lock[p] EXCEPT !.waiters = TRUE] \in [owner : 0..MaxTid, waiters : BOOLEAN]
    BY <2>1, Zenon
  <2> QED BY <1>1, <2>1, <2>2, <2>3 DEF Locks
<1> HIDE DEF s
<1>5. MachineInv' /\ asked' \in Asked
  BY <1>1, <1>3, ReturnsInv DEF Done
<1> QED BY <1>1, <1>4, <1>5 DEF IInv, ImageInv, GuestInv

\* mb_threads_futex_unlock_pi, which hands the machine to the thread it wakes.
LEMMA UnlockPiInv ==
  ASSUME IInv, NEW p \in Pi, futex_unlock_pi(p)
  PROVE  IInv'
<1> DEFINE u == unpark(t, p, 1)
           W == Woken(t, p, 1)
           new == IF W = << >> THEN Free ELSE handed(W[1], u.queue[p] # << >>)
           s == IF W = << >> THEN Answer(u, 0) ELSE swap_to(u, ctx, W[1], 0)
<1>1. /\ Call /\ Done(s) /\ UNCHANGED <<word, stack, image>>
      /\ lock' = [lock EXCEPT ![p] = new]
  BY SMTT(60) DEF futex_unlock_pi
<1>2. ThreadInv(t, ctx) /\ Sound(t, {}) /\ me \in Tids
  BY <1>1, CallState
<1>3. p \in Addr /\ 1 \in Nat
  BY SMTT(60) DEF Addr
<1>4. /\ Sound(u, {}) /\ W \in Seq(Tids)
      /\ \A j \in DOMAIN W : u.state[W[j]] = "RUNNABLE"
  BY <1>2, <1>3, Unpark
<1>5. ThreadInv(u, ctx)
  BY <1>2, <1>3, UnparkInv
<1> HIDE DEF u, W
<1>6. W # << >> => W[1] \in Tids /\ 1 \in DOMAIN W
  BY <1>4
<1>7. Good(s)
  <2>1. CASE W = << >>
    BY <1>5, <2>1, AnswerGood, AnswersInclude
  <2>2. CASE W # << >>
    <3> DEFINE o == swap_to(u, ctx, W[1], 0)
    <3>1. /\ Sound(o.t, {}) /\ Loaded(o.t, o.ctx)
          /\ o.dead = "no" /\ o.t.active_tid = W[1]
          /\ o.t.state = u.state /\ o.t.next_tid = u.next_tid
      <4> DEFINE x == W[1]
      <4>1. x \in Tids /\ u.state[x] = "RUNNABLE"
        BY <1>4, <1>6, <2>2
      <4>2. Loaded(u, ctx) /\ 0 \in Answers
        BY <1>5, AnswersInclude, SMTT(60) DEF ThreadInv
      <4> HIDE DEF x
      <4>3. LET z == swap_to(u, ctx, x, 0)
            IN /\ Sound(z.t, {}) /\ Loaded(z.t, z.ctx)
               /\ z.dead = "no" /\ z.t.active_tid = x
               /\ z.t.state = u.state /\ z.t.next_tid = u.next_tid
        BY <1>4, <4>1, <4>2, SwapTo, SMTT(60)
      <4> QED BY <4>3 DEF x
    <3> HIDE DEF o
    <3>2. Fresh(o.t) /\ o.t.state[o.t.active_tid] = "RUNNABLE"
      BY <1>4, <1>5, <1>6, <2>2, <3>1 DEF Fresh, ThreadInv
    <3>3. o.ctx \in 0..MaxTid /\ o.t \in ThreadSet
      BY <1>6, <2>2, <3>1, ConstantsAssumption DEF Loaded, Tids, Sound
    <3>4. Good(o)
      BY <3>1, <3>2, <3>3 DEF Good, ThreadInv, Deaths
    <3> QED BY <2>2, <3>4, SMTT(60) DEF o
  <2> QED BY <2>1, <2>2
<1>8. lock' \in Locks
  <2>1. lock \in Locks
    BY DEF IInv, GuestInv
  <2>2. new \in [owner : 0..MaxTid, waiters : BOOLEAN]
    BY <1>6, ConstantsAssumption DEF Free, handed, Tids
  <2> HIDE DEF new
  <2> QED BY <1>1, <2>1, <2>2 DEF Locks
<1> HIDE DEF s
<1>9. MachineInv' /\ asked' \in Asked
  BY <1>1, <1>7, ReturnsInv DEF Done
<1> QED BY <1>1, <1>8, <1>9, SMTT(60) DEF IInv, ImageInv, GuestInv

\* The futex calls together.
LEMMA FutexInv ==
  ASSUME IInv, Futex
  PROVE  IInv'
BY WaitInv, WaitTimeoutInv, WakeInv, RequeueInv, LockPiInv, UnlockPiInv DEF Futex

\* set_tid_address and the held unmap touch fields the invariant does not
\* constrain.
LEMMA SetTidAddressInv ==
  ASSUME IInv, NEW a \in Joins \cup {NoAddr}, set_tid_address(a)
  PROVE  IInv'
<1> DEFINE ta == [t.tid_address EXCEPT ![me] = a]
           u == [t EXCEPT !.tid_address[me] = a]
<1>1. Call /\ Done(Answer(u, me)) /\ UNCHANGED guest
  BY DEF set_tid_address
<1>2. ThreadInv(t, ctx) /\ t \in ThreadSet /\ Sound(t, {}) /\ me \in Tids
  BY <1>1, CallState
<1>3. ta \in [Tids -> Plain \cup {NoAddr}] /\ u = [t EXCEPT !.tid_address = ta]
  BY <1>2, ConstantsAssumption, SMTT(60) DEF ThreadSet
<1> HIDE DEF ta, u
<1>4. /\ u \in ThreadSet /\ u.state = t.state /\ u.queue = t.queue
      /\ u.deadline = t.deadline /\ u.area = t.area /\ u.vclock = t.vclock
      /\ u.active_tid = t.active_tid /\ u.next_tid = t.next_tid
  BY <1>2, <1>3, Zenon DEF ThreadSet
<1>5. Sound(u, {}) /\ SameThreads(t, u)
  <2>1. Sound(u, {})
    BY <1>2, <1>4, SoundSame, Zenon
  <2> QED BY <1>4, <2>1, SMTT(60) DEF SameThreads
<1>6. Good(Answer(u, me))
  BY <1>2, <1>5, SameInv, AnswerGood, AnswersInclude
<1> QED BY <1>1, <1>6, DoneInv

\* mb_threads_hold_stack_unmap.
LEMMA HoldInv ==
  ASSUME IInv, hold_stack_unmap
  PROVE  IInv'
<1> DEFINE pd == [t.pending EXCEPT ![me] = TRUE]
           u == [t EXCEPT !.pending[me] = TRUE]
<1>1. Call /\ Done(Answer(u, 0)) /\ UNCHANGED guest
  BY DEF hold_stack_unmap
<1>2. ThreadInv(t, ctx) /\ t \in ThreadSet /\ Sound(t, {}) /\ me \in Tids
  BY <1>1, CallState
<1>3. pd \in [Tids -> BOOLEAN] /\ u = [t EXCEPT !.pending = pd]
  BY <1>2 DEF ThreadSet
<1> HIDE DEF pd, u
<1>4. /\ u \in ThreadSet /\ u.state = t.state /\ u.queue = t.queue
      /\ u.deadline = t.deadline /\ u.area = t.area /\ u.vclock = t.vclock
      /\ u.active_tid = t.active_tid /\ u.next_tid = t.next_tid
  BY <1>2, <1>3, Zenon DEF ThreadSet
<1>5. Sound(u, {}) /\ SameThreads(t, u)
  <2>1. Sound(u, {})
    BY <1>2, <1>4, SoundSame, Zenon
  <2> QED BY <1>4, <2>1, SMTT(60) DEF SameThreads
<1>6. Good(Answer(u, 0))
  BY <1>2, <1>5, SameInv, AnswerGood, AnswersInclude
<1> QED BY <1>1, <1>6, DoneInv

\* mb_threads_spawn: the new thread's tid names no thread, so no queue has it.
LEMMA SpawnInv ==
  ASSUME IInv, NEW a \in Joins \cup {NoAddr}, spawn(a)
  PROVE  IInv'
<1> DEFINE n == t.next_tid
           st == [t.state EXCEPT ![n] = "RUNNABLE"]
           rx == [t.rax EXCEPT ![n] = 0]
           ar == [t.area EXCEPT ![n] = n]
           ta == [t.tid_address EXCEPT ![n] = a]
           u == [t EXCEPT !.state[n] = "RUNNABLE", !.rax[n] = 0, !.area[n] = n,
                          !.tid_address[n] = a, !.next_tid = n + 1]
<1>1. /\ Call /\ n <= MaxTid /\ Done(Answer(u, n))
      /\ stack' = [stack EXCEPT ![n] = TRUE]
      /\ UNCHANGED <<word, lock, image>>
  BY DEF spawn
<1>2. /\ ThreadInv(t, ctx) /\ Sound(t, {}) /\ Loaded(t, ctx) /\ Fresh(t)
      /\ t \in ThreadSet /\ me \in Tids /\ t.active_tid = me
      /\ t.state[me] = "RUNNABLE"
  BY <1>1, CallState
<1>3. n \in Tids /\ n \in Nat /\ n + 1 \in 2..(MaxTid + 1)
  BY <1>1, <1>2, ConstantsAssumption, SMTT(60) DEF ThreadSet, Tids
<1>4. /\ st \in [Tids -> {"NONE", "RUNNABLE", "WAITING"}]
      /\ rx \in [Tids -> Answers] /\ ar \in [Tids -> 0..MaxTid]
      /\ ta \in [Tids -> Plain \cup {NoAddr}]
  BY <1>2, <1>3, ConstantsAssumption, AnswersInclude, SMTT(60) DEF ThreadSet, Tids
<1>5. u = [t EXCEPT !.state = st, !.rax = rx, !.area = ar,
                    !.tid_address = ta, !.next_tid = n + 1]
  BY <1>2 DEF ThreadSet
<1> HIDE DEF st, rx, ar, ta, u
<1>6. /\ u \in ThreadSet /\ u.state = st /\ u.queue = t.queue
      /\ u.deadline = t.deadline /\ u.area = ar /\ u.vclock = t.vclock
      /\ u.active_tid = t.active_tid /\ u.next_tid = n + 1
  BY <1>2, <1>3, <1>4, <1>5, Zenon DEF ThreadSet
<1>7. t.state[n] = "NONE" /\ n # me
  BY <1>2, <1>3 DEF Fresh
<1>8. \A x \in Tids : /\ x # n => st[x] = t.state[x] /\ ar[x] = t.area[x]
                      /\ x = n => st[x] = "RUNNABLE" /\ ar[x] = n
  BY <1>2, SMTT(60) DEF st, ar, ThreadSet
<1>9. QueuedBut(u, {}) /\ Ahead(u)
  <2>1. \A x \in Tids : u.state[x] = "WAITING" <=> t.state[x] = "WAITING"
    BY <1>6, <1>7, <1>8
  <2>2. QueuedBut(t, {}) /\ Ahead(t)
    BY <1>2, Zenon DEF Sound
  <2>3. QueuedBut(u, {})
    BY <1>2, <1>6, <2>1, <2>2, QueuedSame, SMTT(60)
  <2>4. Ahead(u)
    BY <1>6, <2>1, <2>2, SMTT(60) DEF Ahead
  <2> QED BY <2>3, <2>4
<1>10. Loaded(u, ctx) /\ u.state[u.active_tid] = "RUNNABLE"
  BY <1>2, <1>6, <1>7, <1>8, SMTT(60) DEF Loaded
<1>11. Fresh(u)
  <2> SUFFICES ASSUME NEW x \in Tids, x >= n + 1 PROVE st[x] = "NONE"
    BY <1>6 DEF Fresh
  <2>1. x >= n /\ x # n
    BY <1>3 DEF Tids
  <2> QED BY <1>2, <1>8, <2>1 DEF Fresh
<1>12. ThreadInv(u, ctx) /\ n \in Answers
  BY <1>3, <1>6, <1>9, <1>10, <1>11, AnswersInclude DEF ThreadInv, Sound
<1> HIDE DEF n
<1>13. Good(Answer(u, n))
  BY <1>12, AnswerGood
<1>14. MachineInv' /\ asked' \in Asked
  BY <1>1, <1>13, ReturnsInv DEF Done
<1>15. stack' \in [Tids -> BOOLEAN]
  BY <1>1, Zenon DEF IInv, GuestInv
<1> QED BY <1>1, <1>14, <1>15, Zenon DEF IInv, ImageInv, GuestInv

\* The dying thread waits in no queue while the next is chosen, and is gone
\* after.
LEMMA ExitInv ==
  ASSUME IInv, exit
  PROVE  IInv'
<1> DEFINE a == t.tid_address[me]
           u == IF a = NoAddr THEN t ELSE unpark(t, a, 1)
           l == leave(u)
           s == swap_to_next(l, ctx, 0)
           gone == remove_thread(s.t, me)
           out == IF me = 1 THEN Outcome(t, ctx, "main thread exited")
                  ELSE IF s.dead # "no" THEN s
                  ELSE IF s.t.active_tid = me
                       THEN [s EXCEPT !.dead = "last thread exited"]
                  ELSE [s EXCEPT !.t = gone]
<1>1. /\ Call /\ Done(out)
      /\ word' = IF a # NoAddr /\ me # 1 THEN [word EXCEPT ![a] = 0] ELSE word
      /\ stack' = IF t.pending[me] /\ out.dead = "no"
                  THEN [stack EXCEPT ![me] = FALSE] ELSE stack
      /\ UNCHANGED <<lock, image>>
  BY Zenon DEF exit
<1>2. /\ ThreadInv(t, ctx) /\ t \in ThreadSet /\ me \in Tids /\ t.active_tid = me
  BY <1>1, CallState, Zenon
<1>3. a \in Plain \cup {NoAddr}
  BY <1>2 DEF ThreadSet
<1>4. ThreadInv(u, ctx)
  <2>1. a # NoAddr => a \in Addr /\ 1 \in Nat
    BY <1>3 DEF Addr
  <2> HIDE DEF a
  <2> QED BY <1>2, <2>1, UnparkInv
<1>5. /\ u \in ThreadSet /\ QueuedBut(u, {}) /\ Ahead(u) /\ Fresh(u)
      /\ u.active_tid = me /\ u.state[me] = "RUNNABLE" /\ Loaded(u, ctx) /\ ctx = me
  <2> HIDE DEF u
  <2> QED BY <1>2, <1>4 DEF ThreadInv, Sound, Loaded
<1> HIDE DEF u
<1>6. /\ l \in ThreadSet /\ l.queue = u.queue /\ l.deadline = u.deadline
      /\ l.area = u.area /\ l.vclock = u.vclock /\ l.next_tid = u.next_tid
      /\ l.active_tid = me
      /\ l.state = [u.state EXCEPT ![me] = "WAITING"]
  <2> DEFINE st == [u.state EXCEPT ![me] = "WAITING"]
             pd == [u.pending EXCEPT ![me] = FALSE]
  <2>1. l = [u EXCEPT !.state = st, !.pending = pd]
    BY <1>5 DEF leave, ThreadSet
  <2>2. st \in [Tids -> {"NONE", "RUNNABLE", "WAITING"}] /\ pd \in [Tids -> BOOLEAN]
    BY <1>5 DEF ThreadSet
  <2>3. l.state = st
    BY <1>5, <2>1 DEF ThreadSet
  <2> HIDE DEF st, pd, l
  <2>4. /\ l \in ThreadSet /\ l.queue = u.queue /\ l.deadline = u.deadline
        /\ l.area = u.area /\ l.vclock = u.vclock /\ l.next_tid = u.next_tid
        /\ l.active_tid = me
    BY <1>5, <2>1, <2>2, Zenon DEF ThreadSet
  <2> QED BY <2>3, <2>4 DEF st
<1> HIDE DEF l
<1>7. /\ \A x \in Tids \ {me} : l.state[x] = u.state[x]
      /\ l.state[me] = "WAITING"
  BY <1>2, <1>5, <1>6, SMTT(60) DEF ThreadSet
<1>8. QueuedBut(l, {me})
  <2>1. /\ \A x \in Tids \ {me} : l.state[x] = u.state[x]
        /\ \A x \in Tids : u.state[x] = "WAITING" => x # me
    BY <1>5, <1>7, Zenon
  <2>2. \A x \in Tids \ {me} : l.state[x] = "WAITING" => u.state[x] = "WAITING"
    BY <2>1, Zenon
  <2>3. \A x \in Tids : u.state[x] = "WAITING" =>
          l.state[x] = "WAITING" /\ x \notin {me}
    BY <2>1, SMTT(60)
  <2> QED BY <1>5, <1>6, <2>2, <2>3, QueuedSame, Zenon
<1>9. Ahead(l)
  BY <1>5, <1>6, <1>7, SMTT(60) DEF Ahead
<1>10. Loaded(l, ctx)
  BY <1>5, <1>6, <1>7 DEF Loaded
<1>11. /\ s.t \in ThreadSet /\ s.ctx \in 0..MaxTid /\ s.dead \in {"no", "deadlock"}
       /\ s.dead = "no" =>
            /\ Sound(s.t, {me}) /\ Loaded(s.t, s.ctx)
            /\ s.t.state[s.t.active_tid] = "RUNNABLE"
            /\ s.t.next_tid = l.next_tid
            /\ \A x \in Tids : s.t.state[x] = "NONE" <=> l.state[x] = "NONE"
  <2>1. Sound(l, {me}) /\ 0 \in Answers
    BY <1>6, <1>8, <1>9, AnswersInclude DEF Sound
  <2> QED BY <1>10, <2>1, SwapToNext, Zenon
<1>12. s = Outcome(s.t, s.ctx, s.dead)
  BY DEF swap_to_next, swap_to, Outcome
<1> HIDE DEF s
<1>13. Good(out)
  <2>1. CASE me = 1
    <3>1. out.t = t /\ out.ctx = ctx /\ out.dead = "main thread exited"
      BY <2>1 DEF Outcome
    <3>2. ctx \in 0..MaxTid
      BY <1>2, <1>5, ConstantsAssumption DEF Tids
    <3> QED BY <1>2, <3>1, <3>2, Zenon DEF Good, Deaths
  <2>2. CASE me # 1 /\ s.dead # "no"
    BY <1>11, <2>2, Zenon DEF Good, Deaths
  <2>3. CASE me # 1 /\ s.dead = "no" /\ s.t.active_tid = me
    <3>1. out.t = s.t /\ out.ctx = s.ctx /\ out.dead = "last thread exited"
      BY <1>12, <2>3 DEF Outcome
    <3> QED BY <1>11, <3>1, Zenon DEF Good, Deaths
  <2>4. CASE me # 1 /\ s.dead = "no" /\ s.t.active_tid # me
    <3> DEFINE o == s.t
               st == [o.state EXCEPT ![me] = "NONE"]
               rx == [o.rax EXCEPT ![me] = 0]
               ar == [o.area EXCEPT ![me] = 0]
               ta == [o.tid_address EXCEPT ![me] = NoAddr]
               dl == [o.deadline EXCEPT ![me] = 0]
    <3>1. out.t = gone /\ out.ctx = s.ctx /\ out.dead = "no"
      BY <1>12, <2>4, SMTT(60) DEF Outcome
    <3>2. /\ o \in ThreadSet /\ QueuedBut(o, {me}) /\ Ahead(o)
          /\ Loaded(o, s.ctx) /\ o.state[o.active_tid] = "RUNNABLE"
          /\ o.next_tid = l.next_tid /\ o.active_tid # me
          /\ \A x \in Tids : o.state[x] = "NONE" <=> l.state[x] = "NONE"
      BY <1>11, <2>4 DEF Sound
    <3> HIDE DEF o
    <3>3. gone = [o EXCEPT !.state = st, !.rax = rx, !.area = ar,
                           !.tid_address = ta, !.deadline = dl]
      BY <3>2 DEF remove_thread, ThreadSet, o
    <3>4. /\ st \in [Tids -> {"NONE", "RUNNABLE", "WAITING"}]
          /\ rx \in [Tids -> Answers] /\ ar \in [Tids -> 0..MaxTid]
          /\ ta \in [Tids -> Plain \cup {NoAddr}]
          /\ dl \in [Tids -> ClockRange]
      <4>1. st \in [Tids -> {"NONE", "RUNNABLE", "WAITING"}]
        BY <3>2, Zenon DEF ThreadSet
      <4>2. rx \in [Tids -> Answers] /\ dl \in [Tids -> ClockRange]
        BY <3>2, AnswersInclude, ClockArithmetic, Zenon DEF ThreadSet
      <4>3. ar \in [Tids -> 0..MaxTid]
        <5>1. o.area \in [Tids -> 0..MaxTid]
          BY <3>2 DEF ThreadSet
        <5>2. 0 \in 0..MaxTid
          BY ConstantsAssumption
        <5> QED BY <5>1, <5>2, Zenon
      <4>4. ta \in [Tids -> Plain \cup {NoAddr}]
        BY <3>2, Zenon DEF ThreadSet
      <4> QED BY <4>1, <4>2, <4>3, <4>4, SMTT(60)
    <3>5. \A x \in Tids : /\ x # me => /\ st[x] = o.state[x] /\ ar[x] = o.area[x]
                                       /\ dl[x] = o.deadline[x]
                          /\ x = me => st[x] = "NONE" /\ dl[x] = 0
      BY <3>2, SMTT(60) DEF ThreadSet
    <3> HIDE DEF gone, st, rx, ar, ta, dl
    <3>6. /\ gone \in ThreadSet /\ gone.state = st /\ gone.queue = o.queue
          /\ gone.deadline = dl /\ gone.area = ar /\ gone.vclock = o.vclock
          /\ gone.active_tid = o.active_tid /\ gone.next_tid = o.next_tid
      BY <3>2, <3>3, <3>4, Zenon DEF ThreadSet
    <3>7. QueuedBut(gone, {})
      <4>1. \A x \in Tids : st[x] = "WAITING" =>
              o.state[x] = "WAITING" /\ x \notin {me}
        BY <3>5, SMTT(60)
      <4>2. \A x \in Tids \ {me} : o.state[x] = "WAITING" => st[x] = "WAITING"
        BY <3>5, SMTT(60)
      <4> QED BY <3>2, <3>6, <4>1, <4>2, QueuedSame, SMTT(60)
    <3>8. Ahead(gone)
      BY <3>2, <3>5, <3>6, SMTT(60) DEF Ahead
    <3>9. o.active_tid \in Tids
      BY <3>2, SMTT(60) DEF ThreadSet
    <3>10. Loaded(gone, s.ctx) /\ gone.state[gone.active_tid] = "RUNNABLE"
      BY <3>2, <3>5, <3>6, <3>9, SMTT(60) DEF Loaded
    <3>11. Fresh(gone)
      BY <1>5, <1>6, <1>7, <3>2, <3>5, <3>6, SMTT(60) DEF Fresh
    <3> QED BY <1>11, <3>1, <3>6, <3>7, <3>8, <3>10, <3>11, Zenon
            DEF Good, ThreadInv, Sound, Deaths
  <2> QED BY <2>1, <2>2, <2>3, <2>4, Zenon
<1> HIDE DEF out
<1>14. MachineInv' /\ asked' \in Asked
  BY <1>1, <1>13, ReturnsInv DEF Done
<1>15. word' \in Words
  <2>1. word \in Words
    BY DEF IInv, GuestInv
  <2> QED BY <1>1, <1>3, <2>1, ConstantsAssumption DEF Words
<1>16. stack' \in [Tids -> BOOLEAN]
  BY <1>1, Zenon DEF IInv, GuestInv
<1> QED BY <1>1, <1>14, <1>15, <1>16, SMTT(60) DEF IInv, ImageInv, GuestInv

\* The calls on threads together.
LEMMA ThreadsInv ==
  ASSUME IInv, Threads
  PROVE  IInv'
<1>1. CASE spawn_refused
  <2>1. Good(Answer(t, EINVAL))
    BY <1>1, CallState, AnswerGood, AnswersInclude DEF spawn_refused
  <2> QED BY <1>1, <2>1, DoneInv, SMTT(60) DEF spawn_refused
<1>2. CASE die
  <2>1. MachineInv'
    BY <1>2, Zenon DEF die, IInv, MachineInv, Deaths
  <2> QED BY <1>2, <2>1, Zenon DEF die, IInv, GuestInv, ImageInv
<1> QED BY <1>1, <1>2, SpawnInv, SetTidAddressInv, HoldInv, ExitInv DEF Threads

\* The guest's own stores reach its futex and lock words only.
LEMMA GuestCodeInv ==
  ASSUME IInv, GuestCode
  PROVE  IInv'
<1>1. ASSUME NEW a \in Plain, NEW v \in Values, Store(a, v)
      PROVE  IInv'
  <2>1. word' \in Words
    BY <1>1 DEF Store, IInv, GuestInv, Words
  <2> QED BY <1>1, <2>1 DEF Store, IInv, MachineInv, GuestInv, ImageInv
<1>2. ASSUME NEW p \in Pi, NEW from, NEW to \in {Free, Owned}, Swap(p, from, to)
      PROVE  IInv'
  <2>1. me \in 0..MaxTid
    BY ConstantsAssumption DEF IInv, MachineInv, ThreadSet, me, Tids
  <2>2. to \in [owner : 0..MaxTid, waiters : BOOLEAN]
    <3>1. 0 \in 0..MaxTid
      BY ConstantsAssumption
    <3>2. Free \in [owner : 0..MaxTid, waiters : BOOLEAN]
      BY <3>1 DEF Free
    <3>3. Owned \in [owner : 0..MaxTid, waiters : BOOLEAN]
      BY <2>1 DEF Owned
    <3> QED BY <3>2, <3>3
  <2>3. lock' \in Locks
    BY <1>2, <2>2 DEF Swap, IInv, GuestInv, Locks
  <2> QED BY <1>2, <2>3 DEF Swap, IInv, MachineInv, GuestInv, ImageInv
<1> QED BY <1>1, <1>2 DEF GuestCode

\* A saved thread set has the first thread's registers in its own slot.
LEMMA SaveInv ==
  ASSUME IInv, save
  PROVE  IInv'
<1> DEFINE ar == [t.area EXCEPT ![1] = ctx]
           i == [t |-> t', word |-> word, lock |-> lock, stack |-> stack,
                 asked |-> asked]
<1>1. Call /\ me = 1 /\ t' = [t EXCEPT !.area[1] = ctx] /\ image' = << i >>
      /\ UNCHANGED <<ctx, dead, word, lock, stack, asked>>
  BY DEF save
<1>2. /\ ThreadInv(t, ctx) /\ Sound(t, {}) /\ Loaded(t, ctx) /\ Fresh(t)
      /\ t \in ThreadSet /\ me \in Tids /\ t.active_tid = me
      /\ t.state[me] = "RUNNABLE"
  BY <1>1, CallState
<1>3. ctx = 1 /\ ctx \in 0..MaxTid
  BY <1>1, <1>2, ConstantsAssumption DEF Loaded, Tids
<1>4. ar \in [Tids -> 0..MaxTid] /\ t' = [t EXCEPT !.area = ar]
  BY <1>1, <1>2, <1>3 DEF ThreadSet
<1> HIDE DEF ar
<1>5. /\ t' \in ThreadSet /\ t'.state = t.state /\ t'.queue = t.queue
      /\ t'.deadline = t.deadline /\ t'.area = ar /\ t'.vclock = t.vclock
      /\ t'.active_tid = t.active_tid /\ t'.next_tid = t.next_tid
  BY <1>2, <1>4, Zenon DEF ThreadSet
<1>6. ar[1] = 1 /\ \A x \in Tids \ {1} : ar[x] = t.area[x]
  BY <1>1, <1>2, <1>3 DEF ar, ThreadSet
<1>7. Sound(t', {})
  BY <1>2, <1>5, SoundSame, Zenon
<1>8. Loaded(t', 1) /\ Fresh(t') /\ t'.state[t'.active_tid] = "RUNNABLE"
  BY <1>1, <1>2, <1>5, <1>6 DEF Loaded, Fresh
<1>9. ThreadInv(t', 1)
  BY <1>7, <1>8 DEF ThreadInv
<1>10. MachineInv'
  BY <1>1, <1>3, <1>5, <1>9 DEF MachineInv, Deaths, Call
<1>11. ImageInv'
  <2>1. i \in Images
    BY <1>5, SMTT(60) DEF IInv, GuestInv, Images
  <2>2. i.t.area[1] = 1 /\ i.t = t' /\ i.t.active_tid = 1
    BY <1>1, <1>2, <1>5, <1>6, Zenon
  <2> HIDE DEF i
  <2> QED BY <1>1, <1>9, <2>1, <2>2, Zenon DEF ImageInv
<1> QED BY <1>1, <1>10, <1>11 DEF IInv, GuestInv

\* A loaded one runs on from there; a v2 image has no deadlines.
LEMMA LoadInv ==
  ASSUME IInv, load
  PROVE  IInv'
<1>1. PICK i \in Images : /\ image = << i >> /\ ThreadInv(i.t, i.t.area[1])
                          /\ i.t.active_tid = 1
  BY DEF load, IInv, ImageInv
<1> DEFINE u == i.t
           z == [x \in Tids |-> 0]
           v == restored(u, t)
<1>2. image[1] = i
  BY <1>1
<1>3. /\ t' = v /\ ctx' = u.area[1] /\ dead' = "no" /\ image' = image
      /\ word' = i.word /\ lock' = i.lock /\ stack' = i.stack
      /\ asked' = i.asked
  BY <1>2, SMTT(60) DEF load, loaded_context
<1>4. /\ u \in ThreadSet /\ QueuedBut(u, {}) /\ Ahead(u) /\ Loaded(u, u.area[1])
      /\ Fresh(u) /\ u.state[u.active_tid] = "RUNNABLE"
  BY <1>1 DEF ThreadInv, Sound
<1> HIDE DEF u
<1>5. z \in [Tids -> ClockRange] /\ t.vclock \in ClockRange
  BY ClockArithmetic DEF IInv, MachineInv, ThreadSet
<1>6. v = u \/ v = [u EXCEPT !.vclock = t.vclock, !.deadline = z]
  BY DEF restored
<1>7. ThreadInv(v, u.area[1])
  <2>1. CASE v = u
    BY <1>1, <2>1, SMTT(60) DEF u
  <2>2. CASE v = [u EXCEPT !.vclock = t.vclock, !.deadline = z]
    <3> HIDE DEF z, v
    <3>1. /\ v \in ThreadSet /\ v.state = u.state /\ v.queue = u.queue
          /\ v.deadline = z /\ v.area = u.area
          /\ v.active_tid = u.active_tid /\ v.next_tid = u.next_tid
      BY <1>4, <1>5, <2>2, Zenon DEF ThreadSet
    <3>2. Ahead(v)
      BY <3>1, SMTT(60) DEF Ahead, z
    <3>3. QueuedBut(v, {})
      BY <1>4, <3>1, QueuedSame, SMTT(60)
    <3>4. Loaded(v, u.area[1]) /\ Fresh(v) /\ v.state[v.active_tid] = "RUNNABLE"
      BY <1>4, <3>1, SMTT(60) DEF Loaded, Fresh
    <3> QED BY <3>1, <3>2, <3>3, <3>4 DEF ThreadInv, Sound
  <2> QED BY <1>6, <2>1, <2>2
<1> HIDE DEF v
<1>8. MachineInv'
  <2>1. u.area[1] \in 0..MaxTid
    BY <1>4, ConstantsAssumption DEF ThreadSet, Tids
  <2> QED BY <1>3, <1>7, <2>1, SMTT(60) DEF MachineInv, ThreadInv, Sound, Deaths
<1>9. GuestInv'
  BY <1>1, <1>3 DEF GuestInv, Images
<1>10. ImageInv'
  BY <1>3 DEF IInv, ImageInv
<1> QED BY <1>8, <1>9, <1>10 DEF IInv

\* mb_threads_new establishes the invariant.
LEMMA InitInv == Init => IInv
<1> SUFFICES ASSUME Init PROVE IInv
  OBVIOUS
<1>1. 1 \in Tids /\ 2 \in 2..(MaxTid + 1) /\ 0 \in 0..MaxTid /\ 1 \in 0..MaxTid
  BY ConstantsAssumption, SMTT(60) DEF Tids
<1>2. t \in ThreadSet
  BY <1>1, AnswersInclude, ClockArithmetic, SMTT(60) DEF Init, ThreadSet
<1>3. QueuedBut(t, {})
  BY SMTT(60) DEF Init, QueuedBut
<1>4. Ahead(t) /\ Loaded(t, ctx) /\ t.state[t.active_tid] = "RUNNABLE"
  BY <1>1, SMTT(60) DEF Init, Ahead, Loaded
<1>5. Fresh(t)
  BY ConstantsAssumption, SMTT(60) DEF Init, Fresh, Tids
<1>6. MachineInv
  BY <1>1, <1>2, <1>3, <1>4, <1>5, SMTT(60) DEF MachineInv, ThreadInv, Sound, Deaths, Init
<1>7. GuestInv
  BY <1>1, ConstantsAssumption DEF Init, GuestInv, Words, Locks, Free, Asked
<1>8. ImageInv
  BY Zenon DEF Init, ImageInv
<1> QED BY <1>6, <1>7, <1>8 DEF IInv

\* Every step keeps it.
LEMMA NextInv == IInv /\ [Next]_vars => IInv'
<1> SUFFICES ASSUME IInv, [Next]_vars PROVE IInv'
  OBVIOUS
<1>1. CASE Run
  BY <1>1, FutexInv, ClockInv, ThreadsInv, GuestCodeInv, SMTT(60) DEF Run
<1>2. CASE UNCHANGED vars
  BY <1>2 DEF vars, IInv, MachineInv, GuestInv, ImageInv
<1> QED BY <1>1, <1>2, SaveInv, LoadInv DEF Next

\* The four invariants that the runs check follow from the inductive one.
LEMMA InvImplies == IInv => TypeOK /\ WaitersQueued /\ DeadlineAhead /\ ContextIsActives
<1> SUFFICES ASSUME IInv PROVE TypeOK /\ WaitersQueued /\ DeadlineAhead /\ ContextIsActives
  OBVIOUS
<1>1. TypeOK
  <2>1. image # << >> => image[1] \in Images
    BY DEF IInv, ImageInv
  <2> QED BY <2>1, Zenon DEF IInv, MachineInv, GuestInv, TypeOK, Deaths
<1>2. dead = "no" => ThreadInv(t, ctx)
  BY SMTT(60) DEF IInv, MachineInv
<1>3. WaitersQueued
  BY <1>2 DEF WaitersQueued, Alive, ThreadInv, Sound, QueuedBut, Queued
<1>4. DeadlineAhead
  BY <1>2 DEF DeadlineAhead, Alive, ThreadInv, Sound
<1>5. ContextIsActives
  BY <1>2 DEF ContextIsActives, Alive, ThreadInv, Loaded, me
<1> QED BY <1>1, <1>3, <1>4, <1>5

\* The invariant holds of every reachable state.
LEMMA Invariance == Spec => []IInv
BY InitInv, NextInv, PTL DEF Spec

\* The state keeps its type, a thread set loaded from a saved one included.
THEOREM TypeCorrect == Spec => []TypeOK
BY Invariance, InvImplies, PTL

\* No waiter is lost and none is woken twice, for any number of threads,
\* futex words and calls, across saves and loads: a waiting thread stands in
\* exactly one futex queue, once, and only waiting threads stand in queues.
THEOREM NoWaiterLost == Spec => []WaitersQueued
BY Invariance, InvImplies, PTL

\* Expiry is eager: a guest never runs with a waiter's deadline behind its
\* clock, and only a waiter has a deadline.
THEOREM ExpiryEager == Spec => []DeadlineAhead
BY Invariance, InvImplies, PTL

\* The registers loaded are always those of the active thread.
THEOREM ContextCorrect == Spec => []ContextIsActives
BY Invariance, InvImplies, PTL
=============================================================================
