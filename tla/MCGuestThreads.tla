--------------------------- MODULE MCGuestThreads ---------------------------
(***************************************************************************)
(* GuestThreads for TLC. A guest has a habit, fixed from the start: how    *)
(* many threads, which words and locks, how much time and whether thread   *)
(* joins and saves. Together the habits reach each pair of features whose  *)
(* interplay matters, where a guest that does everything is out of reach.  *)
(***************************************************************************)
EXTENDS GuestThreads, TLC

VARIABLE habit

mcvars == <<vars, habit>>

Lazy == [threads |-> 1, words |-> {}, locks |-> {}, values |-> {0},
         clock |-> ClockMax, joins |-> {}, saves |-> FALSE]

Waiting == [Lazy EXCEPT !.threads = 3, !.words = Plain]
Joining(a) == [Lazy EXCEPT !.threads = 3, !.words = {a}, !.values = Values,
                           !.clock = 1, !.joins = {a}]
Saved(a) == [Lazy EXCEPT !.threads = 2, !.words = {a}, !.clock = 1, !.saves = TRUE]
Locking == [Lazy EXCEPT !.threads = 3, !.locks = Pi, !.clock = 0]
Paired == [Lazy EXCEPT !.threads = 2, !.words = Plain]

Habits == {Waiting, Locking} \cup {Joining(a) : a \in Plain} \cup {Saved(a) : a \in Plain}

Keeps ==
  /\ t'.next_tid <= habit.threads + 1
  /\ habit.clock < ClockMax =>
       t'.vclock <= habit.clock /\ \A x \in Tids : asked'[x] <= habit.clock
  /\ \A a \in Plain : word'[a] \in habit.values /\ (a \notin habit.words => word'[a] = 0)
  /\ \A a \in Addr \ (habit.words \cup habit.locks) : t'.queue[a] = << >>
  /\ \A p \in Pi \ habit.locks : lock'[p] = Free
  /\ \A x \in Tids : t'.tid_address[x] \in habit.joins \cup {NoAddr}
  /\ habit.saves \/ image' = image
  /\ habit' = habit

Sym == Permutations(Plain) \cup Permutations(Pi)

\* Guests of every habit, and a host that saves and loads some of them.
SafeInit == Init /\ habit \in Habits
SafeSpec == SafeInit /\ [][Next /\ Keeps]_mcvars

\* Guests that yield and give up their locks: two threads that wait, or three
\* that queue for a lock. Neither habit ever forbids a yield or an unlock.
LiveInit == Init /\ habit \in {Paired, Locking}
LiveSpec == /\ LiveInit
            /\ [][Run /\ Keeps]_mcvars
            /\ Yields /\ Unlocks
=============================================================================
