----------------------------- MODULE OutputTail -----------------------------
(***************************************************************************)
(* What a guest said last: the ring of the newest bytes written to stdout  *)
(* and stderr (sysout_remember and mb_fs_sysout_tail of fs.c), and the     *)
(* mark with which host.c finds the words of the call that died            *)
(* (note_output, guest_last_words).                                        *)
(*                                                                         *)
(* A byte is its number in the stream, so the ring's contents say which    *)
(* bytes it kept.                                                          *)
(***************************************************************************)
EXTENDS Integers, Sequences

CONSTANTS RingSize,   \* sizeof fs->sysout_tail
          WordsCap,   \* sizeof tail in guest_last_words, at most RingSize
          MaxSaid,    \* bound: bytes written in all
          MaxCalls    \* bound: guest calls

ASSUME RingAssumption == RingSize \in Nat \ {0} /\ WordsCap \in 1 .. RingSize

VARIABLES sysout_tail, sysout_total, tail_at, tail_wrapped,   \* of struct mb_fs
          calls,               \* context.calls: guarded calls entered
          out_call, out_mark,  \* the call that spoke last, and where it began
          began                \* history: the stream's length when the call began

outVars == <<sysout_tail, sysout_total, tail_at, tail_wrapped, calls, out_call, out_mark, began>>

Fewer(a, b) == IF a < b THEN a ELSE b

OutInit ==
  /\ sysout_tail = [i \in 0 .. RingSize - 1 |-> 0]
  /\ sysout_total = 0 /\ tail_at = 0 /\ tail_wrapped = FALSE
  /\ calls = 0 /\ out_call = 0 /\ out_mark = 0 /\ began = 0

\* The ring after n bytes, the first of them number sysout_total + 1: more
\* than it holds leaves only its end; otherwise up to two copies, round the
\* end of the ring.
sysout_remember(n) ==
  LET first == Fewer(RingSize - tail_at, n)
      Whole(i) == sysout_total + n - RingSize + i + 1
      Part(i) == IF i >= tail_at /\ i < tail_at + first THEN sysout_total + 1 + i - tail_at
                 ELSE IF i < n - first THEN sysout_total + 1 + first + i
                 ELSE sysout_tail[i]
  IN  /\ sysout_total' = sysout_total + n
      /\ IF n >= RingSize
         THEN /\ sysout_tail' = [i \in 0 .. RingSize - 1 |-> Whole(i)]
              /\ tail_at' = 0 /\ tail_wrapped' = TRUE
         ELSE /\ sysout_tail' = [i \in 0 .. RingSize - 1 |-> Part(i)]
              /\ tail_at' = IF n > first THEN n - first
                            ELSE IF tail_at + first = RingSize THEN 0 ELSE tail_at + first
              /\ tail_wrapped' = (tail_wrapped \/ n > first \/ tail_at + first = RingSize)

\* The newest bytes, oldest first, at most cap of them.
mb_fs_sysout_tail(cap) ==
  LET have == IF tail_wrapped THEN RingSize ELSE tail_at
      take == Fewer(have, cap)
      oldest == IF tail_wrapped THEN tail_at ELSE 0
  IN  [i \in 1 .. take |-> sysout_tail[(oldest + (have - take) + i - 1) % RingSize]]

mb_fs_sysout_since(mark, cap) ==
  IF mark >= sysout_total THEN << >>
  ELSE mb_fs_sysout_tail(Fewer(sysout_total - mark, cap))

\* What a death reports: nothing when this call wrote nothing.
guest_last_words ==
  IF out_call # calls THEN << >> ELSE mb_fs_sysout_since(out_mark, WordsCap)

\* Mutated note_output: every write of a call marks it again.
SayMarksAgain(n) ==
  /\ calls > 0
  /\ sysout_total + n <= MaxSaid
  /\ sysout_remember(n)
  /\ IF sysout_total' = sysout_total
     THEN UNCHANGED <<out_call, out_mark>>
     ELSE out_call' = calls /\ out_mark' = sysout_total
  /\ UNCHANGED <<calls, began>>

\* write or writev of n bytes to a stream, then note_output: the first of a
\* call that wrote anything marks where the output stood before it.
Say(n) ==
  /\ calls > 0
  /\ sysout_total + n <= MaxSaid
  /\ sysout_remember(n)
  /\ IF sysout_total' = sysout_total \/ out_call = calls
     THEN UNCHANGED <<out_call, out_mark>>
     ELSE out_call' = calls /\ out_mark' = sysout_total
  /\ UNCHANGED <<calls, began>>

\* A guarded call into the guest.
EnterGuest ==
  /\ calls < MaxCalls
  /\ calls' = calls + 1 /\ began' = sysout_total
  /\ UNCHANGED <<sysout_tail, sysout_total, tail_at, tail_wrapped, out_call, out_mark>>

OutNext == EnterGuest \/ \E n \in 0 .. RingSize + 1 : Say(n)

OutSpec == OutInit /\ [][OutNext]_outVars

Newest(n) == [i \in 1 .. n |-> sysout_total - n + i]

\* The words a death reports are exactly what the dying call wrote, as much of
\* it as fits, and never a line of an earlier call.
WordsOfThisCall ==
  guest_last_words = Newest(Fewer(WordsCap, sysout_total - began))

=============================================================================
