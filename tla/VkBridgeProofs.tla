--------------------------- MODULE VkBridgeProofs ---------------------------
(***************************************************************************)
(* The handle table is sound for any number of kinds, objects, contexts    *)
(* and loads: no slot is ever free twice, free and in use, or on two       *)
(* pools' lists.  A slot leaves a pool's list only with the pool, so the   *)
(* invariant also says that only pools have lists and that a pool is       *)
(* nobody's child: without it a slot could be given back by its own list.  *)
(***************************************************************************)
EXTENDS VkBridge, SequenceTheorems, TLAPS

Entry == [host : Nat, kind : Kinds, parent : Nat, kids : Seq(Nat), gen : Nat]

\* A slot waits to be given out once,
FreeOnce(F) == \A i, k \in DOMAIN F : F[i] = F[k] => i = k

\* holding nothing while it waits;
FreeEmpty(E, F) ==
  \A i \in DOMAIN F : F[i] \in DOMAIN E /\ E[F[i]].host = 0 /\ E[F[i]].kids = << >>

\* a child is on its pool's list once,
KidsOnce(E) ==
  \A s \in DOMAIN E : \A i, k \in DOMAIN E[s].kids : E[s].kids[i] = E[s].kids[k] => i = k

\* on no other, and not waiting;
KidsOwned(E, F) ==
  \A s \in DOMAIN E : \A i \in DOMAIN E[s].kids :
    /\ E[s].kids[i] \in DOMAIN E
    /\ E[E[s].kids[i]].parent = s
    /\ \A j \in DOMAIN F : E[s].kids[i] # F[j]

\* and only pools have lists, and are on none.
PoolsHold(E) ==
  \A s \in DOMAIN E : /\ E[s].kids # << >> => E[s].kind \in Pools
                      /\ E[s].kind \in Pools => E[s].parent = 0

Sound(E, F) ==
  /\ E \in Seq(Entry) /\ F \in Seq(Nat)
  /\ FreeOnce(F) /\ FreeEmpty(E, F) /\ KidsOnce(E) /\ KidsOwned(E, F) /\ PoolsHold(E)

TableSound(t) == t = [entry |-> t.entry, free |-> t.free] /\ Sound(t.entry, t.free)

\* The slots are numbered from 1.
LEMMA SlotsNumbered ==
  ASSUME NEW E \in Seq(Entry)
  PROVE  /\ DOMAIN E = 1 .. Len(E) /\ Len(E) \in Nat
         /\ \A s \in DOMAIN E : s \in Nat \ {0} /\ E[s] \in Entry
  BY LenProperties, ElementOfSeq

\* An entry put in a slot of the table, or in the next one.
LEMMA EntryPut ==
  ASSUME NEW E \in Seq(Entry), NEW e \in Entry, NEW slot \in DOMAIN E
  PROVE  LET R == [E EXCEPT ![slot] = e]
         IN  R \in Seq(Entry) /\ DOMAIN R = DOMAIN E
  BY ExceptSeq, LenProperties

\* A new entry, in a slot that is on no list and not waiting.
LEMMA EntryNew ==
  ASSUME NEW E, NEW F, Sound(E, F), NEW G \in Seq(Nat), NEW R \in Seq(Entry), NEW slot \in DOMAIN R,
         DOMAIN R = DOMAIN E \cup {slot},
         \A s \in DOMAIN E \ {slot} : R[s] = E[s],
         R[slot].kids = << >>, R[slot].kind \in Pools => R[slot].parent = 0,
         \A s \in DOMAIN E : \A i \in DOMAIN E[s].kids : E[s].kids[i] # slot,
         FreeOnce(G), \A i \in DOMAIN G : G[i] # slot,
         \A i \in DOMAIN G : \E k \in DOMAIN F : G[i] = F[k]
  PROVE  Sound(R, G)
<1>1. DOMAIN R[slot].kids = {}
  OBVIOUS
<1>2. FreeEmpty(R, G)
  BY DEF Sound, FreeEmpty
<1>3. KidsOnce(R)
  BY <1>1 DEF Sound, KidsOnce
<1>4. KidsOwned(R, G)
  BY <1>1 DEF Sound, KidsOwned
<1>5. PoolsHold(R)
  BY DEF Sound, PoolsHold
<1> QED BY <1>2, <1>3, <1>4, <1>5 DEF Sound

\* A child put in front of its pool's list.
LEMMA KidAdded ==
  ASSUME NEW R, NEW G, Sound(R, G), NEW p \in DOMAIN R, R[p].kind \in Pools, R[p].host # 0,
         NEW slot \in DOMAIN R, slot # p, R[slot].parent = p,
         \A i \in DOMAIN R[p].kids : R[p].kids[i] # slot,
         \A i \in DOMAIN G : G[i] # slot,
         NEW Q \in Seq(Entry), DOMAIN Q = DOMAIN R, \A s \in DOMAIN R \ {p} : Q[s] = R[s],
         Q[p].kids = <<slot>> \o R[p].kids,
         Q[p].kind = R[p].kind, Q[p].parent = R[p].parent, Q[p].host = R[p].host
  PROVE  Sound(Q, G)
<1> DEFINE old == R[p].kids
           new == <<slot>> \o old
<1>1. R \in Seq(Entry) /\ R[p] \in Entry /\ slot \in Nat /\ old \in Seq(Nat)
  BY SlotsNumbered DEF Sound, Entry
<1>2. <<slot>> \in Seq(Nat) /\ Len(<<slot>>) = 1 /\ <<slot>>[1] = slot
  BY <1>1
<1>3. /\ new \in Seq(Nat) /\ Len(new) = Len(old) + 1 /\ Len(old) \in Nat
      /\ DOMAIN new = 1 .. Len(old) + 1 /\ DOMAIN old = 1 .. Len(old)
      /\ \A i \in DOMAIN new : new[i] = IF i = 1 THEN slot ELSE old[i - 1]
  BY <1>1, <1>2, ConcatProperties, LenProperties
<1>4. Q[p].kids = new
  OBVIOUS
<1> HIDE DEF new, old
<1>6. FreeEmpty(Q, G)
  <2>1. \A i \in DOMAIN G : G[i] # p
    BY DEF Sound, FreeEmpty
  <2> QED BY <2>1 DEF Sound, FreeEmpty
<1>7. \A i \in DOMAIN new : i # 1 => i - 1 \in DOMAIN old
  BY <1>3
<1>8. KidsOnce(Q)
  <2>1. \A i, k \in DOMAIN old : old[i] = old[k] => i = k
    BY DEF Sound, KidsOnce, old
  <2>2. \A i \in DOMAIN old : old[i] # slot
    BY DEF old
  <2>3. ASSUME NEW i \in DOMAIN new, NEW k \in DOMAIN new, new[i] = new[k]
        PROVE  i = k
    <3>1. CASE i = 1 \/ k = 1
      BY <3>1, <2>3, <1>3, <1>7, <2>2
    <3>2. CASE i # 1 /\ k # 1
      <4>1. i - 1 = k - 1
        BY <3>2, <2>3, <1>3, <1>7, <2>1
      <4> QED BY <4>1, <1>3
    <3> QED BY <3>1, <3>2
  <2> SUFFICES ASSUME NEW s \in DOMAIN Q
               PROVE  \A i, k \in DOMAIN Q[s].kids : Q[s].kids[i] = Q[s].kids[k] => i = k
    BY DEF KidsOnce
  <2>4. CASE s = p
    BY <1>4, <2>3, <2>4
  <2>5. CASE s # p
    BY <2>5 DEF Sound, KidsOnce
  <2> QED BY <2>4, <2>5
<1>9. KidsOwned(Q, G)
  <2>1. \A i \in DOMAIN old : /\ old[i] \in DOMAIN R /\ R[old[i]].parent = p
                              /\ \A j \in DOMAIN G : old[i] # G[j]
    BY DEF Sound, KidsOwned, old
  <2>2. \A s \in DOMAIN R : Q[s].parent = R[s].parent
    OBVIOUS
  <2>3. \A i \in DOMAIN new : /\ new[i] \in DOMAIN R /\ R[new[i]].parent = p
                              /\ \A j \in DOMAIN G : new[i] # G[j]
    BY <1>3, <1>7, <2>1
  <2> SUFFICES ASSUME NEW s \in DOMAIN Q, NEW i \in DOMAIN Q[s].kids
               PROVE  /\ Q[s].kids[i] \in DOMAIN Q /\ Q[Q[s].kids[i]].parent = s
                      /\ \A j \in DOMAIN G : Q[s].kids[i] # G[j]
    BY DEF KidsOwned
  <2>4. CASE s = p
    BY <1>4, <2>2, <2>3, <2>4
  <2>5. CASE s # p
    <3>1. Q[s] = R[s] /\ s \in DOMAIN R /\ i \in DOMAIN R[s].kids
      BY <2>5
    <3>2. /\ R[s].kids[i] \in DOMAIN R /\ R[R[s].kids[i]].parent = s
          /\ \A j \in DOMAIN G : R[s].kids[i] # G[j]
      BY <3>1 DEF Sound, KidsOwned
    <3> QED BY <2>2, <3>1, <3>2
  <2> QED BY <2>4, <2>5
<1>10. PoolsHold(Q)
  BY DEF Sound, PoolsHold
<1> QED BY <1>6, <1>8, <1>9, <1>10 DEF Sound

\* vkb_register keeps the table sound, given a live pool for a child; the pool
\* stays one.
LEMMA RegisterSound ==
  ASSUME NEW t, TableSound(t), NEW kind \in Kinds, NEW host \in Nat, NEW parent \in Nat,
         parent # 0 => /\ parent \in DOMAIN t.entry /\ kind \notin Pools
                       /\ t.entry[parent].host # 0 /\ t.entry[parent].kind \in Pools
  PROVE  LET r == vkb_register(t, kind, host, parent)
         IN  /\ TableSound(r)
             /\ parent # 0 => /\ parent \in DOMAIN r.entry
                              /\ r.entry[parent].host # 0 /\ r.entry[parent].kind \in Pools
<1> DEFINE E == t.entry
           F == t.free
           slot == NewSlot(t)
           gen == IF F = << >> THEN 0 ELSE E[slot].gen
           e == [host |-> host, kind |-> kind, parent |-> parent, kids |-> << >>, gen |-> gen]
           put == IF F = << >> THEN Append(E, e) ELSE [E EXCEPT ![slot] = e]
           G == IF F = << >> THEN F ELSE SubSeq(F, 1, Len(F) - 1)
           Q == IF parent = 0 THEN put ELSE [put EXCEPT ![parent].kids = <<slot>> \o @]
           r == vkb_register(t, kind, host, parent)
<1>1. Sound(E, F) /\ E \in Seq(Entry) /\ F \in Seq(Nat)
  BY DEF TableSound, Sound
<1>2. r = [entry |-> Q, free |-> G]
  BY DEF vkb_register
<1>3. /\ put \in Seq(Entry) /\ slot \in DOMAIN put /\ DOMAIN put = DOMAIN E \cup {slot}
      /\ put[slot] = e /\ \A s \in DOMAIN E \ {slot} : put[s] = E[s]
  <2>1. CASE F = << >>
    <3>1. slot = Len(E) + 1 /\ put = Append(E, e) /\ gen = 0
      BY <2>1 DEF NewSlot
    <3>2. e \in Entry
      BY <1>1, <3>1, EmptySeq DEF Entry
    <3>3. DOMAIN E = 1 .. Len(E) /\ Len(E) \in Nat
      BY <1>1, LenProperties
    <3>4. /\ put \in Seq(Entry) /\ Len(put) = Len(E) + 1
          /\ \A i \in 1 .. Len(E) : put[i] = E[i]
          /\ put[Len(E) + 1] = e
      BY <1>1, <3>1, <3>2, AppendProperties
    <3>5. DOMAIN put = 1 .. Len(E) + 1
      BY <3>4, LenProperties
    <3> QED BY <3>1, <3>3, <3>4, <3>5
  <2>2. CASE F # << >>
    <3>1. Len(F) \in DOMAIN F /\ slot = F[Len(F)] /\ put = [E EXCEPT ![slot] = e] /\ gen = E[slot].gen
      BY <1>1, <2>2, LenProperties, EmptySeq DEF NewSlot
    <3>2. slot \in DOMAIN E
      BY <1>1, <3>1 DEF Sound, FreeEmpty
    <3>3. e \in Entry
      BY <1>1, <3>1, <3>2, SlotsNumbered, EmptySeq DEF Entry
    <3> HIDE DEF e
    <3>4. /\ [E EXCEPT ![slot] = e] \in Seq(Entry)
          /\ DOMAIN [E EXCEPT ![slot] = e] = DOMAIN E
          /\ [E EXCEPT ![slot] = e][slot] = e
          /\ \A s \in DOMAIN E \ {slot} : [E EXCEPT ![slot] = e][s] = E[s]
      BY <1>1, <3>2, <3>3, EntryPut
    <3> QED BY <3>1, <3>2, <3>4
  <2> QED BY <2>1, <2>2
<1>4. /\ G \in Seq(Nat) /\ FreeOnce(G) /\ \A i \in DOMAIN G : G[i] # slot
      /\ \A i \in DOMAIN G : \E k \in DOMAIN F : G[i] = F[k]
  <2>1. CASE F = << >>
    BY <1>1, <2>1 DEF FreeOnce
  <2>2. CASE F # << >>
    <3>1. Len(F) \in Nat \ {0} /\ DOMAIN F = 1 .. Len(F) /\ slot = F[Len(F)] /\ G = SubSeq(F, 1, Len(F) - 1)
      BY <1>1, <2>2, LenProperties, EmptySeq DEF NewSlot
    <3>2. \A i \in 1 .. Len(F) - 1 : F[i] \in Nat
      BY <1>1, <3>1, ElementOfSeq
    <3>3. /\ G \in Seq(Nat) /\ Len(G) = Len(F) - 1
          /\ \A i \in 1 .. Len(F) - 1 : G[i] = F[i]
      BY <3>1, <3>2
    <3>4. DOMAIN G = 1 .. Len(F) - 1
      BY <3>1, <3>3, LenProperties
    <3>5. \A i, k \in DOMAIN F : F[i] = F[k] => i = k
      BY <1>1 DEF Sound, FreeOnce
    <3>6. FreeOnce(G)
      BY <3>1, <3>3, <3>4, <3>5 DEF FreeOnce
    <3>7. \A i \in DOMAIN G : i \in DOMAIN F /\ G[i] = F[i] /\ i # Len(F)
      BY <3>1, <3>3, <3>4
    <3>8. Len(F) \in DOMAIN F
      BY <3>1
    <3>9. \A i \in DOMAIN G : G[i] # slot
      BY <3>1, <3>5, <3>7, <3>8
    <3> HIDE DEF G, slot
    <3> QED BY <3>3, <3>6, <3>7, <3>9
  <2> QED BY <2>1, <2>2
<1>5. \A s \in DOMAIN E : \A i \in DOMAIN E[s].kids : E[s].kids[i] # slot
  <2>1. CASE F = << >>
    <3>1. slot \notin DOMAIN E
      BY <1>1, <2>1, LenProperties DEF NewSlot
    <3> QED BY <1>1, <3>1 DEF Sound, KidsOwned
  <2>2. CASE F # << >>
    <3>1. Len(F) \in DOMAIN F /\ slot = F[Len(F)]
      BY <1>1, <2>2, LenProperties, EmptySeq DEF NewSlot
    <3> QED BY <1>1, <3>1 DEF Sound, KidsOwned
  <2> QED BY <2>1, <2>2
<1>6. put[slot].kids = << >> /\ put[slot].parent = parent /\ put[slot].kind = kind
  BY <1>3
<1> HIDE DEF put, G, e, gen
<1>7. Sound(put, G)
  BY <1>1, <1>3, <1>4, <1>5, <1>6, EntryNew
<1>8. CASE parent = 0
  <2>1. Q = put
    BY <1>8
  <2> QED BY <1>2, <1>7, <1>8, <2>1 DEF TableSound
<1>9. CASE parent # 0
  <2>1. parent \in DOMAIN E /\ E[parent].host # 0 /\ E[parent].kind \in Pools
    BY <1>9
  <2>2. slot # parent
    <3>1. CASE F = << >>
      BY <1>1, <2>1, <3>1, LenProperties DEF NewSlot
    <3>2. CASE F # << >>
      BY <1>1, <2>1, <3>2, LenProperties, EmptySeq DEF NewSlot, Sound, FreeEmpty
    <3> QED BY <3>1, <3>2
  <2>3. parent \in DOMAIN put /\ put[parent] = E[parent]
    BY <1>3, <2>1, <2>2
  <2>4. Q = [put EXCEPT ![parent].kids = <<slot>> \o @]
    BY <1>9
  <2>5. put[parent] \in Entry /\ slot \in Nat
    BY <1>3, <2>3, SlotsNumbered
  <2>6. <<slot>> \o put[parent].kids \in Seq(Nat)
    BY <2>5, ConcatProperties DEF Entry
  <2> DEFINE f == [put[parent] EXCEPT !.kids = <<slot>> \o @]
  <2>7. /\ f \in Entry /\ f.kids = <<slot>> \o put[parent].kids
        /\ f.kind = put[parent].kind /\ f.parent = put[parent].parent /\ f.host = put[parent].host
    BY <2>5, <2>6 DEF Entry
  <2>8. Q = [put EXCEPT ![parent] = f]
    BY <2>4
  <2> HIDE DEF Q, slot, f
  <2>9. /\ Q \in Seq(Entry) /\ DOMAIN Q = DOMAIN put /\ Q[parent] = f
        /\ \A s \in DOMAIN put \ {parent} : Q[s] = put[s]
    BY <1>3, <2>3, <2>7, <2>8, EntryPut
  <2>10. \A i \in DOMAIN put[parent].kids : put[parent].kids[i] # slot
    BY <1>5, <2>1, <2>3
  <2>11. put[parent].kind \in Pools /\ put[parent].host # 0
    BY <2>1, <2>3
  <2> HIDE DEF E, F
  <2>12. Sound(Q, G)
    BY <1>3, <1>4, <1>6, <1>7, <2>2, <2>3, <2>7, <2>9, <2>10, <2>11, KidAdded
  <2> QED BY <1>2, <2>3, <2>7, <2>9, <2>11, <2>12 DEF TableSound
<1> QED BY <1>8, <1>9

\* Aging an entry empties it and leaves its place.
LEMMA AgedEntry ==
  ASSUME NEW e \in Entry
  PROVE  /\ Aged(e) \in Entry /\ Aged(e).host = 0 /\ Aged(e).kids = e.kids
         /\ Aged(e).parent = e.parent /\ Aged(e).kind = e.kind
<1>1. e.gen \in Nat /\ (e.gen + 1) % Gens \in Nat
  BY VkAssumption DEF Entry
<1> QED BY <1>1 DEF Aged, Entry

\* Entries that keep their kind, parent and list, in the same slots, are as sound
\* as before; those waiting stay empty.
LEMMA EmptiedSound ==
  ASSUME NEW E, NEW F, Sound(E, F), NEW R \in Seq(Entry), DOMAIN R = DOMAIN E,
         \A s \in DOMAIN E : /\ R[s].kids = E[s].kids /\ R[s].parent = E[s].parent
                             /\ R[s].kind = E[s].kind /\ R[s].host \in {0, E[s].host}
  PROVE  Sound(R, F)
<1>1. FreeEmpty(R, F)
  BY DEF Sound, FreeEmpty
<1>2. KidsOnce(R)
  BY DEF Sound, KidsOnce
<1>3. KidsOwned(R, F)
  <2> SUFFICES ASSUME NEW s \in DOMAIN R, NEW i \in DOMAIN R[s].kids
               PROVE  /\ R[s].kids[i] \in DOMAIN R /\ R[R[s].kids[i]].parent = s
                      /\ \A j \in DOMAIN F : R[s].kids[i] # F[j]
    BY DEF KidsOwned
  <2>1. /\ E[s].kids[i] \in DOMAIN E /\ E[E[s].kids[i]].parent = s
        /\ \A j \in DOMAIN F : E[s].kids[i] # F[j]
    BY DEF Sound, KidsOwned
  <2> QED BY <2>1
<1>4. PoolsHold(R)
  BY DEF Sound, PoolsHold
<1> QED BY <1>1, <1>2, <1>3, <1>4 DEF Sound

\* Slots given back: empty ones, on no list, and none of them waiting.
LEMMA GivenBackSound ==
  ASSUME NEW E, NEW F, Sound(E, F), NEW q \in Seq(Nat), FreeOnce(q),
         \A i \in DOMAIN q : /\ q[i] \in DOMAIN E /\ E[q[i]].host = 0 /\ E[q[i]].kids = << >>
                             /\ \A j \in DOMAIN F : q[i] # F[j]
                             /\ \A s \in DOMAIN E : \A k \in DOMAIN E[s].kids : E[s].kids[k] # q[i]
  PROVE  Sound(E, F \o q)
<1> DEFINE G == F \o q
           n == Len(F)
<1>1. /\ F \in Seq(Nat) /\ n \in Nat /\ Len(q) \in Nat
      /\ DOMAIN F = 1 .. n /\ DOMAIN q = 1 .. Len(q)
  BY LenProperties DEF Sound
<1>2. G \in Seq(Nat) /\ DOMAIN G = 1 .. n + Len(q)
  BY <1>1, ConcatProperties, LenProperties
<1>3. \A i \in DOMAIN G : \/ i \in DOMAIN F /\ G[i] = F[i]
                          \/ i - n \in DOMAIN q /\ G[i] = q[i - n] /\ i > n
  BY <1>1, <1>2, ConcatProperties
<1> HIDE DEF G
<1>4. FreeOnce(G)
  <2> SUFFICES ASSUME NEW i \in DOMAIN G, NEW k \in DOMAIN G, G[i] = G[k]
               PROVE  i = k
    BY DEF FreeOnce
  <2>1. CASE i \in DOMAIN F /\ G[i] = F[i] /\ k \in DOMAIN F /\ G[k] = F[k]
    BY <2>1 DEF Sound, FreeOnce
  <2>2. CASE i - n \in DOMAIN q /\ G[i] = q[i - n] /\ k - n \in DOMAIN q /\ G[k] = q[k - n]
    <3>1. i - n = k - n
      BY <2>2 DEF FreeOnce
    <3> QED BY <1>1, <1>2, <3>1
  <2>3. CASE i \in DOMAIN F /\ G[i] = F[i] /\ k - n \in DOMAIN q /\ G[k] = q[k - n]
    BY <2>3
  <2>4. CASE k \in DOMAIN F /\ G[k] = F[k] /\ i - n \in DOMAIN q /\ G[i] = q[i - n]
    BY <2>4
  <2> QED BY <1>3, <2>1, <2>2, <2>3, <2>4
<1>5. FreeEmpty(E, G)
  <2> SUFFICES ASSUME NEW i \in DOMAIN G
               PROVE  G[i] \in DOMAIN E /\ E[G[i]].host = 0 /\ E[G[i]].kids = << >>
    BY DEF FreeEmpty
  <2>1. CASE i \in DOMAIN F /\ G[i] = F[i]
    BY <2>1 DEF Sound, FreeEmpty
  <2>2. CASE i - n \in DOMAIN q /\ G[i] = q[i - n]
    BY <2>2
  <2> QED BY <1>3, <2>1, <2>2
<1>6. KidsOwned(E, G)
  BY <1>3 DEF Sound, KidsOwned
<1> QED BY <1>2, <1>4, <1>5, <1>6 DEF Sound, G

\* vkb_forget of a live entry keeps the table sound.
LEMMA ForgetSound ==
  ASSUME NEW t, TableSound(t), NEW slot \in DOMAIN t.entry, t.entry[slot].host # 0
  PROVE  TableSound(vkb_forget(t, slot))
<1> DEFINE E == t.entry
           F == t.free
<1>1. t = [entry |-> E, free |-> F] /\ Sound(E, F) /\ E \in Seq(Entry) /\ F \in Seq(Nat)
  BY DEF TableSound, Sound
<1>2. E[slot] \in Entry /\ slot \in Nat \ {0}
  BY <1>1, SlotsNumbered
<1>3. CASE E[slot].parent = 0 /\ E[slot].kids = << >>
  <2> DEFINE e == Aged(E[slot])
             R == [E EXCEPT ![slot] = e]
             q == <<slot>>
  <2>1. vkb_forget(t, slot) = [entry |-> R, free |-> F \o q]
    BY <1>1, <1>3 DEF vkb_forget, vkb_give_back
  <2>2. e \in Entry /\ e.host = 0 /\ e.kids = << >> /\ e.parent = 0 /\ e.kind = E[slot].kind
    BY <1>2, <1>3, AgedEntry
  <2> HIDE DEF e
  <2>3. R \in Seq(Entry) /\ DOMAIN R = DOMAIN E /\ R[slot] = e /\ \A s \in DOMAIN E \ {slot} : R[s] = E[s]
    BY <1>1, <2>2, EntryPut
  <2> HIDE DEF R
  <2>4. \A s \in DOMAIN E : /\ R[s].kids = E[s].kids /\ R[s].parent = E[s].parent
                            /\ R[s].kind = E[s].kind /\ R[s].host \in {0, E[s].host}
    BY <1>3, <2>2, <2>3
  <2>5. Sound(R, F)
    BY <1>1, <2>3, <2>4, EmptiedSound
  <2>6. \A s \in DOMAIN R : \A k \in DOMAIN R[s].kids : R[s].kids[k] # slot
    <3>1. \A s \in DOMAIN R : s # 0
      BY <1>1, <2>3, SlotsNumbered
    <3> QED BY <2>2, <2>3, <2>5, <3>1 DEF Sound, KidsOwned
  <2>7. \A j \in DOMAIN F : slot # F[j]
    BY <1>1 DEF Sound, FreeEmpty
  <2>8. q \in Seq(Nat) /\ DOMAIN q = {1} /\ q[1] = slot
    BY <1>2
  <2>9. FreeOnce(q)
    BY <2>8 DEF FreeOnce
  <2> HIDE DEF q, E, F
  <2>10. \A i \in DOMAIN q :
           /\ q[i] \in DOMAIN R /\ R[q[i]].host = 0 /\ R[q[i]].kids = << >>
           /\ \A j \in DOMAIN F : q[i] # F[j]
           /\ \A s \in DOMAIN R : \A k \in DOMAIN R[s].kids : R[s].kids[k] # q[i]
    BY <2>2, <2>3, <2>6, <2>7, <2>8 DEF E
  <2>11. Sound(R, F \o q)
    BY <2>5, <2>8, <2>9, <2>10, GivenBackSound
  <2> QED BY <2>1, <2>11 DEF TableSound
<1>4. CASE ~(E[slot].parent = 0 /\ E[slot].kids = << >>)
  <2> DEFINE e == [E[slot] EXCEPT !.host = 0]
             R == [E EXCEPT ![slot] = e]
  <2>1. vkb_forget(t, slot) = [entry |-> R, free |-> F]
    BY <1>1, <1>4 DEF vkb_forget
  <2>2. /\ e \in Entry /\ e.host = 0 /\ e.kids = E[slot].kids
        /\ e.parent = E[slot].parent /\ e.kind = E[slot].kind
    BY <1>2 DEF Entry
  <2> HIDE DEF e
  <2>3. R \in Seq(Entry) /\ DOMAIN R = DOMAIN E /\ R[slot] = e /\ \A s \in DOMAIN E \ {slot} : R[s] = E[s]
    BY <1>1, <2>2, EntryPut
  <2> HIDE DEF R
  <2>4. \A s \in DOMAIN E : /\ R[s].kids = E[s].kids /\ R[s].parent = E[s].parent
                            /\ R[s].kind = E[s].kind /\ R[s].host \in {0, E[s].host}
    BY <2>2, <2>3
  <2>5. Sound(R, F)
    BY <1>1, <2>3, <2>4, EmptiedSound
  <2> QED BY <2>1, <2>5 DEF TableSound
<1> QED BY <1>3, <1>4

\* vkb_forget_children keeps it sound, and leaves the pool with an empty list.
LEMMA ForgetChildrenSound ==
  ASSUME NEW t, TableSound(t), NEW p \in DOMAIN t.entry, t.entry[p].host # 0, t.entry[p].kind \in Pools
  PROVE  LET r == vkb_forget_children(t, p)
         IN  TableSound(r) /\ p \in DOMAIN r.entry /\ r.entry[p].host # 0
<1> DEFINE E == t.entry
           F == t.free
           kids == E[p].kids
           child == {kids[k] : k \in DOMAIN kids}
           R == [s \in DOMAIN E |-> IF s = p THEN [E[s] EXCEPT !.kids = << >>]
                                    ELSE IF s \in child THEN Aged(E[s]) ELSE E[s]]
<1>1. t = [entry |-> E, free |-> F] /\ Sound(E, F) /\ E \in Seq(Entry) /\ F \in Seq(Nat)
  BY DEF TableSound, Sound
<1>2. vkb_forget_children(t, p) = [entry |-> R, free |-> F \o kids]
  <2>1. vkb_forget_children(t, p) = [[t EXCEPT !.entry = R] EXCEPT !.free = @ \o kids]
    BY Zenon DEF vkb_forget_children, vkb_give_back, Slots
  <2> HIDE DEF R, kids
  <2> QED BY <1>1, <2>1
<1>3. \A s \in DOMAIN E : s \in Nat \ {0} /\ E[s] \in Entry
  BY <1>1, SlotsNumbered
<1>4. E[p].parent = 0 /\ kids \in Seq(Nat)
  BY <1>1, <1>3 DEF Sound, PoolsHold, Entry
<1>5. \A s \in child : s \in DOMAIN E /\ E[s].parent = p /\ s # p /\ E[s].kids = << >>
                       /\ \A j \in DOMAIN F : s # F[j]
  <2>1. \A s \in child : s \in DOMAIN E /\ E[s].parent = p /\ \A j \in DOMAIN F : s # F[j]
    BY <1>1 DEF Sound, KidsOwned
  <2>2. p # 0
    BY <1>3
  <2>3. \A s \in child : E[s].kind \notin Pools
    BY <1>1, <2>1, <2>2 DEF Sound, PoolsHold
  <2> QED BY <1>1, <1>4, <2>1, <2>2, <2>3 DEF Sound, PoolsHold
<1>6. /\ DOMAIN R = DOMAIN E
      /\ R[p] = [E[p] EXCEPT !.kids = << >>]
      /\ \A s \in child : R[s] = Aged(E[s])
      /\ \A s \in DOMAIN E \ ({p} \cup child) : R[s] = E[s]
  BY <1>5
<1>7. /\ R[p] \in Entry /\ R[p].kids = << >> /\ R[p].parent = 0
      /\ R[p].kind = E[p].kind /\ R[p].host = E[p].host
  BY <1>3, <1>4, <1>6, EmptySeq DEF Entry
<1>8. \A s \in child : /\ R[s] \in Entry /\ R[s].host = 0 /\ R[s].kids = << >>
                       /\ R[s].parent = p /\ R[s].kind = E[s].kind
  BY <1>3, <1>5, <1>6, AgedEntry
<1>9. R \in Seq(Entry)
  <2>1. \A s \in DOMAIN E : R[s] \in Entry
    BY <1>3, <1>6, <1>7, <1>8
  <2>2. DOMAIN E = 1 .. Len(E) /\ Len(E) \in Nat
    BY <1>1, SlotsNumbered
  <2>3. R \in [1 .. Len(E) -> Entry]
    BY <2>1, <2>2
  <2> HIDE DEF R
  <2> QED BY <2>2, <2>3
<1>10. \A s \in DOMAIN E : /\ R[s].parent = E[s].parent /\ R[s].kind = E[s].kind
                           /\ R[s].host \in {0, E[s].host}
                           /\ s # p => R[s].kids = E[s].kids
  BY <1>4, <1>5, <1>6, <1>7, <1>8
<1> HIDE DEF R, child
<1>11. \A s \in DOMAIN R : \A i \in DOMAIN R[s].kids :
         /\ s # p /\ s \in DOMAIN E /\ R[s].kids = E[s].kids
         /\ R[s].kids[i] \in DOMAIN R /\ R[R[s].kids[i]].parent = s
         /\ \A j \in DOMAIN F : R[s].kids[i] # F[j]
         /\ R[s].kids[i] \notin child
  <2> SUFFICES ASSUME NEW s \in DOMAIN R, NEW i \in DOMAIN R[s].kids
               PROVE  /\ s # p /\ s \in DOMAIN E /\ R[s].kids = E[s].kids
                      /\ R[s].kids[i] \in DOMAIN R /\ R[R[s].kids[i]].parent = s
                      /\ \A j \in DOMAIN F : R[s].kids[i] # F[j]
                      /\ R[s].kids[i] \notin child
    OBVIOUS
  <2>1. s # p
    BY <1>7
  <2>2. s \in DOMAIN E /\ R[s].kids = E[s].kids
    BY <1>6, <1>10, <2>1
  <2>3. /\ E[s].kids[i] \in DOMAIN E /\ E[E[s].kids[i]].parent = s
        /\ \A j \in DOMAIN F : E[s].kids[i] # F[j]
    BY <1>1, <2>2 DEF Sound, KidsOwned
  <2>4. E[s].kids[i] \notin child
    BY <1>5, <2>1, <2>3
  <2> QED BY <1>6, <1>10, <2>1, <2>2, <2>3, <2>4
<1>12. Sound(R, F)
  <2>1. FreeEmpty(R, F)
    BY <1>1, <1>6, <1>7, <1>10 DEF Sound, FreeEmpty
  <2>2. KidsOnce(R)
    BY <1>1, <1>11 DEF Sound, KidsOnce
  <2>3. KidsOwned(R, F)
    BY <1>11 DEF KidsOwned
  <2>4. PoolsHold(R)
    BY <1>1, <1>6, <1>7, <1>10 DEF Sound, PoolsHold
  <2> QED BY <1>1, <1>9, <2>1, <2>2, <2>3, <2>4 DEF Sound
<1>13. \A i \in DOMAIN kids : kids[i] \in child
  BY DEF child
<1>14. FreeOnce(kids)
  BY <1>1 DEF Sound, KidsOnce, FreeOnce
<1> HIDE DEF kids, E, F
<1>15. Sound(R, F \o kids)
  BY <1>4, <1>5, <1>6, <1>8, <1>11, <1>12, <1>13, <1>14, GivenBackSound
<1>16. p \in DOMAIN R /\ R[p].host # 0
  BY <1>6, <1>7 DEF E
<1> QED BY <1>2, <1>15, <1>16 DEF TableSound

\* The end of a device empties entries and gives back no slot.
LEMMA ForgetDeviceSound ==
  ASSUME NEW t, TableSound(t)
  PROVE  TableSound(forget_device_entries(t))
<1> DEFINE E == t.entry
           F == t.free
           R == [s \in DOMAIN E |-> IF E[s].kind \in {"Instance", "PhysicalDevice"} THEN E[s]
                                    ELSE [E[s] EXCEPT !.host = 0]]
<1>1. t = [entry |-> E, free |-> F] /\ Sound(E, F) /\ E \in Seq(Entry) /\ F \in Seq(Nat)
  BY DEF TableSound, Sound
<1>2. forget_device_entries(t) = [entry |-> R, free |-> F]
  <2>1. forget_device_entries(t) = [t EXCEPT !.entry = R]
    BY Zenon DEF forget_device_entries, Slots
  <2> HIDE DEF R
  <2> QED BY <1>1, <2>1
<1>3. DOMAIN E = 1 .. Len(E) /\ Len(E) \in Nat /\ \A s \in DOMAIN E : E[s] \in Entry
  BY <1>1, SlotsNumbered
<1>4. \A s \in DOMAIN E : /\ R[s] \in Entry /\ R[s].kids = E[s].kids /\ R[s].parent = E[s].parent
                          /\ R[s].kind = E[s].kind /\ R[s].host \in {0, E[s].host}
  BY <1>3 DEF Entry
<1>5. DOMAIN R = DOMAIN E /\ R \in [1 .. Len(E) -> Entry]
  BY <1>3, <1>4
<1> HIDE DEF R
<1>6. R \in Seq(Entry)
  BY <1>3, <1>5
<1>7. Sound(R, F)
  BY <1>1, <1>4, <1>5, <1>6, EmptiedSound
<1> QED BY <1>2, <1>7 DEF TableSound

\* A context starts with no slots.
LEMMA EmptySound == TableSound([entry |-> << >>, free |-> << >>])
<1>1. << >> \in Seq(Entry) /\ << >> \in Seq(Nat) /\ DOMAIN << >> = {}
  BY EmptySeq
<1> QED BY <1>1 DEF TableSound, Sound, FreeOnce, FreeEmpty, KidsOnce, KidsOwned, PoolsHold

-----------------------------------------------------------------------------
\* The inductive invariant: the table is sound, and objects are numbers.
VkInv ==
  /\ TableSound(table)
  /\ made \in Nat /\ physical \in Nat
  /\ DOMAIN driver \subseteq Nat

\* What the driver makes and destroys is numbered.
LEMMA MakesNumbered ==
  ASSUME VkInv, NEW kinds, Len(kinds) \in Nat, NEW pool, Makes(kinds, pool)
  PROVE  made' \in Nat /\ DOMAIN driver' \subseteq Nat
  BY DEF VkInv, Makes

\* The driver's objects that are left after a destruction are still numbered.
LEMMA DestroyedNumbered ==
  ASSUME VkInv, NEW objects, Destroyed(objects)
  PROVE  DOMAIN driver' \subseteq Nat
  BY DEF VkInv, Destroyed

\* The slot a handle names is live and of its kind.
LEMMA EntryLive ==
  ASSUME NEW id, NEW kind, NEW s \in vkb_entry(table, id, kind)
  PROVE  s \in DOMAIN table.entry /\ table.entry[s].host # 0 /\ table.entry[s].kind = kind
  BY DEF vkb_entry, Slots

\* An object with no pool is registered.
LEMMA RegisterRoot ==
  ASSUME VkInv, NEW kind \in Kinds, NEW host \in Nat
  PROVE  TableSound(vkb_register(table, kind, host, 0))
  BY RegisterSound DEF VkInv

\* An object that may be known already.
LEMMA InternSound ==
  ASSUME VkInv, NEW kind \in Kinds, NEW host \in Nat, Intern(kind, host)
  PROVE  TableSound(table')
  BY RegisterRoot DEF VkInv, Intern

\* Every step keeps it, one action at a time.
LEMMA CreateStep ==
  ASSUME VkInv, NEW id, NEW kind \in Kinds, Create(id, kind)
  PROVE  VkInv'
<1>1. Makes(<<kind>>, 0) /\ table' = vkb_register(table, kind, made + 1, 0) /\ physical' = physical
  BY DEF Create
<1>2. made + 1 \in Nat
  BY DEF VkInv
<1>3. TableSound(table')
  BY <1>1, <1>2, RegisterRoot
<1>4. made' \in Nat /\ DOMAIN driver' \subseteq Nat
  BY <1>1, MakesNumbered
<1> QED BY <1>1, <1>3, <1>4 DEF VkInv

\* Destroying an object keeps the table sound.
LEMMA DestroyStep ==
  ASSUME VkInv, NEW id, NEW kind, Destroy(id, kind)
  PROVE  VkInv'
<1>1. PICK s \in vkb_entry(table, id, kind) :
        /\ Destroyed({table.entry[s].host})
        /\ table' = vkb_forget(table, s)
        /\ UNCHANGED <<ordinal, instance, physical, device, made, given>>
  BY DEF Destroy
<1>2. TableSound(table')
  BY <1>1, EntryLive, ForgetSound DEF VkInv
<1>3. DOMAIN driver' \subseteq Nat
  BY <1>1, DestroyedNumbered
<1> QED BY <1>1, <1>2, <1>3 DEF VkInv

\* Allocating objects from a pool keeps the table sound.
LEMMA AllocateStep ==
  ASSUME VkInv, NEW id, NEW pool \in Pools, AllocateOne(id, pool) \/ AllocateTwo(id, pool)
  PROVE  VkInv'
<1>1. ChildOf[pool] \in Kinds /\ ChildOf[pool] \notin Pools
  BY DEF ChildOf, Pools, Kinds
<1>2. made + 1 \in Nat /\ made + 2 \in Nat
  BY DEF VkInv
<1>3. \A p \in vkb_entry(table, id, pool) :
        p \in Nat /\ p # 0 /\ p \in DOMAIN table.entry /\ table.entry[p].host # 0 /\ table.entry[p].kind \in Pools
  BY EntryLive, SlotsNumbered DEF VkInv, TableSound, Sound
<1>4. ASSUME NEW p \in vkb_entry(table, id, pool)
      PROVE  LET once == vkb_register(table, ChildOf[pool], made + 1, p)
             IN  /\ TableSound(once) /\ p \in DOMAIN once.entry
                 /\ once.entry[p].host # 0 /\ once.entry[p].kind \in Pools
  BY <1>1, <1>2, <1>3, RegisterSound DEF VkInv
<1>5. CASE AllocateOne(id, pool)
  <2>1. PICK p \in vkb_entry(table, id, pool) :
          /\ Makes(<<ChildOf[pool]>>, table.entry[p].host)
          /\ table' = vkb_register(table, ChildOf[pool], made + 1, p)
          /\ physical' = physical
    BY <1>5 DEF AllocateOne
  <2>2. made' \in Nat /\ DOMAIN driver' \subseteq Nat
    BY <2>1, MakesNumbered
  <2> QED BY <1>4, <2>1, <2>2 DEF VkInv
<1>6. CASE AllocateTwo(id, pool)
  <2>1. PICK p \in vkb_entry(table, id, pool) :
          /\ Makes(<<ChildOf[pool], ChildOf[pool]>>, table.entry[p].host)
          /\ table' = vkb_register(vkb_register(table, ChildOf[pool], made + 1, p), ChildOf[pool], made + 2, p)
          /\ physical' = physical
    BY <1>6 DEF AllocateTwo
  <2>2. made' \in Nat /\ DOMAIN driver' \subseteq Nat
    BY <2>1, MakesNumbered
  <2> DEFINE once == vkb_register(table, ChildOf[pool], made + 1, p)
  <2>3. TableSound(once) /\ p \in DOMAIN once.entry /\ once.entry[p].host # 0 /\ once.entry[p].kind \in Pools
    BY <1>4
  <2> HIDE DEF once
  <2>4. TableSound(vkb_register(once, ChildOf[pool], made + 2, p))
    BY <1>1, <1>2, <1>3, <2>3, RegisterSound
  <2> QED BY <2>1, <2>2, <2>4 DEF VkInv, once
<1> QED BY <1>5, <1>6

\* Destroying a pool, or resetting it, keeps the table sound.
LEMMA PoolStep ==
  ASSUME VkInv, NEW id, NEW pool \in Pools,
         DestroyPool(id, pool) \/ (pool = "DescriptorPool" /\ vkResetDescriptorPool(id))
  PROVE  VkInv'
<1>1. ASSUME NEW p \in vkb_entry(table, id, pool)
      PROVE  LET r == vkb_forget_children(table, p)
             IN  TableSound(r) /\ p \in DOMAIN r.entry /\ r.entry[p].host # 0
  BY EntryLive, ForgetChildrenSound DEF VkInv
<1>2. CASE DestroyPool(id, pool)
  <2>1. PICK p \in vkb_entry(table, id, pool) :
          /\ Destroyed({table.entry[p].host})
          /\ table' = vkb_forget(vkb_forget_children(table, p), p)
          /\ UNCHANGED <<ordinal, instance, physical, device, made, given>>
    BY <1>2 DEF DestroyPool
  <2> DEFINE r == vkb_forget_children(table, p)
  <2>2. TableSound(r) /\ p \in DOMAIN r.entry /\ r.entry[p].host # 0
    BY <1>1
  <2> HIDE DEF r
  <2>3. TableSound(vkb_forget(r, p))
    BY <2>2, ForgetSound
  <2>4. DOMAIN driver' \subseteq Nat
    BY <2>1, DestroyedNumbered
  <2> QED BY <2>1, <2>3, <2>4 DEF VkInv, r
<1>3. CASE pool = "DescriptorPool" /\ vkResetDescriptorPool(id)
  <2>1. PICK p \in vkb_entry(table, id, pool) :
          /\ Destroyed({o \in DOMAIN driver : driver[o].pool = table.entry[p].host})
          /\ table' = vkb_forget_children(table, p)
          /\ UNCHANGED <<ordinal, instance, physical, device, made, given>>
    BY <1>3 DEF vkResetDescriptorPool
  <2>2. DOMAIN driver' \subseteq Nat
    BY <2>1, DestroyedNumbered
  <2> QED BY <1>1, <2>1, <2>2 DEF VkInv
<1> QED BY <1>2, <1>3

\* The end of a context leaves an empty table.
LEMMA ContextStep ==
  ASSUME VkInv, NEW steps, destroy_context(steps)
  PROVE  VkInv'
<1>1. \E objects : Destroyed(objects)
  BY DEF destroy_context, EndDevice
<1>2. DOMAIN driver' \subseteq Nat
  BY <1>1, DestroyedNumbered
<1> QED BY <1>2, EmptySound DEF VkInv, destroy_context

\* Every call on instances, devices and queues keeps the table sound.
LEMMA ContextsStep ==
  ASSUME VkInv, Contexts
  PROVE  VkInv'
<1>0. made + 1 \in Nat /\ made + 2 \in Nat
  BY DEF VkInv
<1>1. CASE vkCreateInstance
  <2>1. Makes(<<"Instance", "PhysicalDevice">>, 0) /\ table' = vkb_register(table, "Instance", made + 1, 0)
        /\ physical' = made + 2
    BY <1>1 DEF vkCreateInstance
  <2>2. TableSound(table')
    BY <1>0, <2>1, RegisterRoot DEF Kinds
  <2>3. made' \in Nat /\ DOMAIN driver' \subseteq Nat
    BY <2>1, MakesNumbered
  <2> QED BY <1>0, <2>1, <2>2, <2>3 DEF VkInv
<1>2. ASSUME NEW id, vkEnumeratePhysicalDevices(id)
      PROVE  VkInv'
  <2>1. TableSound(table')
    BY <1>2, InternSound DEF vkEnumeratePhysicalDevices, Kinds, VkInv
  <2> QED BY <1>2, <2>1 DEF VkInv, vkEnumeratePhysicalDevices
<1>3. ASSUME NEW id, vkCreateDevice(id)
      PROVE  VkInv'
  <2>1. Makes(<<"Device", "Queue">>, 0) /\ table' = vkb_register(table, "Device", made + 1, 0)
        /\ physical' = physical
    BY <1>3 DEF vkCreateDevice
  <2>2. TableSound(table')
    BY <1>0, <2>1, RegisterRoot DEF Kinds
  <2>3. made' \in Nat /\ DOMAIN driver' \subseteq Nat
    BY <2>1, MakesNumbered
  <2> QED BY <2>1, <2>2, <2>3 DEF VkInv
<1>4. ASSUME NEW id, vkGetDeviceQueue(id)
      PROVE  VkInv'
  <2>1. PICK o \in DOMAIN driver : Intern("Queue", o)
    BY <1>4 DEF vkGetDeviceQueue
  <2>2. TableSound(table')
    BY <2>1, InternSound DEF Kinds, VkInv
  <2> QED BY <1>4, <2>2 DEF VkInv, vkGetDeviceQueue
<1>5. ASSUME NEW id, vkDestroyDevice(id)
      PROVE  VkInv'
  <2>1. TableSound(table')
    BY <1>5, ForgetDeviceSound DEF vkDestroyDevice, VkInv
  <2>2. \E objects : Destroyed(objects)
    BY <1>5 DEF vkDestroyDevice, EndDevice
  <2>3. DOMAIN driver' \subseteq Nat
    BY <2>2, DestroyedNumbered
  <2> QED BY <1>5, <2>1, <2>3 DEF VkInv, vkDestroyDevice
<1>6. ASSUME NEW id, vkDestroyInstance(id)
      PROVE  VkInv'
  BY <1>6, ContextStep DEF vkDestroyInstance
<1>7. CASE chimera_vk_host_state_loaded \/ chimera_vk_host_shutdown
  BY <1>7, ContextStep DEF chimera_vk_host_state_loaded, chimera_vk_host_shutdown
<1> QED BY <1>1, <1>2, <1>3, <1>4, <1>5, <1>6, <1>7 DEF Contexts

\* Every step of the bridge keeps the invariant.
LEMMA VkStep == VkInv /\ [VkNext]_vkVars => VkInv'
<1> SUFFICES ASSUME VkInv, [VkNext]_vkVars
             PROVE  VkInv'
  OBVIOUS
<1>1. CASE Contexts
  BY <1>1, ContextsStep
<1>2. CASE Objects(Pools)
  <2>1. Plain \cup Pools \subseteq Kinds
    BY DEF Kinds, OfDevice
  <2>2. ASSUME NEW id, NEW kind \in Plain \cup Pools, Create(id, kind)
        PROVE  VkInv'
    BY <2>1, <2>2, CreateStep
  <2>3. ASSUME NEW id, NEW kind, Destroy(id, kind)
        PROVE  VkInv'
    BY <2>3, DestroyStep
  <2>4. ASSUME NEW id, NEW pool \in Pools,
               AllocateOne(id, pool) \/ AllocateTwo(id, pool) \/ DestroyPool(id, pool)
        PROVE  VkInv'
    BY <2>4, AllocateStep, PoolStep
  <2>5. ASSUME NEW id, vkResetDescriptorPool(id)
        PROVE  VkInv'
    <3>1. "DescriptorPool" \in Pools
      BY DEF Pools, ChildOf
    <3> QED BY <2>5, <3>1, PoolStep
  <2> QED BY <1>2, <2>2, <2>3, <2>4, <2>5, Zenon DEF Objects
<1>3. CASE Templates
  <2>1. "DescriptorUpdateTemplate" \in Kinds
    BY DEF Kinds, OfDevice
  <2> QED BY <1>3, <2>1, CreateStep, DestroyStep
          DEF Templates, vkCreateDescriptorUpdateTemplate, vkDestroyDescriptorUpdateTemplate
<1>4. CASE UNCHANGED vkVars
  BY <1>4 DEF vkVars, VkInv
<1> QED BY <1>1, <1>2, <1>3, <1>4 DEF VkNext

\* Whatever the guest creates, allocates, frees, resets and destroys, and
\* whatever is loaded between, a slot is free at most once, holds nothing
\* while it is, and is on at most one pool's list (vkb_register, vkb_forget,
\* vkb_forget_children, forget_device_entries, destroy_context).
THEOREM FreeSlotsAlwaysSound == VkSpec => []FreeSlotsSound
<1>1. VkInit => VkInv
  BY EmptySound DEF VkInit, VkInv
<1>2. VkInv => FreeSlotsSound
  BY DEF VkInv, TableSound, Sound, FreeSlotsSound, FreeOnce, FreeEmpty, KidsOnce, KidsOwned
<1> QED BY <1>1, <1>2, VkStep, PTL DEF VkSpec
=============================================================================
