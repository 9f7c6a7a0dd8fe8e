--------------------------- MODULE HostLifeProofs ---------------------------
(***************************************************************************)
(* What a process holds of its hosts, for any number of them.  LifeInv is  *)
(* inductive; NothingDangles alone is not, since a host could be freed     *)
(* while the sampler or the context still had it.                          *)
(***************************************************************************)
EXTENDS HostLife, TLAPS

\* A process with no host holds none.
LEMMA LifeInitially == LifeInit => LifeInv
  BY LifeAssumption
  DEF LifeInv, LifeTypeOK, NothingDangles, NewestIsReported, OwnFaultHandler, Allocated,
      LifeInit, Idle

\* Every way out of mb_host_new forgets the host before it is freed.
LEMMA UnwindKeeps ==
  ASSUME LifeInv, NEW h \in Hosts, At("made", h) \/ At("loading", h) \/ At("starting", h),
         host_new_unwind(h)
  PROVE  LifeInv'
  BY LifeAssumption
  DEF LifeInv, LifeTypeOK, NothingDangles, NewestIsReported, OwnFaultHandler, Allocated,
      host_new_unwind, At, Idle, mb_tripguard_forget_layout, ForgetContext

\* The steps of mb_host_new keep the invariant.
LEMMA MakingKeeps ==
  ASSUME LifeInv, NEW h \in Hosts,
         mb_host_new(h) \/ SetLayout(h) \/ RefuseNew(h) \/ StartGuest(h) \/ DiesStarting(h) \/ Started(h)
  PROVE  LifeInv'
<1> USE LifeAssumption DEF LifeInv, LifeTypeOK, NothingDangles, NewestIsReported, OwnFaultHandler, Allocated
<1>1. CASE mb_host_new(h)
  BY <1>1 DEF mb_host_new, Go, Idle
<1>2. CASE SetLayout(h)
  BY <1>2 DEF SetLayout, Go, At
<1>3. CASE RefuseNew(h) \/ DiesStarting(h)
  BY <1>3, UnwindKeeps DEF RefuseNew, DiesStarting
<1>4. CASE StartGuest(h)
  BY <1>4 DEF StartGuest, Go, At
<1>5. CASE Started(h)
  BY <1>5 DEF Started, At, Idle
<1> QED BY <1>1, <1>2, <1>3, <1>4, <1>5

\* So does what is done with an open host.
LEMMA UsingKeeps ==
  ASSUME LifeInv, NEW h \in Hosts, NEW dies \in BOOLEAN,
         mb_host_activate(h) \/ mb_host_deactivate(h) \/ CallGuest(h) \/ mb_host_seal(h) \/ GuestBack(h, dies)
  PROVE  LifeInv'
<1> USE LifeAssumption DEF LifeInv, LifeTypeOK, NothingDangles, NewestIsReported, OwnFaultHandler, Allocated
<1>1. CASE mb_host_activate(h)
  BY <1>1 DEF mb_host_activate, Activated, Idle
<1>2. CASE mb_host_deactivate(h)
  BY <1>2 DEF mb_host_deactivate, Idle
<1>3. CASE CallGuest(h)
  BY <1>3 DEF CallGuest, Go, Idle
<1>4. CASE mb_host_seal(h)
  BY <1>4 DEF mb_host_seal, Activated, Go, Idle
<1>5. CASE GuestBack(h, dies)
  BY <1>5 DEF GuestBack, At, Idle
<1> QED BY <1>1, <1>2, <1>3, <1>4, <1>5

\* And its end.
LEMMA EndingKeeps ==
  ASSUME LifeInv, NEW h \in Hosts,
         mb_host_destroy(h) \/ StopSampling(h) \/ FreeHost(h)
  PROVE  LifeInv'
<1> USE LifeAssumption DEF LifeInv, LifeTypeOK, NothingDangles, NewestIsReported, OwnFaultHandler, Allocated
<1>1. CASE mb_host_destroy(h)
  BY <1>1 DEF mb_host_destroy, ForgetContext, Go, Idle
<1>2. CASE StopSampling(h)
  BY <1>2 DEF StopSampling, Go, At
<1>3. CASE FreeHost(h)
  BY <1>3 DEF FreeHost, mb_tripguard_forget_layout, At, Idle
<1> QED BY <1>1, <1>2, <1>3

\* The sampler reads only the host it was pointed at, which is open.
LEMMA SamplingKeeps ==
  ASSUME LifeInv, sample_fn \/ SampleDone
  PROVE  LifeInv'
  BY LifeAssumption
  DEF LifeInv, LifeTypeOK, NothingDangles, NewestIsReported, OwnFaultHandler, Allocated,
      sample_fn, SampleDone

\* For any number of hosts, made, refused, activated, sealed, called and
\* destroyed in any order beside the sampler, LifeInv always holds.
THEOREM LifeInvariant == LifeSpec => []LifeInv
<1>1. LifeInv /\ [LifeNext]_lifeVars => LifeInv'
  <2> SUFFICES ASSUME LifeInv, [LifeNext]_lifeVars PROVE LifeInv'
    OBVIOUS
  <2>1. ASSUME NEW h \in Hosts,
               mb_host_new(h) \/ SetLayout(h) \/ RefuseNew(h)
                 \/ StartGuest(h) \/ DiesStarting(h) \/ Started(h)
        PROVE  LifeInv'
    BY <2>1, MakingKeeps
  <2>2. ASSUME NEW h \in Hosts,
               mb_host_activate(h) \/ mb_host_deactivate(h) \/ CallGuest(h) \/ mb_host_seal(h)
                 \/ \E dies \in BOOLEAN : GuestBack(h, dies)
        PROVE  LifeInv'
    BY <2>2, UsingKeeps
  <2>3. ASSUME NEW h \in Hosts, mb_host_destroy(h) \/ StopSampling(h) \/ FreeHost(h)
        PROVE  LifeInv'
    BY <2>3, EndingKeeps
  <2>4. CASE sample_fn \/ SampleDone
    BY <2>4, SamplingKeeps
  <2>5. CASE UNCHANGED lifeVars
    BY <2>5 DEF lifeVars, LifeInv, LifeTypeOK, NothingDangles, NewestIsReported, OwnFaultHandler, Allocated
  <2> QED BY <2>1, <2>2, <2>3, <2>4, <2>5 DEF LifeNext
<1> QED BY LifeInitially, <1>1, PTL DEF LifeSpec

\* The fault handlers and the sampler never read a host that was freed.
THEOREM NeverDangles == LifeSpec => []NothingDangles
<1>1. LifeInv => NothingDangles
  BY DEF LifeInv
<1> QED BY <1>1, LifeInvariant, PTL

\* The newest host that lives is the one reports go by, whatever older host is
\* refused or destroyed.
THEOREM NewestAlwaysReported == LifeSpec => []NewestIsReported
<1>1. LifeInv => NewestIsReported
  BY DEF LifeInv
<1> QED BY <1>1, LifeInvariant, PTL

\* Guest code called or sealed by the frontend runs with its own fault handler
\* registered, or none when it exports none.
THEOREM AlwaysOwnFaultHandler == LifeSpec => []OwnFaultHandler
<1>1. LifeInv => OwnFaultHandler
  BY DEF LifeInv
<1> QED BY <1>1, LifeInvariant, PTL
=============================================================================
