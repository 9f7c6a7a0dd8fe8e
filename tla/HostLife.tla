------------------------------ MODULE HostLife ------------------------------
(***************************************************************************)
(* The life of a host and what it leaves in the process: mb_host_new with  *)
(* every refusal, activation, sealing, calls, mb_host_destroy.  Four words *)
(* of the process point into hosts - the layout and the context the fault  *)
(* handlers read at any moment, the guest's own fault handler, and the     *)
(* host the sampler thread reads under its lock - while hosts come and go. *)
(* One thread runs the hosts, one operation at a time.                     *)
(***************************************************************************)
EXTENDS Naturals, FiniteSets

CONSTANTS Hosts,     \* the hosts of a session, each made once
          Exports,   \* those whose guest exports GuestFaultHandler
          NoHost

ASSUME LifeAssumption ==
    Exports \subseteq Hosts /\ NoHost \notin Hosts /\ "free" \notin Hosts \cup {NoHost}

VARIABLES stage,          \* Hosts -> none, made (mb_host_new), open, gone
          active,         \* Hosts -> h->active
          sealed,         \* Hosts -> h->sealed
          died,           \* Hosts -> context.dead
          g_layout,       \* the fault handler's layout
          mb_guest_ctx,   \* the context the fault handlers judge by
          g_guest_fault,  \* whose GuestFaultHandler is registered
          sample_h,       \* the host the sampler reads
          sampling,       \* what the sampler holds its lock for: a host,
                          \* NoHost, or "free"
          op,             \* the operation in progress: [at, host, was]
          newest          \* history: the host whose layout was set last

lifeVars == <<stage, active, sealed, died, g_layout, mb_guest_ctx, g_guest_fault,
              sample_h, sampling, op, newest>>

Idle == [at |-> "idle", host |-> NoHost, was |-> FALSE]
At(at, h) == op.at = at /\ op.host = h
Go(at, h, was) == op' = [at |-> at, host |-> h, was |-> was]

\* The hosts whose memory is still theirs.
Allocated == {h \in Hosts : stage[h] \in {"made", "open"}}

LifeInit ==
    /\ stage = [h \in Hosts |-> "none"]
    /\ active = [h \in Hosts |-> FALSE]
    /\ sealed = [h \in Hosts |-> FALSE]
    /\ died = [h \in Hosts |-> FALSE]
    /\ g_layout = NoHost
    /\ mb_guest_ctx = NoHost
    /\ g_guest_fault = NoHost
    /\ sample_h = NoHost
    /\ sampling = "free"
    /\ op = Idle
    /\ newest = NoHost

-----------------------------------------------------------------------------

\* Only the layout that is still the live one.
mb_tripguard_forget_layout(h) == g_layout' = IF g_layout = h THEN NoHost ELSE g_layout

ForgetContext(h) == mb_guest_ctx' = IF mb_guest_ctx = h THEN NoHost ELSE mb_guest_ctx

host_new_unwind(h) ==
    /\ mb_tripguard_forget_layout(h)
    /\ ForgetContext(h)
    /\ stage' = [stage EXCEPT ![h] = "gone"]
    /\ active' = [active EXCEPT ![h] = FALSE]
    /\ op' = Idle
    /\ UNCHANGED <<sealed, died, g_guest_fault, sample_h, sampling, newest>>

\* mb_host_new, up to its layout: another CPU's guest or a bad start is refused.
mb_host_new(h) ==
    /\ op = Idle
    /\ stage[h] = "none"
    /\ stage' = [stage EXCEPT ![h] = "made"]
    /\ Go("made", h, FALSE)
    /\ UNCHANGED <<active, sealed, died, g_layout, mb_guest_ctx, g_guest_fault,
                   sample_h, sampling, newest>>

\* The layout told to the fault handler, the block made and activated.
SetLayout(h) ==
    /\ At("made", h)
    /\ g_layout' = h
    /\ newest' = h
    /\ active' = [active EXCEPT ![h] = TRUE]
    /\ Go("loading", h, FALSE)
    /\ UNCHANGED <<stage, sealed, died, mb_guest_ctx, g_guest_fault, sample_h, sampling>>

\* A refusal at any point: the CPU, the layout, the block, the image, the spec
\* it declares, the page size.
RefuseNew(h) ==
    /\ At("made", h) \/ At("loading", h)
    /\ host_new_unwind(h)

\* _start, through a thunk that makes its context the one judged by.
StartGuest(h) ==
    /\ At("loading", h)
    /\ mb_guest_ctx' = h
    /\ Go("starting", h, FALSE)
    /\ UNCHANGED <<stage, active, sealed, died, g_layout, g_guest_fault, sample_h, sampling, newest>>

DiesStarting(h) == At("starting", h) /\ host_new_unwind(h)

Started(h) ==
    /\ At("starting", h)
    /\ stage' = [stage EXCEPT ![h] = "open"]
    /\ active' = [active EXCEPT ![h] = FALSE]
    /\ op' = Idle
    /\ UNCHANGED <<sealed, died, g_layout, mb_guest_ctx, g_guest_fault, sample_h, sampling, newest>>

-----------------------------------------------------------------------------
\* Mutated: a host that is active is left as it is, its handler too.
ActivatedOnce(h) ==
    /\ stage[h] = "open"
    /\ sampling = "free"
    /\ sample_h' = h
    /\ g_guest_fault' = IF active[h] THEN g_guest_fault ELSE IF h \in Exports THEN h ELSE NoHost
    /\ active' = [active EXCEPT ![h] = TRUE]

\* The guest's fault handler, or none, and the sampler's host are this one's,
\* every time; the sampler's lock is waited for.
Activated(h) ==
    /\ stage[h] = "open"
    /\ sampling = "free"
    /\ sample_h' = h
    /\ g_guest_fault' = IF h \in Exports THEN h ELSE NoHost
    /\ active' = [active EXCEPT ![h] = TRUE]

mb_host_activate(h) ==
    /\ op = Idle
    /\ Activated(h)
    /\ UNCHANGED <<stage, sealed, died, g_layout, mb_guest_ctx, sampling, op, newest>>

mb_host_deactivate(h) ==
    /\ op = Idle
    /\ active[h] /\ stage[h] = "open"
    /\ active' = [active EXCEPT ![h] = FALSE]
    /\ UNCHANGED <<stage, sealed, died, g_layout, mb_guest_ctx, g_guest_fault,
                   sample_h, sampling, op, newest>>

\* Guest code run through a thunk, for the frontend: into the host it activated
\* last (one machine runs at a time).
CallGuest(h) ==
    /\ op = Idle
    /\ active[h] /\ sample_h = h
    /\ mb_guest_ctx' = h
    /\ Go("calling", h, active[h])
    /\ UNCHANGED <<stage, active, sealed, died, g_layout, g_guest_fault, sample_h, sampling, newest>>

\* mb_host_seal: activated, and the guest's own seal run.
mb_host_seal(h) ==
    /\ op = Idle
    /\ ~sealed[h]
    /\ Activated(h)
    /\ mb_guest_ctx' = h
    /\ Go("sealing", h, active[h])
    /\ UNCHANGED <<stage, sealed, died, g_layout, sampling, newest>>

\* The guest comes back, or dies, or was dead already; a host activated for the seal is put back.
GuestBack(h, dies) ==
    /\ At("calling", h) \/ At("sealing", h)
    /\ died' = [died EXCEPT ![h] = @ \/ dies]
    /\ sealed' = [sealed EXCEPT ![h] = @ \/ (op.at = "sealing" /\ ~died'[h])]
    /\ active' = [active EXCEPT ![h] = op.was]
    /\ op' = Idle
    /\ UNCHANGED <<stage, g_layout, mb_guest_ctx, g_guest_fault, sample_h, sampling, newest>>

-----------------------------------------------------------------------------
\* mb_host_destroy: the context, then the sampler under its lock, then the
\* layout and the host itself.
mb_host_destroy(h) ==
    /\ op = Idle
    /\ stage[h] = "open"
    /\ ForgetContext(h)
    /\ Go("destroying", h, FALSE)
    /\ UNCHANGED <<stage, active, sealed, died, g_layout, g_guest_fault, sample_h, sampling, newest>>

\* Mutated: the sampler's host is cleared without its lock.
StopSamplingUnlocked(h) ==
    /\ At("destroying", h)
    /\ sample_h' = IF sample_h = h THEN NoHost ELSE sample_h
    /\ Go("freeing", h, FALSE)
    /\ UNCHANGED <<stage, active, sealed, died, g_layout, mb_guest_ctx, g_guest_fault, sampling, newest>>

StopSampling(h) ==
    /\ At("destroying", h)
    /\ sampling = "free"
    /\ sample_h' = IF sample_h = h THEN NoHost ELSE sample_h
    /\ Go("freeing", h, FALSE)
    /\ UNCHANGED <<stage, active, sealed, died, g_layout, mb_guest_ctx, g_guest_fault, sampling, newest>>

FreeHost(h) ==
    /\ At("freeing", h)
    /\ mb_tripguard_forget_layout(h)
    /\ stage' = [stage EXCEPT ![h] = "gone"]
    /\ active' = [active EXCEPT ![h] = FALSE]
    /\ op' = Idle
    /\ UNCHANGED <<sealed, died, mb_guest_ctx, g_guest_fault, sample_h, sampling, newest>>

\* The sampler thread, beside the frontend: takes its lock, reads the host when
\* it is active, lets the lock go.
sample_fn ==
    /\ sampling = "free"
    /\ sampling' = IF sample_h # NoHost /\ active[sample_h] THEN sample_h ELSE NoHost
    /\ UNCHANGED <<stage, active, sealed, died, g_layout, mb_guest_ctx, g_guest_fault, sample_h, op, newest>>

SampleDone ==
    /\ sampling # "free"
    /\ sampling' = "free"
    /\ UNCHANGED <<stage, active, sealed, died, g_layout, mb_guest_ctx, g_guest_fault, sample_h, op, newest>>

LifeNext ==
    \/ \E h \in Hosts :
          \/ mb_host_new(h) \/ SetLayout(h) \/ RefuseNew(h)
          \/ StartGuest(h) \/ DiesStarting(h) \/ Started(h)
          \/ mb_host_activate(h) \/ mb_host_deactivate(h) \/ CallGuest(h) \/ mb_host_seal(h)
          \/ \E dies \in BOOLEAN : GuestBack(h, dies)
          \/ mb_host_destroy(h) \/ StopSampling(h) \/ FreeHost(h)
    \/ sample_fn
    \/ SampleDone

LifeSpec == LifeInit /\ [][LifeNext]_lifeVars

-----------------------------------------------------------------------------
\* The variables have their types, and an operation under way has the host in
\* the stage it works on: only mb_host_new's own host is half made.
LifeTypeOK ==
    /\ stage \in [Hosts -> {"none", "made", "open", "gone"}]
    /\ active \in [Hosts -> BOOLEAN] /\ sealed \in [Hosts -> BOOLEAN] /\ died \in [Hosts -> BOOLEAN]
    /\ {g_layout, mb_guest_ctx, g_guest_fault, sample_h, newest} \subseteq Hosts \cup {NoHost}
    /\ sampling \in Hosts \cup {NoHost, "free"}
    /\ op \in [at : {"idle", "made", "loading", "starting", "calling", "sealing", "destroying", "freeing"},
               host : Hosts \cup {NoHost}, was : BOOLEAN]
    /\ op.host = NoHost <=> op.at = "idle"
    /\ \A h \in Hosts : stage[h] = "made" <=> op.at \in {"made", "loading", "starting"} /\ op.host = h
    /\ op.at \in {"calling", "sealing", "destroying", "freeing"} => stage[op.host] = "open"

\* What another thread may read at any moment - a fault anywhere in the process
\* reads the layout and the context, the sampler the host it holds its lock
\* for - is never a host that was freed, through every refusal of mb_host_new
\* and every order of making and destroying hosts (host_new_unwind and
\* mb_host_destroy, chimera#127).
NothingDangles ==
    /\ {g_layout, mb_guest_ctx} \subseteq Allocated \cup {NoHost}
    /\ sampling \in Allocated \cup {NoHost, "free"}

\* A host destroyed after a second one started does not blind the second one's
\* reports: the layout is the newest host's as long as that one lives
\* (mb_tripguard_forget_layout).
NewestIsReported == newest \in Allocated => g_layout = newest

\* While the frontend's call or the seal runs guest code, the fault handler
\* registered is that guest's, or none when it exports none - whatever hosts
\* were active, destroyed or activated again before (mb_host_activate).
OwnFaultHandler ==
    op.at \in {"calling", "sealing"}
        => g_guest_fault = IF op.host \in Exports THEN op.host ELSE NoHost

\* What keeps it so: the sampler is only ever pointed at an open host, and a
\* host about to be freed is out of the context's and the sampler's reach
\* before it is (the order of mb_host_destroy).
LifeInv ==
    /\ LifeTypeOK
    /\ NothingDangles /\ NewestIsReported /\ OwnFaultHandler
    /\ newest # NoHost => stage[newest] # "none"
    /\ sample_h # NoHost => /\ stage[sample_h] = "open"
                            /\ g_guest_fault = IF sample_h \in Exports THEN sample_h ELSE NoHost
    /\ sampling \in Hosts => stage[sampling] = "open"
    /\ op.at \in {"destroying", "freeing"} => mb_guest_ctx # op.host
    /\ op.at = "freeing" => sample_h # op.host /\ sampling # op.host
=============================================================================
