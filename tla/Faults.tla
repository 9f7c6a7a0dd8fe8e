------------------------------ MODULE Faults ------------------------------
(* How a call into the guest ends when it does not return by itself: the    *)
(* fault handlers of tripguard.c (the vectored handler on Windows, the      *)
(* signal handler on Linux), the guest's own fault handler they call, the   *)
(* guest's death and the escape that follows it (guarded.S), and the stop a *)
(* watchdog asks for from another thread (host.c, wbx_stop_guest).          *)
(*                                                                          *)
(* One host thread calls the guest, and runs all of its green threads; a    *)
(* second one is the watchdog; on Windows a third one takes faults of its   *)
(* own, which the vectored handler sees too.  `frames` are the faults being *)
(* handled, per green thread, innermost last.  On Windows the guest's       *)
(* handler runs inside the host's, so every frame is counted (depth,        *)
(* handling, guest_handlers); on Linux it runs after the signal handler has *)
(* returned, and only the frame being worked on is counted (depth).         *)
EXTENDS Integers, Sequences, FiniteSets, SequencesExt

CONSTANTS Green,       \* the guest's threads, all on the host thread that called
          Most,        \* MB_FAULT_DEPTH_MOST; on Linux the room on a guest stack
          MaxTurns,    \* calls the host makes
          MaxWork,     \* what activity and extra_work count up to
          MaxOthers,   \* faults of the other host thread
          MaxSignals,  \* stop signals queued for the thread
          Locked       \* the frontend cancels a stop only between two asks

ASSUME FaultsAssumption ==
  /\ IsFiniteSet(Green) /\ Green # {}
  /\ {Most, MaxTurns, MaxWork, MaxSignals} \subseteq Nat \ {0}
  /\ MaxOthers \in Nat /\ Locked \in BOOLEAN

VARIABLES os,              \* the build: "windows" or "linux"
          place,           \* what the calling thread runs
          cur,             \* the green thread it runs
          frames,          \* the faults being handled, per green thread
          depth,           \* g_fault_depth
          handling,        \* mb_context.handling
          guest_handlers,  \* mb_context.guest_handlers
          reporting,       \* g_reporting: whose report is being written
          other,           \* the other thread's fault: "no", "in", "reports"
          others,          \* faults the other thread may still take
          end,             \* why the process ended, "no" while it runs
          left             \* history: frames a death in a system call left counted
VARIABLES dead, stop_pending,
          activity,        \* mb_work: activity and extra_work together
          stop_activity,
          ask,             \* where mb_host_stop is, on the watchdog's thread
          signals,         \* MB_STOP_SIGNALs queued for the calling thread
          turn,            \* the number of the call in progress, or of the last
          ended,           \* the last call has ended and was not cancelled after
          asked,           \* history: the call a stop was asked for, and its work then
          stopped          \* history: what the last stop carried out ended

faultVars == <<os, place, cur, frames, depth, handling, guest_handlers, reporting,
               other, others, end, left>>
stopVars == <<dead, stop_pending, activity, stop_activity, ask, signals, turn,
              ended, asked, stopped>>
allVars == <<faultVars, stopVars>>

Windows == os = "windows"
Running == end = "no"
Places == {"out", "guest", "sys", "fault", "trap"}
Stages == {"track", "own", "entered", "report"}
Ends == {"no", "host fault", "handler fault", "nested", "two reports"}
Never == [turn |-> 0, asked |-> 0, worked |-> FALSE]

First == CHOOSE g \in Green : TRUE
NoFrames == [g \in Green |-> <<>>]
CountOf(stages) ==
  Cardinality({gi \in Green \X (1..Most) :
                 gi[2] <= Len(frames[gi[1]]) /\ frames[gi[1]][gi[2]].stage \in stages})
Live == CountOf(Stages)
Top == frames[cur][Len(frames[cur])]
Pushed(f) == [frames EXCEPT ![cur] = Append(@, f)]
Popped == [frames EXCEPT ![cur] = Front(@)]
Staged(s) == [frames EXCEPT ![cur][Len(frames[cur])].stage = s]

(* A handler of the guest's that was called for a fault in host code: it    *)
(* runs in a guarded call of its own, whose record is the innermost one.    *)
Entered == CountOf({"entered"}) > 0

FaultInit(systems) ==
  /\ os \in systems
  /\ place = "out" /\ cur = First /\ frames = NoFrames
  /\ depth = 0 /\ handling = 0 /\ guest_handlers = 0
  /\ reporting = "none" /\ other = "no" /\ others = MaxOthers
  /\ end = "no" /\ left = 0
  /\ dead = FALSE /\ stop_pending = FALSE /\ activity = 0 /\ stop_activity = 0
  /\ ask = "idle" /\ signals = 0 /\ turn = 0 /\ ended = FALSE
  /\ asked = [turn |-> 0, work |-> 0] /\ stopped = Never

-----------------------------------------------------------------------------
(* Calls, and the ways out of them. *)

(* mb_guarded_call: the escape record, and the guest.  A dead machine runs  *)
(* nothing: the call returns 0 at once.                                     *)
mb_guarded_call ==
  /\ Running /\ place = "out" /\ ~dead /\ ~ended /\ turn < MaxTurns
  /\ place' = "guest" /\ cur' = First /\ turn' = turn + 1
  /\ UNCHANGED <<os, frames, depth, handling, guest_handlers, reporting, other, others, end, left>>
  /\ UNCHANGED <<dead, stop_pending, activity, stop_activity, ask, signals, ended, asked, stopped>>

(* The guest returns from the call.  Other green threads may be waiting in  *)
(* their fault handlers: they go on in a later call.                        *)
GuestReturns ==
  /\ Running /\ place = "guest" /\ cur = First /\ frames[cur] = <<>> /\ ~Entered
  /\ place' = "out" /\ ended' = TRUE
  /\ UNCHANGED <<os, cur, frames, depth, handling, guest_handlers, reporting, other, others, end, left>>
  /\ UNCHANGED <<dead, stop_pending, activity, stop_activity, ask, signals, turn, asked, stopped>>

(* mb_guarded_escape: to the innermost record; what is below it on the      *)
(* stack is abandoned, and the call answers 0.  A death in a handler that   *)
(* was called for a fault in host code ends only that call: the handler has *)
(* answered 0, and a fault in host code nobody serves is passed on.         *)
Escape ==
  IF Entered
  THEN end' = "host fault" /\ UNCHANGED <<place, cur, frames, ended>>
  ELSE /\ place' = "out" /\ cur' = First /\ frames' = NoFrames /\ ended' = TRUE
       /\ UNCHANGED end

(* veh, after a death: this thread is out of every handler frame at once.   *)
(* `mine` is this thread's depth without the frame that saw the death.      *)
LeaveFrames(seen, mine) ==
  /\ handling' = handling - seen - mine
  /\ guest_handlers' = 0 /\ depth' = 0 /\ left' = 0

(* leave_every_handler_frame: the same on Linux, where nothing is counted   *)
(* but the depth.                                                           *)
leave_every_handler_frame ==
  /\ depth' = 0
  /\ UNCHANGED <<handling, guest_handlers, left>>

(* mb_host_guest_death, in a system call: straight to the escape.  On       *)
(* Windows the handler frames of this thread stay counted.                  *)
mb_host_guest_death ==
  /\ dead' = TRUE /\ Escape
  /\ left' = IF Windows /\ ~Entered THEN left + Live ELSE left
  /\ UNCHANGED <<depth, handling, guest_handlers>>

(* Mutated: a stop is carried out whatever the guest did since. *)
StopDueAlways(work) == stop_pending

(* mb_stop_due.  Whoever asks it clears stop_pending after a yes, and it    *)
(* clears it itself when the guest worked past the stop: asked, a stop is   *)
(* never pending any more.                                                  *)
mb_stop_due(work) == stop_pending /\ work = stop_activity

StopCarriedOut ==
  stopped' = [turn |-> turn, asked |-> asked.turn, worked |-> activity # asked.work]

-----------------------------------------------------------------------------
(* The guest's own steps. *)

(* dispatch_inner, up to the system call's own work: a working call counts  *)
(* as activity before the stop is looked at.                                *)
dispatch_inner(working) ==
  LET w == IF working THEN activity + 1 ELSE activity IN
  /\ Running /\ place = "guest" /\ w <= MaxWork
  /\ activity' = w /\ stop_pending' = FALSE
  /\ IF mb_stop_due(w)
     THEN mb_host_guest_death /\ StopCarriedOut
     ELSE /\ place' = "sys"
          /\ UNCHANGED <<dead, cur, frames, ended, end, left, depth, handling, guest_handlers, stopped>>
  /\ UNCHANGED <<os, reporting, other, others, stop_activity, ask, signals, turn, asked>>

(* The system call or host callback returns, perhaps to another green       *)
(* thread; a callback's work is counted when it is done (extra_work).       *)
ReturnsTo(g, working) ==
  /\ Running /\ place = "sys"
  /\ g = cur \/ ~Entered
  /\ activity + (IF working THEN 1 ELSE 0) <= MaxWork
  /\ activity' = activity + (IF working THEN 1 ELSE 0)
  /\ place' = "guest" /\ cur' = g
  /\ UNCHANGED <<os, frames, depth, handling, guest_handlers, reporting, other, others, end, left>>
  /\ UNCHANGED <<dead, stop_pending, stop_activity, ask, signals, turn, ended, asked, stopped>>

(* A system call that ends the guest: exit_group, a fatal signal to itself, *)
(* a call nobody provides, a deadlock of its threads.                       *)
SyscallEnds ==
  /\ Running /\ place = "sys" /\ mb_host_guest_death
  /\ UNCHANGED <<os, reporting, other, others>>
  /\ UNCHANGED <<stop_pending, activity, stop_activity, ask, signals, turn, asked, stopped>>

(* veh, veh_inner and handler_inner, to where they start on the page: a     *)
(* fault in guest code or, in a system call, in host code.  One nested too  *)
(* deep is passed on.                                                       *)
Fault ==
  /\ Running /\ place \in {"guest", "sys"}
  /\ UNCHANGED <<os, cur, guest_handlers, reporting, other, others, left>> /\ UNCHANGED stopVars
  /\ IF Windows /\ depth >= Most
     THEN end' = "nested" /\ UNCHANGED <<place, frames, depth, handling>>
     ELSE /\ frames' = Pushed([stage |-> "track", from |-> place])
          /\ place' = "fault" /\ depth' = depth + 1
          /\ handling' = IF Windows THEN handling + 1 ELSE handling
          /\ UNCHANGED end

(* The frame of the fault being worked on is done, and the instruction runs *)
(* again where it was.                                                      *)
Done ==
  /\ frames' = Popped /\ place' = Top.from

(* trip, commit_on_fault: dirty tracking or the commit serves the fault. *)
trip ==
  /\ Running /\ place = "fault" /\ Top.stage = "track" /\ Done
  /\ depth' = depth - 1
  /\ handling' = IF Windows THEN handling - 1 ELSE handling
  /\ UNCHANGED <<os, cur, guest_handlers, reporting, other, others, end, left>> /\ UNCHANGED stopVars

(* Mutated: the guest's handler is called uncounted for every fault. *)
AskGuestUncounted ==
  /\ Running /\ Windows /\ place = "fault" /\ Top.stage = "track"
  /\ place' = "guest"
  /\ frames' = Staged(IF Top.from = "guest" THEN "own" ELSE "entered")
  /\ UNCHANGED <<os, cur, depth, handling, guest_handlers, reporting, other, others, end, left>>
  /\ UNCHANGED stopVars

(* ask_guest: the page is one the guest protected, and its handler is       *)
(* called from inside the host's.  For a fault in host code through the     *)
(* guest-entry thunk, and not counted as one of the guest's handlers.       *)
ask_guest ==
  /\ Running /\ Windows /\ place = "fault" /\ Top.stage = "track"
  /\ place' = "guest"
  /\ frames' = Staged(IF Top.from = "guest" THEN "own" ELSE "entered")
  /\ guest_handlers' = IF Top.from = "guest" THEN guest_handlers + 1 ELSE guest_handlers
  /\ UNCHANGED <<os, cur, depth, handling, reporting, other, others, end, left>> /\ UNCHANGED stopVars

(* send_to_guest: the thread is pointed at the trampoline, which runs the   *)
(* guest's handler once the signal handler has returned - when the stack    *)
(* of the guest's thread has room for it.                                   *)
send_to_guest ==
  /\ Running /\ ~Windows /\ place = "fault" /\ Top.stage = "track"
  /\ Len(frames[cur]) < Most
  /\ place' = "guest" /\ depth' = depth - 1
  /\ frames' = Staged(IF Top.from = "guest" THEN "own" ELSE "entered")
  /\ UNCHANGED <<os, cur, handling, guest_handlers, reporting, other, others, end, left>>
  /\ UNCHANGED stopVars

(* The guest's handler answers that the page is as it should be now. *)
HandlerServed ==
  /\ Running /\ place = "guest" /\ frames[cur] # <<>> /\ Done
  /\ IF Windows
     THEN /\ depth' = depth - 1 /\ handling' = handling - 1
          /\ guest_handlers' = IF Top.stage = "own" THEN guest_handlers - 1 ELSE guest_handlers
     ELSE UNCHANGED <<depth, handling, guest_handlers>>
  /\ UNCHANGED <<os, cur, reporting, other, others, end, left>> /\ UNCHANGED stopVars

(* report_begin: one report at a time.  A fault that finds the other        *)
(* thread's being written is passed on.                                     *)
report_begin ==
  IF Windows /\ reporting # "none"
  THEN end' = "two reports" /\ UNCHANGED <<place, frames, reporting>>
  ELSE /\ place' = "fault" /\ frames' = Staged("report")
       /\ reporting' = IF Windows THEN "guest" ELSE reporting
       /\ UNCHANGED end

(* Nobody serves the fault: the page is nobody's, or not one a handler is   *)
(* asked for, or there is no memory to commit.                              *)
Unserved ==
  /\ Running /\ place = "fault" /\ Top.stage = "track" /\ report_begin
  /\ UNCHANGED <<os, cur, depth, handling, guest_handlers, other, others, left>> /\ UNCHANGED stopVars

(* The guest's handler answers 0.  On Linux the instruction faults again    *)
(* and finds its address declined.                                          *)
HandlerDeclines ==
  /\ Running /\ place = "guest" /\ frames[cur] # <<>> /\ report_begin
  /\ guest_handlers' = IF Windows /\ Top.stage = "own" THEN guest_handlers - 1 ELSE guest_handlers
  /\ depth' = IF Windows THEN depth ELSE depth + 1
  /\ UNCHANGED <<os, cur, handling, other, others, left>> /\ UNCHANGED stopVars

(* The report is written.  In guest code the fault is the guest's death,    *)
(* and the thread is sent to the escape; in host code it is passed on.      *)
Reported ==
  /\ Running /\ place = "fault" /\ Top.stage = "report"
  /\ IF Top.from = "guest"
     THEN /\ dead' = TRUE /\ Escape /\ reporting' = "none"
          /\ IF Windows THEN LeaveFrames(1, depth - 1) ELSE leave_every_handler_frame
     ELSE /\ end' = "host fault"
          /\ UNCHANGED <<dead, place, cur, frames, ended, reporting, depth, handling, guest_handlers, left>>
  /\ UNCHANGED <<os, other, others>>
  /\ UNCHANGED <<stop_pending, activity, stop_activity, ask, signals, turn, asked, stopped>>

(* A halt, an illegal instruction or a division by zero in guest code: the  *)
(* guest's death, with no page to look at.  On Windows the handler counts   *)
(* the exception but does not nest its depth.                               *)
GuestTraps ==
  /\ Running /\ place = "guest"
  /\ IF Windows /\ reporting # "none"
     THEN /\ end' = "two reports"
          /\ UNCHANGED <<dead, place, cur, frames, ended, depth, handling, guest_handlers, left>>
     ELSE /\ dead' = TRUE /\ Escape
          /\ IF Windows THEN LeaveFrames(0, depth) ELSE leave_every_handler_frame
  /\ UNCHANGED <<os, reporting, other, others>>
  /\ UNCHANGED <<stop_pending, activity, stop_activity, ask, signals, turn, asked, stopped>>

(* The handler's own work faults: it is not re-entered, but passed on. *)
HandlerFaults ==
  /\ Running /\ place = "fault" /\ end' = "handler fault"
  /\ UNCHANGED <<os, place, cur, frames, depth, handling, guest_handlers, reporting, other, others, left>>
  /\ UNCHANGED stopVars

(* A fault of another host thread, on Windows: the vectored handler sees    *)
(* it, counts it for the machine, says what it was and passes it on.        *)
OtherFaults ==
  /\ Running /\ Windows /\ other = "no" /\ others > 0
  /\ other' = "in" /\ others' = others - 1 /\ handling' = handling + 1
  /\ UNCHANGED <<os, place, cur, frames, depth, guest_handlers, reporting, end, left>>
  /\ UNCHANGED stopVars

OtherReports ==
  /\ Running /\ other = "in" /\ reporting = "none"
  /\ other' = "reports" /\ reporting' = "other"
  /\ UNCHANGED <<os, place, cur, frames, depth, handling, guest_handlers, others, end, left>>
  /\ UNCHANGED stopVars

OtherPassedOn ==
  /\ Running /\ other # "no" /\ (other = "reports" \/ reporting # "none")
  /\ other' = "no" /\ handling' = handling - 1
  /\ reporting' = IF other = "reports" THEN "none" ELSE reporting
  /\ UNCHANGED <<os, place, cur, frames, depth, guest_handlers, others, end, left>>
  /\ UNCHANGED stopVars

-----------------------------------------------------------------------------
(* A stop: mb_host_stop on the watchdog's thread, in the steps another      *)
(* thread can come between.                                                 *)

(* The guest is looked at, and whether a stop is pending already: then it   *)
(* is only sent again, and neither its reason nor its count rewritten.      *)
mb_host_stop ==
  /\ Running /\ ask = "idle" /\ place # "out" /\ ~dead
  /\ ask' = IF stop_pending THEN "send" ELSE "note"
  /\ asked' = IF stop_pending THEN asked ELSE [asked EXCEPT !.turn = turn]
  /\ UNCHANGED faultVars
  /\ UNCHANGED <<dead, stop_pending, activity, stop_activity, signals, turn, ended, stopped>>

(* The guest's work so far is noted ... *)
NoteWork ==
  /\ Running /\ ask = "note" /\ ask' = "post"
  /\ stop_activity' = activity /\ asked' = [asked EXCEPT !.work = activity]
  /\ UNCHANGED faultVars
  /\ UNCHANGED <<dead, stop_pending, activity, signals, turn, ended, stopped>>

(* ... and the stop posted. *)
PostStop ==
  /\ Running /\ ask = "post" /\ ask' = "send" /\ stop_pending' = TRUE
  /\ UNCHANGED faultVars
  /\ UNCHANGED <<dead, activity, stop_activity, signals, turn, ended, asked, stopped>>

(* The same asked on the calling thread, from a host callback: nothing is   *)
(* sent, the stop waits for the next system call.                           *)
StopFromCallback ==
  /\ Running /\ place = "sys" /\ ask = "idle" /\ ~stop_pending
  /\ stop_activity' = activity /\ stop_pending' = TRUE
  /\ asked' = [turn |-> turn, work |-> activity]
  /\ UNCHANGED faultVars
  /\ UNCHANGED <<dead, activity, ask, signals, turn, ended, stopped>>

(* Linux: pthread_kill. *)
SendSignal ==
  /\ Running /\ ~Windows /\ ask = "send" /\ ask' = "idle"
  /\ signals' = IF signals < MaxSignals THEN signals + 1 ELSE signals
  /\ UNCHANGED faultVars
  /\ UNCHANGED <<dead, stop_pending, activity, stop_activity, turn, ended, asked, stopped>>

(* handler_stop_body: it ends the call only in guest code with no fault     *)
(* being handled; elsewhere a pending stop is left, and a signal that is    *)
(* not a stop is passed on.  The fault handler runs with it blocked.        *)
handler_stop_body ==
  /\ Running /\ signals > 0 /\ place # "fault"
  /\ signals' = signals - 1
  /\ IF stop_pending /\ depth = 0 /\ place = "guest"
     THEN /\ stop_pending' = FALSE
          /\ IF mb_stop_due(activity)
             THEN dead' = TRUE /\ Escape /\ leave_every_handler_frame /\ StopCarriedOut
             ELSE UNCHANGED <<dead, place, cur, frames, ended, end, depth, handling, guest_handlers,
                              left, stopped>>
     ELSE UNCHANGED <<stop_pending, dead, place, cur, frames, ended, end, depth, handling,
                      guest_handlers, left, stopped>>
  /\ UNCHANGED <<os, reporting, other, others, activity, stop_activity, ask, turn, asked>>

(* Windows: mb_tripguard_stop_thread, with the calling thread suspended.    *)
(* With nothing being handled it is sent to the escape; in the guest's own  *)
(* fault handler to the trap.                                               *)
Idle == handling = 0
InOwnHandler == guest_handlers > 0 /\ handling = guest_handlers

(* Mutated: a guest in its own fault handler is not stopped. *)
StopThreadOnlyIdle ==
  /\ Running /\ Windows /\ ask = "send" /\ ask' = "idle"
  /\ IF stop_pending /\ place = "guest" /\ Idle
     THEN /\ stop_pending' = FALSE
          /\ IF mb_stop_due(activity)
             THEN dead' = TRUE /\ StopCarriedOut /\ Escape
             ELSE UNCHANGED <<dead, place, cur, frames, ended, end, stopped>>
     ELSE UNCHANGED <<stop_pending, dead, place, cur, frames, ended, end, stopped>>
  /\ UNCHANGED <<os, depth, handling, guest_handlers, left, reporting, other, others>>
  /\ UNCHANGED <<activity, stop_activity, signals, turn, asked>>

mb_tripguard_stop_thread ==
  /\ Running /\ Windows /\ ask = "send" /\ ask' = "idle"
  /\ IF stop_pending /\ place = "guest" /\ (Idle \/ InOwnHandler)
     THEN /\ stop_pending' = FALSE
          /\ IF mb_stop_due(activity)
             THEN /\ dead' = TRUE /\ StopCarriedOut
                  /\ IF Idle THEN Escape
                             ELSE place' = "trap" /\ UNCHANGED <<cur, frames, ended, end>>
             ELSE UNCHANGED <<dead, place, cur, frames, ended, end, stopped>>
     ELSE UNCHANGED <<stop_pending, dead, place, cur, frames, ended, end, stopped>>
  /\ UNCHANGED <<os, depth, handling, guest_handlers, left, reporting, other, others>>
  /\ UNCHANGED <<activity, stop_activity, signals, turn, asked>>

(* veh, for mb_stop_trap: the death is recorded already. *)
mb_stop_trap ==
  /\ Running /\ place = "trap" /\ Escape /\ LeaveFrames(0, depth)
  /\ UNCHANGED <<os, reporting, other, others, dead>>
  /\ UNCHANGED <<stop_pending, activity, stop_activity, ask, signals, turn, asked, stopped>>

(* Mutated: a stop already posted is not taken back. *)
CancelTooLate ==
  /\ Running /\ place = "out" /\ ended /\ (Locked => ask = "idle")
  /\ ended' = FALSE
  /\ UNCHANGED faultVars
  /\ UNCHANGED <<dead, stop_pending, activity, stop_activity, ask, signals, turn, asked, stopped>>

(* mb_host_stop_cancel, which the frontend calls after every call. *)
mb_host_stop_cancel ==
  /\ Running /\ place = "out" /\ ended /\ (Locked => ask = "idle")
  /\ stop_pending' = FALSE /\ ended' = FALSE
  /\ UNCHANGED faultVars
  /\ UNCHANGED <<dead, activity, stop_activity, ask, signals, turn, asked, stopped>>

(* A state is loaded, one taken with no fault being handled: a dead machine *)
(* is alive again, and the guest's threads are where the state has them.    *)
(* What Windows counted for the frames they left stays counted.             *)
mb_host_load_state ==
  /\ Running /\ place = "out" /\ turn < MaxTurns
  /\ dead' = FALSE /\ frames' = NoFrames
  /\ left' = IF Windows THEN left + Live ELSE left
  /\ UNCHANGED <<os, place, cur, depth, handling, guest_handlers, reporting, other, others, end>>
  /\ UNCHANGED <<stop_pending, activity, stop_activity, ask, signals, turn, ended, asked, stopped>>

-----------------------------------------------------------------------------
Watchdog == mb_host_stop \/ NoteWork \/ PostStop \/ SendSignal \/ mb_tripguard_stop_thread
HandlerWork == trip \/ ask_guest \/ send_to_guest \/ Unserved \/ Reported \/ HandlerFaults
HostReturns == \E g \in Green, working \in BOOLEAN : ReturnsTo(g, working)
OtherThread == OtherFaults \/ OtherReports \/ OtherPassedOn

FaultsNext ==
  \/ mb_guarded_call \/ GuestReturns \/ SyscallEnds
  \/ \E working \in BOOLEAN : dispatch_inner(working)
  \/ HostReturns
  \/ Fault \/ HandlerWork \/ HandlerServed \/ HandlerDeclines \/ GuestTraps
  \/ OtherThread
  \/ Watchdog \/ StopFromCallback \/ handler_stop_body \/ mb_stop_trap
  \/ mb_host_stop_cancel \/ mb_host_load_state

FaultsSpec == FaultInit({"windows", "linux"}) /\ [][FaultsNext]_allVars

(* The watchdog goes on asking, host code comes back, and what was sent is  *)
(* delivered.  The guest need not do anything.                              *)
FaultsFairness ==
  /\ WF_allVars(Watchdog) /\ WF_allVars(handler_stop_body) /\ WF_allVars(mb_stop_trap)
  /\ WF_allVars(HandlerWork) /\ WF_allVars(HostReturns)
  /\ WF_allVars(OtherReports \/ OtherPassedOn)

-----------------------------------------------------------------------------

(* On Linux the handler's depth is back to none whenever the guest runs,    *)
(* its own fault handler with it: a stop's signal always ends it there.     *)
SignalReaches ==
  ~Windows /\ Running /\ place # "fault" => depth = 0

(* A stop reaches a guest that runs its own code, in its fault handler or   *)
(* not, whatever died before: mb_tripguard_stop_thread never takes it for   *)
(* a thread in host code - unless its handler was called for a fault in     *)
(* host code, or the other thread's fault is being handled - and on Linux   *)
(* the signal never finds the depth of a handler that is gone.              *)
StopReaches ==
  /\ SignalReaches
  /\ Windows /\ Running /\ place = "guest" /\ ~Entered /\ other = "no" => Idle \/ InOwnHandler

(* A stop ends the call it was asked for, never a later one. *)
StopsItsCall == stopped.turn = stopped.asked

(* A stop ends a guest that has not worked since it was asked for. *)
StopsTheStuck == ~stopped.worked

(* A call comes back: with a watchdog that goes on asking, a guest cannot   *)
(* stay in its own code, its own fault handler included, or poll with       *)
(* yields for ever.  Left out: a guest that faults for ever, which may be   *)
(* in the host's handler each time, and on Windows one that stays in a      *)
(* handler called for a fault in host code.                                 *)
CallsEnd == []<>(place \in {"out", "fault"} \/ ~Running \/ (Windows /\ Entered))
=============================================================================
