---------------------------- MODULE FaultsProofs ----------------------------
(***************************************************************************)
(* What a stop may end, and when its signal gets through, for any number   *)
(* of guest threads, calls, faults and signals.  StopsItsCall and          *)
(* StopsTheStuck speak of the last stop carried out; what makes it right   *)
(* is said, before it is carried out, of the stop that is being asked for  *)
(* or is pending (StopInv).  Where a fault goes back to is on its frame,   *)
(* so the frames come first (FramesInv).                                   *)
(***************************************************************************)
EXTENDS Faults, SequenceTheorems, TLAPS

Frame == [stage : Stages, from : {"guest", "sys"}]

\* The faults being handled: the one being worked on is the last of the thread
\* that runs, and only Windows has the trap.
FramesInv ==
  /\ os \in {"windows", "linux"} /\ place \in Places /\ cur \in Green
  /\ frames \in [Green -> Seq(Frame)]
  /\ place = "fault" => frames[cur] # <<>>
  /\ place = "trap" => Windows

\* A guest has a first thread, and no thread has frames before the first fault.
LEMMA NoFramesTyped == First \in Green /\ NoFrames \in [Green -> Seq(Frame)]
<1>1. First \in Green
  BY FaultsAssumption DEF First
<1>2. <<>> \in Seq(Frame)
  BY EmptySeq
<1> QED BY <1>1, <1>2 DEF NoFrames

\* A frame pushed is one there is.
LEMMA PushedTyped ==
  ASSUME FramesInv, NEW f \in Frame
  PROVE  Pushed(f) \in [Green -> Seq(Frame)] /\ Pushed(f)[cur] # <<>>
<1> DEFINE s == frames[cur]
<1>1. s \in Seq(Frame)
  BY DEF FramesInv
<1>2. Append(s, f) \in Seq(Frame) /\ Append(s, f) # <<>>
  BY <1>1, AppendProperties
<1>3. Pushed(f) = [frames EXCEPT ![cur] = Append(s, f)]
  BY DEF Pushed
<1> QED BY <1>2, <1>3 DEF FramesInv

\* The innermost frame says where its fault came from, and leaves the others.
LEMMA PoppedTyped ==
  ASSUME FramesInv, frames[cur] # <<>>
  PROVE  Popped \in [Green -> Seq(Frame)] /\ Top.from \in {"guest", "sys"}
<1> DEFINE s == frames[cur]
<1>1. s \in Seq(Frame) /\ s # <<>>
  BY DEF FramesInv
<1>2. Len(s) \in Nat \ {0} /\ Len(s) \in DOMAIN s
  BY <1>1, LenProperties, EmptySeq
<1>3. s[Len(s)] \in Frame
  BY <1>1, <1>2, ElementOfSeq
<1>4. SubSeq(s, 1, Len(s) - 1) \in Seq(Frame)
  BY <1>1, <1>2
<1>5. Popped = [frames EXCEPT ![cur] = SubSeq(s, 1, Len(s) - 1)]
  BY DEF Popped, Front
<1> QED BY <1>3, <1>4, <1>5 DEF FramesInv, Top, Frame

\* A frame that goes on to its next stage stays.
LEMMA StagedTyped ==
  ASSUME FramesInv, frames[cur] # <<>>, NEW st \in Stages
  PROVE  Staged(st) \in [Green -> Seq(Frame)] /\ Staged(st)[cur] # <<>>
<1> DEFINE s == frames[cur]
           r == [s EXCEPT ![Len(s)] = [s[Len(s)] EXCEPT !.stage = st]]
<1>1. s \in Seq(Frame) /\ s # <<>>
  BY DEF FramesInv
<1>2. Len(s) \in Nat \ {0} /\ Len(s) \in DOMAIN s
  BY <1>1, LenProperties, EmptySeq
<1>3. s[Len(s)] \in Frame
  BY <1>1, <1>2, ElementOfSeq
<1>4. [s[Len(s)] EXCEPT !.stage = st] \in Frame
  BY <1>3 DEF Frame
<1>5. r \in Seq(Frame) /\ Len(r) = Len(s)
  BY <1>1, <1>2, <1>4, ExceptSeq
<1>6. Staged(st) = [frames EXCEPT ![cur] = r]
  BY DEF Staged
<1>7. r # <<>>
  BY <1>2, <1>5
<1> QED BY <1>5, <1>6, <1>7 DEF FramesInv
\* Nothing of the faults changes in the watchdog's and the other thread's steps.
LEMMA FramesUntouched ==
  ASSUME FramesInv, UNCHANGED <<os, place, cur, frames>>
  PROVE  FramesInv'
  BY DEF FramesInv, Windows

\* An escape abandons every frame, or ends the process.
LEMMA FramesEscaped ==
  ASSUME FramesInv, Escape, os' = os
  PROVE  FramesInv'
  BY NoFramesTyped DEF FramesInv, Escape, Windows, Places

\* The calling thread's steps in and out of calls and system calls.
LEMMA CallsKeepFrames ==
  ASSUME FramesInv,
         \/ mb_guarded_call \/ GuestReturns \/ SyscallEnds \/ HostReturns
         \/ \E working \in BOOLEAN : dispatch_inner(working)
         \/ mb_host_load_state
  PROVE  FramesInv'
<1>1. CASE mb_guarded_call
  BY <1>1, NoFramesTyped DEF mb_guarded_call, FramesInv, Windows, Places
<1>2. CASE GuestReturns
  BY <1>2 DEF GuestReturns, FramesInv, Windows, Places
<1>3. CASE SyscallEnds
  BY <1>3, FramesEscaped DEF SyscallEnds, mb_host_guest_death
<1>4. CASE HostReturns
  BY <1>4 DEF HostReturns, ReturnsTo, FramesInv, Windows, Places
<1>5. ASSUME NEW working \in BOOLEAN, dispatch_inner(working)
      PROVE  FramesInv'
  <2>1. os' = os /\ place = "guest"
    BY <1>5 DEF dispatch_inner
  <2>2. CASE Escape
    BY <2>1, <2>2, FramesEscaped
  <2>3. CASE place' = "sys" /\ UNCHANGED <<cur, frames>>
    BY <2>1, <2>3 DEF FramesInv, Windows, Places
  <2> QED BY <1>5, <2>2, <2>3 DEF dispatch_inner, mb_host_guest_death
<1>6. CASE mb_host_load_state
  BY <1>6, NoFramesTyped DEF mb_host_load_state, FramesInv, Windows, Places
<1> QED BY <1>1, <1>2, <1>3, <1>4, <1>5, <1>6

\* A report is begun on the frame whose fault nobody serves.
LEMMA ReportKeepsFrames ==
  ASSUME FramesInv, frames[cur] # <<>>, report_begin, UNCHANGED <<os, cur>>
  PROVE  FramesInv'
<1>1. "report" \in Stages
  BY DEF Stages
<1>2. Staged("report") \in [Green -> Seq(Frame)] /\ Staged("report")[cur] # <<>>
  BY <1>1, StagedTyped
<1>3. CASE place' = place /\ frames' = frames
  BY <1>3, FramesUntouched
<1>4. CASE place' = "fault" /\ frames' = Staged("report")
  BY <1>2, <1>4 DEF FramesInv, Windows, Places
<1> QED BY <1>3, <1>4 DEF report_begin

\* A fault taken and served, by the host or the guest's handler, or by nobody.
LEMMA FaultsKeepFrames ==
  ASSUME FramesInv,
         Fault \/ HandlerWork \/ HandlerServed \/ HandlerDeclines \/ GuestTraps
  PROVE  FramesInv'
<1>1. CASE Fault
  <2>1. place \in {"guest", "sys"} /\ UNCHANGED <<os, cur>>
    BY <1>1 DEF Fault
  <2>2. [stage |-> "track", from |-> place] \in Frame
    BY <2>1 DEF Frame, Stages
  <2>3. CASE UNCHANGED <<place, frames>>
    BY <2>1, <2>3, FramesUntouched
  <2>4. CASE place' = "fault" /\ frames' = Pushed([stage |-> "track", from |-> place])
    BY <2>1, <2>2, <2>4, PushedTyped DEF FramesInv, Windows, Places
  <2> QED BY <1>1, <2>3, <2>4 DEF Fault
<1>2. CASE trip
  <2>1. place = "fault" /\ Done /\ UNCHANGED <<os, cur>>
    BY <1>2 DEF trip
  <2> QED BY <2>1, PoppedTyped DEF Done, FramesInv, Windows, Places
<1>3. CASE ask_guest \/ send_to_guest
  <2>1. place = "fault" /\ place' = "guest" /\ UNCHANGED <<os, cur>>
    BY <1>3 DEF ask_guest, send_to_guest
  <2>2. "own" \in Stages /\ "entered" \in Stages
    BY DEF Stages
  <2>3. frames' = Staged("own") \/ frames' = Staged("entered")
    BY <1>3 DEF ask_guest, send_to_guest
  <2>4. frames' \in [Green -> Seq(Frame)]
    BY <2>1, <2>2, <2>3, StagedTyped DEF FramesInv
  <2> QED BY <2>1, <2>4 DEF FramesInv, Windows, Places
<1>4. CASE Unserved
  BY <1>4, ReportKeepsFrames DEF Unserved, FramesInv
<1>5. CASE Reported
  <2>1. CASE Escape
    BY <1>5, <2>1, FramesEscaped DEF Reported
  <2>2. CASE UNCHANGED <<place, cur, frames>>
    BY <1>5, <2>2, FramesUntouched DEF Reported
  <2> QED BY <1>5, <2>1, <2>2 DEF Reported
<1>6. CASE HandlerFaults
  BY <1>6, FramesUntouched DEF HandlerFaults
<1>7. CASE HandlerServed
  <2>1. frames[cur] # <<>> /\ Done /\ UNCHANGED <<os, cur>>
    BY <1>7 DEF HandlerServed
  <2> QED BY <2>1, PoppedTyped DEF Done, FramesInv, Windows, Places
<1>8. CASE HandlerDeclines
  BY <1>8, ReportKeepsFrames DEF HandlerDeclines
<1>9. CASE GuestTraps
  <2>1. CASE Escape
    BY <1>9, <2>1, FramesEscaped DEF GuestTraps
  <2>2. CASE UNCHANGED <<place, cur, frames>>
    BY <1>9, <2>2, FramesUntouched DEF GuestTraps
  <2> QED BY <1>9, <2>1, <2>2 DEF GuestTraps
<1> QED BY <1>1, <1>2, <1>3, <1>4, <1>5, <1>6, <1>7, <1>8, <1>9 DEF HandlerWork

\* A stop escapes, goes to the trap on Windows, or leaves the thread alone.
LEMMA StopsKeepFrames ==
  ASSUME FramesInv,
         \/ OtherThread \/ Watchdog \/ StopFromCallback \/ handler_stop_body \/ mb_stop_trap
         \/ mb_host_stop_cancel
  PROVE  FramesInv'
<1>1. CASE OtherThread \/ StopFromCallback \/ mb_host_stop_cancel
  BY <1>1, FramesUntouched
  DEF OtherThread, OtherFaults, OtherReports, OtherPassedOn, StopFromCallback,
      mb_host_stop_cancel, faultVars
<1>2. CASE mb_host_stop \/ NoteWork \/ PostStop \/ SendSignal
  BY <1>2, FramesUntouched DEF mb_host_stop, NoteWork, PostStop, SendSignal, faultVars
<1>3. CASE handler_stop_body
  <2>1. CASE Escape
    BY <1>3, <2>1, FramesEscaped DEF handler_stop_body
  <2>2. CASE UNCHANGED <<place, cur, frames>>
    BY <1>3, <2>2, FramesUntouched DEF handler_stop_body
  <2> QED BY <1>3, <2>1, <2>2 DEF handler_stop_body
<1>4. CASE mb_tripguard_stop_thread
  <2>1. CASE Escape
    BY <1>4, <2>1, FramesEscaped DEF mb_tripguard_stop_thread
  <2>2. CASE UNCHANGED <<place, cur, frames>>
    BY <1>4, <2>2, FramesUntouched DEF mb_tripguard_stop_thread
  <2>3. CASE place' = "trap" /\ UNCHANGED <<cur, frames>>
    BY <1>4, <2>3 DEF mb_tripguard_stop_thread, FramesInv, Windows, Places
  <2> QED BY <1>4, <2>1, <2>2, <2>3 DEF mb_tripguard_stop_thread
<1>5. CASE mb_stop_trap
  BY <1>5, FramesEscaped DEF mb_stop_trap
<1> QED BY <1>1, <1>2, <1>3, <1>4, <1>5 DEF Watchdog
\* On Linux the depth counts the fault being worked on and no other.
DepthInv == ~Windows /\ Running => depth = IF place = "fault" THEN 1 ELSE 0

\* An escape leaves the handler, or ends the process.
LEMMA EscapeLeaves ==
  ASSUME Escape
  PROVE  place' = "out" \/ ~Running'
  BY DEF Escape, Running

\* The calling thread's own steps.
LEMMA DepthKept ==
  ASSUME FramesInv, DepthInv,
         \/ mb_guarded_call \/ GuestReturns \/ SyscallEnds \/ HostReturns
         \/ \E working \in BOOLEAN : dispatch_inner(working)
         \/ mb_host_load_state
         \/ Fault \/ HandlerWork \/ HandlerServed \/ HandlerDeclines \/ GuestTraps
  PROVE  DepthInv'
<1> SUFFICES ASSUME ~Windows', Running'
             PROVE  depth' = IF place' = "fault" THEN 1 ELSE 0
  BY DEF DepthInv
<1>1. CASE mb_guarded_call \/ GuestReturns \/ HostReturns \/ mb_host_load_state
  BY <1>1 DEF mb_guarded_call, GuestReturns, HostReturns, ReturnsTo, mb_host_load_state,
              DepthInv, Windows, Running
<1>2. CASE SyscallEnds
  BY <1>2, EscapeLeaves DEF SyscallEnds, mb_host_guest_death, DepthInv, Windows, Running
<1>3. CASE \E working \in BOOLEAN : dispatch_inner(working)
  BY <1>3, EscapeLeaves DEF dispatch_inner, mb_host_guest_death, DepthInv, Windows, Running
<1>4. CASE Fault
  BY <1>4 DEF Fault, DepthInv, Windows, Running
<1>5. CASE trip
  <2>1. place = "fault" /\ place' = Top.from /\ depth' = depth - 1 /\ depth = 1
    BY <1>5 DEF trip, Done, DepthInv, Windows, Running
  <2>2. Top.from \in {"guest", "sys"}
    BY <2>1, PoppedTyped DEF FramesInv
  <2> QED BY <2>1, <2>2
<1>6. CASE ask_guest \/ send_to_guest
  BY <1>6 DEF ask_guest, send_to_guest, DepthInv, Windows, Running
<1>7. CASE Unserved
  BY <1>7 DEF Unserved, report_begin, DepthInv, Windows, Running
<1>8. CASE Reported
  BY <1>8, EscapeLeaves DEF Reported, leave_every_handler_frame, DepthInv, Windows, Running
<1>9. CASE HandlerFaults
  BY <1>9 DEF HandlerFaults, Running
<1>10. CASE HandlerServed
  <2>1. /\ place = "guest" /\ frames[cur] # <<>> /\ place' = Top.from
        /\ depth' = depth /\ depth = 0
    BY <1>10 DEF HandlerServed, Done, DepthInv, Windows, Running
  <2>2. Top.from \in {"guest", "sys"}
    BY <2>1, PoppedTyped
  <2> QED BY <2>1, <2>2
<1>11. CASE HandlerDeclines
  BY <1>11 DEF HandlerDeclines, report_begin, DepthInv, Windows, Running
<1>12. CASE GuestTraps
  BY <1>12, EscapeLeaves DEF GuestTraps, leave_every_handler_frame, DepthInv, Windows, Running
<1> QED
  BY <1>1, <1>2, <1>3, <1>4, <1>5, <1>6, <1>7, <1>8, <1>9, <1>10, <1>11, <1>12 DEF HandlerWork

\* The other thread's faults are Windows's, and a stop ends the call with no
\* fault being worked on.
LEMMA DepthKeptByStops ==
  ASSUME FramesInv, DepthInv,
         \/ OtherThread \/ Watchdog \/ StopFromCallback \/ handler_stop_body \/ mb_stop_trap
         \/ mb_host_stop_cancel
  PROVE  DepthInv'
<1>1. CASE OtherThread \/ StopFromCallback \/ mb_host_stop_cancel
  BY <1>1
  DEF OtherThread, OtherFaults, OtherReports, OtherPassedOn, StopFromCallback,
      mb_host_stop_cancel, faultVars, DepthInv, Windows, Running
<1>2. CASE mb_host_stop \/ NoteWork \/ PostStop \/ SendSignal
  BY <1>2
  DEF mb_host_stop, NoteWork, PostStop, SendSignal, faultVars, DepthInv, Windows, Running
<1>3. CASE handler_stop_body
  BY <1>3, EscapeLeaves
  DEF handler_stop_body, leave_every_handler_frame, DepthInv, Windows, Running
<1>4. CASE mb_tripguard_stop_thread
  BY <1>4 DEF mb_tripguard_stop_thread, DepthInv, Windows
<1>5. CASE mb_stop_trap
  BY <1>5 DEF mb_stop_trap, FramesInv, DepthInv, Windows
<1> QED BY <1>1, <1>2, <1>3, <1>4, <1>5 DEF Watchdog

\* The frames and the depth hold in every step.
LEMMA FramesAndDepth == FaultsSpec => [](FramesInv /\ DepthInv)
<1>1. FaultInit({"windows", "linux"}) => FramesInv /\ DepthInv
  BY NoFramesTyped DEF FaultInit, FramesInv, DepthInv, Places, Windows
<1>2. FramesInv /\ DepthInv /\ [FaultsNext]_allVars => FramesInv' /\ DepthInv'
  <2> SUFFICES ASSUME FramesInv, DepthInv, [FaultsNext]_allVars
               PROVE  FramesInv' /\ DepthInv'
    OBVIOUS
  <2>1. CASE UNCHANGED allVars
    BY <2>1 DEF allVars, faultVars, FramesInv, DepthInv, Windows, Running
  <2>2. CASE FaultsNext
    BY <2>2, CallsKeepFrames, FaultsKeepFrames, StopsKeepFrames, DepthKept, DepthKeptByStops
    DEF FaultsNext
  <2> QED BY <2>1, <2>2
<1> QED BY <1>1, <1>2, PTL DEF FaultsSpec

\* On Linux the guest never runs with the signal handler's depth counted, in its
\* own fault handler or after any death: handler_stop_body never takes a running
\* guest for a fault being handled.
THEOREM SignalAlwaysReaches == FaultsSpec => []SignalReaches
<1>1. FramesInv /\ DepthInv => SignalReaches
  BY DEF DepthInv, SignalReaches
<1> QED BY <1>1, FramesAndDepth, PTL
-----------------------------------------------------------------------------
\* The stop in the making.  Between calls, once cancelled, there is none; one
\* noted or pending during a call was asked for in that call; and the work noted
\* for it is the work done when it was asked ...
StopAsked ==
  /\ dead \in BOOLEAN /\ stop_pending \in BOOLEAN /\ ended \in BOOLEAN
  /\ place = "out" /\ ~ended => ~stop_pending /\ ask = "idle"
  /\ place # "out" /\ (stop_pending \/ ask \in {"note", "post"}) => asked.turn = turn
  /\ stop_pending \/ ask = "post" => asked.work = stop_activity

\* ... which only grows after.
StopCounted ==
  /\ activity \in Nat /\ stop_activity \in Nat
  /\ asked \in [turn : Nat, work : Nat] /\ turn \in Nat
  /\ stop_pending \/ ask = "post" => stop_activity <= activity

StopInv == StopAsked /\ StopCounted /\ StopsItsCall /\ StopsTheStuck

\* Before the first call nothing was asked.
LEMMA StopInitially == FaultInit({"windows", "linux"}) => StopInv
<1> SUFFICES ASSUME FaultInit({"windows", "linux"})
             PROVE  StopInv
  OBVIOUS
<1>1. StopAsked
  BY DEF FaultInit, StopAsked
<1>2. StopCounted
  BY DEF FaultInit, StopCounted
<1>3. StopsItsCall /\ StopsTheStuck
  BY DEF FaultInit, StopsItsCall, StopsTheStuck, Never
<1> QED BY <1>1, <1>2, <1>3 DEF StopInv

\* A step inside the call, or outside it, that no stop comes of.
LEMMA StopUntouched ==
  ASSUME StopInv, UNCHANGED stopVars, place' = "out" <=> place = "out"
  PROVE  StopInv'
<1>1. StopAsked'
  BY DEF StopInv, StopAsked, stopVars
<1>2. StopCounted'
  BY DEF StopInv, StopCounted, stopVars
<1>3. UNCHANGED stopped
  BY DEF stopVars
<1> QED BY <1>1, <1>2, <1>3 DEF StopInv, StopsItsCall, StopsTheStuck

\* The end of a call: what was asked stays asked until it is cancelled.
LEMMA StopAtEnd ==
  ASSUME StopInv, place # "out", dead' \in BOOLEAN,
         \/ place' = "out" /\ ended' = TRUE
         \/ place' = place /\ ended' = ended,
         UNCHANGED <<stop_pending, activity, stop_activity, ask, turn, asked, stopped>>
  PROVE  StopInv'
<1>1. StopAsked'
  BY DEF StopInv, StopAsked
<1>2. StopCounted'
  BY DEF StopInv, StopCounted
<1> QED BY <1>1, <1>2 DEF StopInv, StopsItsCall, StopsTheStuck

\* A pending stop is looked at, in the guest's call: it is taken back, or it is
\* carried out when the guest has not worked since it was asked for.
LEMMA StopLookedAt ==
  ASSUME StopInv, place = "guest", NEW w \in Nat, w = activity \/ w = activity + 1,
         activity' = w, stop_pending' = FALSE, dead' \in BOOLEAN, ended' \in BOOLEAN,
         place' = "out" => ended' = TRUE,
         ask' = ask \/ ask' = "idle", UNCHANGED <<stop_activity, turn, asked>>,
         stopped' = stopped \/ (mb_stop_due(w) /\ StopCarriedOut)
  PROVE  StopInv'
<1>1. StopAsked'
  BY DEF StopInv, StopAsked
<1>2. StopCounted'
  BY DEF StopInv, StopCounted
<1>3. CASE stopped' = stopped
  BY <1>1, <1>2, <1>3 DEF StopInv, StopsItsCall, StopsTheStuck
<1>4. CASE mb_stop_due(w) /\ StopCarriedOut
  <2>1. stop_pending /\ w = stop_activity
    BY <1>4 DEF mb_stop_due
  <2>2. asked.turn = turn /\ asked.work = stop_activity
    BY <2>1 DEF StopInv, StopAsked
  <2>3. activity = stop_activity
    BY <2>1 DEF StopInv, StopCounted
  <2>4. stopped' = [turn |-> turn, asked |-> turn, worked |-> FALSE]
    BY <1>4, <2>2, <2>3 DEF StopCarriedOut
  <2> QED BY <1>1, <1>2, <2>4 DEF StopInv, StopsItsCall, StopsTheStuck
<1> QED BY <1>3, <1>4

\* What an escape does to the call.
LEMMA EscapeEnds ==
  ASSUME Escape
  PROVE  \/ place' = "out" /\ ended' = TRUE
         \/ place' = place /\ ended' = ended
  BY DEF Escape

\* The guest's steps in and out of calls and system calls.
LEMMA CallsKeepStop ==
  ASSUME StopInv,
         \/ mb_guarded_call \/ GuestReturns \/ SyscallEnds \/ HostReturns
         \/ \E working \in BOOLEAN : dispatch_inner(working)
         \/ mb_host_load_state
  PROVE  StopInv'
<1>1. CASE mb_guarded_call
  <2>1. StopAsked'
    BY <1>1 DEF mb_guarded_call, StopInv, StopAsked
  <2>2. StopCounted'
    BY <1>1 DEF mb_guarded_call, StopInv, StopCounted
  <2> QED BY <1>1, <2>1, <2>2 DEF mb_guarded_call, StopInv, StopsItsCall, StopsTheStuck
<1>2. CASE GuestReturns
  BY <1>2, StopAtEnd DEF GuestReturns, StopInv, StopAsked
<1>3. CASE SyscallEnds
  BY <1>3, StopAtEnd, EscapeEnds DEF SyscallEnds, mb_host_guest_death
<1>4. ASSUME NEW g \in Green, NEW working \in BOOLEAN, ReturnsTo(g, working)
      PROVE  StopInv'
  <2>1. StopAsked'
    BY <1>4 DEF ReturnsTo, StopInv, StopAsked
  <2>2. activity' \in Nat /\ activity' >= activity
    BY <1>4 DEF ReturnsTo, StopInv, StopCounted
  <2>3. StopCounted'
    BY <1>4, <2>2 DEF ReturnsTo, StopInv, StopCounted
  <2> QED BY <1>4, <2>1, <2>3 DEF ReturnsTo, StopInv, StopsItsCall, StopsTheStuck
<1>5. ASSUME NEW working \in BOOLEAN, dispatch_inner(working)
      PROVE  StopInv'
  <2> DEFINE w == IF working THEN activity + 1 ELSE activity
  <2>1. /\ place = "guest" /\ activity' = w /\ stop_pending' = FALSE
        /\ UNCHANGED <<stop_activity, ask, turn, asked>>
    BY <1>5 DEF dispatch_inner
  <2>2. w \in Nat /\ (w = activity \/ w = activity + 1)
    BY DEF StopInv, StopCounted
  <2>3. dead \in BOOLEAN /\ ended \in BOOLEAN
    BY DEF StopInv, StopAsked
  <2>4. CASE mb_stop_due(w)
    <3>1. dead' = TRUE /\ Escape /\ StopCarriedOut
      BY <1>5, <2>4 DEF dispatch_inner, mb_host_guest_death
    <3> QED BY <2>1, <2>2, <2>3, <2>4, <3>1, EscapeEnds, StopLookedAt
  <2>5. CASE ~mb_stop_due(w)
    <3>1. place' = "sys" /\ UNCHANGED <<dead, ended, stopped>>
      BY <1>5, <2>5 DEF dispatch_inner
    <3> HIDE DEF w
    <3> QED BY <2>1, <2>2, <2>3, <3>1, StopLookedAt
  <2> QED BY <2>4, <2>5
<1>6. CASE mb_host_load_state
  <2>1. StopAsked'
    BY <1>6 DEF mb_host_load_state, StopInv, StopAsked
  <2>2. StopCounted'
    BY <1>6 DEF mb_host_load_state, StopInv, StopCounted
  <2> QED BY <1>6, <2>1, <2>2 DEF mb_host_load_state, StopInv, StopsItsCall, StopsTheStuck
<1> QED BY <1>1, <1>2, <1>3, <1>4, <1>5, <1>6 DEF HostReturns

\* Faults, served or not, and the deaths that come of them.
LEMMA FaultsKeepStop ==
  ASSUME FramesInv, StopInv,
         \/ Fault \/ HandlerWork \/ HandlerServed \/ HandlerDeclines \/ GuestTraps
         \/ OtherThread \/ mb_stop_trap
  PROVE  StopInv'
<1> USE StopUntouched
<1>1. CASE Fault
  BY <1>1 DEF Fault
<1>2. CASE trip
  BY <1>2, PoppedTyped DEF trip, Done, FramesInv
<1>3. CASE ask_guest \/ send_to_guest
  BY <1>3 DEF ask_guest, send_to_guest
<1>4. CASE Unserved
  BY <1>4 DEF Unserved, report_begin
<1>5. CASE Reported
  <2>1. /\ place = "fault"
        /\ UNCHANGED <<stop_pending, activity, stop_activity, ask, turn, asked, stopped>>
    BY <1>5 DEF Reported
  <2>2. dead \in BOOLEAN
    BY DEF StopInv, StopAsked
  <2>3. CASE Top.from = "guest"
    BY <1>5, <2>1, <2>3, StopAtEnd, EscapeEnds DEF Reported
  <2>4. CASE Top.from # "guest"
    BY <1>5, <2>1, <2>2, <2>4, StopAtEnd DEF Reported
  <2> QED BY <2>3, <2>4
<1>6. CASE HandlerFaults
  BY <1>6 DEF HandlerFaults
<1>7. CASE HandlerServed
  BY <1>7, PoppedTyped DEF HandlerServed, Done
<1>8. CASE HandlerDeclines
  BY <1>8 DEF HandlerDeclines, report_begin
<1>9. CASE GuestTraps
  <2>1. /\ place = "guest"
        /\ UNCHANGED <<stop_pending, activity, stop_activity, ask, turn, asked, stopped>>
    BY <1>9 DEF GuestTraps
  <2>2. dead \in BOOLEAN
    BY DEF StopInv, StopAsked
  <2>3. CASE Windows /\ reporting # "none"
    BY <1>9, <2>1, <2>2, <2>3, StopAtEnd DEF GuestTraps
  <2>4. CASE ~(Windows /\ reporting # "none")
    BY <1>9, <2>1, <2>4, StopAtEnd, EscapeEnds DEF GuestTraps
  <2> QED BY <2>3, <2>4
<1>10. CASE OtherThread
  BY <1>10 DEF OtherThread, OtherFaults, OtherReports, OtherPassedOn
<1>11. CASE mb_stop_trap
  <2>1. dead \in BOOLEAN
    BY DEF StopInv, StopAsked
  <2> QED BY <1>11, <2>1, StopAtEnd, EscapeEnds DEF mb_stop_trap
<1> QED
  BY <1>1, <1>2, <1>3, <1>4, <1>5, <1>6, <1>7, <1>8, <1>9, <1>10, <1>11 DEF HandlerWork

\* The stop asked for step by step, and taken back.
LEMMA AsksKeepStop ==
  ASSUME StopInv, Locked,
         mb_host_stop \/ NoteWork \/ PostStop \/ SendSignal \/ StopFromCallback \/ mb_host_stop_cancel
  PROVE  StopInv'
<1> SUFFICES StopAsked' /\ StopCounted' /\ stopped' = stopped
  BY DEF StopInv, StopsItsCall, StopsTheStuck
<1>1. stopped' = stopped
  BY DEF mb_host_stop, NoteWork, PostStop, SendSignal, StopFromCallback, mb_host_stop_cancel
<1>2. CASE mb_host_stop
  <2>1. asked \in [turn : Nat, work : Nat] /\ turn \in Nat
    BY DEF StopInv, StopCounted
  <2>2. CASE stop_pending
    BY <1>1, <1>2, <2>2 DEF mb_host_stop, faultVars, StopInv, StopAsked, StopCounted
  <2>3. CASE ~stop_pending
    <3>1. asked' \in [turn : Nat, work : Nat] /\ asked'.turn = turn
      BY <1>2, <2>1, <2>3 DEF mb_host_stop
    <3>2. StopAsked'
      BY <1>2, <2>3, <3>1 DEF mb_host_stop, faultVars, StopInv, StopAsked
    <3>3. StopCounted'
      BY <1>2, <2>3, <3>1 DEF mb_host_stop, StopInv, StopCounted
    <3> QED BY <1>1, <3>2, <3>3
  <2> QED BY <2>2, <2>3
<1>3. CASE NoteWork
  <2>1. /\ asked' \in [turn : Nat, work : Nat]
        /\ asked'.turn = asked.turn /\ asked'.work = stop_activity'
    BY <1>3 DEF NoteWork, StopInv, StopCounted
  <2>2. StopAsked'
    BY <1>3, <2>1 DEF NoteWork, faultVars, StopInv, StopAsked
  <2>3. StopCounted'
    BY <1>3, <2>1 DEF NoteWork, StopInv, StopCounted
  <2> QED BY <1>1, <2>2, <2>3
<1>4. CASE PostStop
  <2>1. StopAsked'
    BY <1>4 DEF PostStop, faultVars, StopInv, StopAsked
  <2>2. StopCounted'
    BY <1>4 DEF PostStop, StopInv, StopCounted
  <2> QED BY <1>1, <2>1, <2>2
<1>5. CASE SendSignal
  <2>1. StopAsked'
    BY <1>5 DEF SendSignal, faultVars, StopInv, StopAsked
  <2>2. StopCounted'
    BY <1>5 DEF SendSignal, StopInv, StopCounted
  <2> QED BY <1>1, <2>1, <2>2
<1>6. CASE StopFromCallback
  <2>1. StopAsked'
    BY <1>6 DEF StopFromCallback, faultVars, StopInv, StopAsked
  <2>2. StopCounted'
    BY <1>6 DEF StopFromCallback, StopInv, StopCounted
  <2> QED BY <1>1, <2>1, <2>2
<1>7. CASE mb_host_stop_cancel
  <2>1. StopAsked'
    BY <1>7 DEF mb_host_stop_cancel, faultVars, StopInv, StopAsked
  <2>2. StopCounted'
    BY <1>7 DEF mb_host_stop_cancel, StopInv, StopCounted
  <2> QED BY <1>1, <2>1, <2>2
<1> QED BY <1>2, <1>3, <1>4, <1>5, <1>6, <1>7

\* The stop carried out: by the signal, or on the suspended thread.
LEMMA StopsKeepStop ==
  ASSUME StopInv, handler_stop_body \/ mb_tripguard_stop_thread
  PROVE  StopInv'
<1>1. /\ dead \in BOOLEAN /\ ended \in BOOLEAN /\ stop_pending \in BOOLEAN /\ activity \in Nat
  BY DEF StopInv, StopAsked, StopCounted
<1>2. CASE handler_stop_body
  <2>1. UNCHANGED <<activity, stop_activity, ask, turn, asked>>
    BY <1>2 DEF handler_stop_body
  <2>2. CASE stop_pending /\ depth = 0 /\ place = "guest"
    <3>1. stop_pending' = FALSE
      BY <1>2, <2>2 DEF handler_stop_body
    <3>2. \/ dead' = TRUE /\ Escape /\ mb_stop_due(activity) /\ StopCarriedOut
          \/ UNCHANGED <<dead, place, ended, stopped>>
      BY <1>2, <2>2 DEF handler_stop_body
    <3> QED BY <1>1, <2>1, <2>2, <3>1, <3>2, EscapeEnds, StopLookedAt
  <2>3. CASE ~(stop_pending /\ depth = 0 /\ place = "guest")
    <3>1. UNCHANGED <<stop_pending, dead, place, ended, stopped>>
      BY <1>2, <2>3 DEF handler_stop_body
    <3>2. StopAsked'
      BY <2>1, <3>1 DEF StopInv, StopAsked
    <3>3. StopCounted'
      BY <2>1, <3>1 DEF StopInv, StopCounted
    <3> QED BY <3>1, <3>2, <3>3 DEF StopInv, StopsItsCall, StopsTheStuck
  <2> QED BY <2>2, <2>3
<1>3. CASE mb_tripguard_stop_thread
  <2>1. ask = "send" /\ ask' = "idle" /\ UNCHANGED <<activity, stop_activity, turn, asked>>
    BY <1>3 DEF mb_tripguard_stop_thread
  <2> DEFINE looks == stop_pending /\ place = "guest" /\ (Idle \/ InOwnHandler)
  <2>2. CASE looks
    <3>1. stop_pending' = FALSE
      BY <1>3, <2>2 DEF mb_tripguard_stop_thread
    <3>2. \/ /\ dead' = TRUE /\ mb_stop_due(activity) /\ StopCarriedOut
             /\ Escape \/ (place' = "trap" /\ ended' = ended)
          \/ UNCHANGED <<dead, place, ended, stopped>>
      BY <1>3, <2>2 DEF mb_tripguard_stop_thread
    <3> QED BY <1>1, <2>1, <2>2, <3>1, <3>2, EscapeEnds, StopLookedAt
  <2>3. CASE ~looks
    <3>1. UNCHANGED <<stop_pending, dead, place, ended, stopped>>
      BY <1>3, <2>3 DEF mb_tripguard_stop_thread
    <3>2. StopAsked'
      BY <2>1, <3>1 DEF StopInv, StopAsked
    <3>3. StopCounted'
      BY <2>1, <3>1 DEF StopInv, StopCounted
    <3> QED BY <3>1, <3>2, <3>3 DEF StopInv, StopsItsCall, StopsTheStuck
  <2> QED BY <2>2, <2>3
<1> QED BY <1>2, <1>3

\* The invariant of stops, for a frontend that cancels only between two asks.
THEOREM StopInvariant ==
  ASSUME Locked
  PROVE  FaultsSpec => []StopInv
<1>1. FramesInv /\ StopInv /\ [FaultsNext]_allVars => StopInv'
  <2> SUFFICES ASSUME FramesInv, StopInv, [FaultsNext]_allVars
               PROVE  StopInv'
    OBVIOUS
  <2>1. CASE UNCHANGED allVars
    BY <2>1, StopUntouched DEF allVars, faultVars
  <2>2. CASE FaultsNext
    BY <2>2, CallsKeepStop, FaultsKeepStop, AsksKeepStop, StopsKeepStop DEF FaultsNext, Watchdog
  <2> QED BY <2>1, <2>2
<1> QED BY <1>1, StopInitially, FramesAndDepth, PTL DEF FaultsSpec

\* A stop asked for in one call is never carried out in another: mb_host_stop's
\* steps, the work counted, the signals sent late and the cancel may come in any
\* order ("A stop is never carried into the next call after a cancel").
THEOREM StopEndsItsCall ==
  ASSUME Locked
  PROVE  FaultsSpec => []StopsItsCall
<1>1. StopInv => StopsItsCall
  BY DEF StopInv
<1> QED BY <1>1, StopInvariant, PTL

\* A guest that has made a working system call, or come back from a callback,
\* since the stop was asked for is not ended by it.
THEOREM StopEndsTheStuck ==
  ASSUME Locked
  PROVE  FaultsSpec => []StopsTheStuck
<1>1. StopInv => StopsTheStuck
  BY DEF StopInv
<1> QED BY <1>1, StopInvariant, PTL
=============================================================================
