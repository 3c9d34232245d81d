----------------------------- MODULE WinUHidXOne -----------------------------
(***************************************************************************)
(* Force feedback of the Xbox One preset (WinUHidDevs/WinUHidXOne.cpp).    *)
(*                                                                         *)
(* The event thread of the device calls WinUHidXOneCallback for each       *)
(* output report; it leaves the report in RumbleState and sets an event.   *)
(* XOneRumbleThreadProc loads the latest report and plays it: a delay, the *)
(* motors on for a duration, off, and again Repeat times, unless a newer   *)
(* report or WinUHidXOneDestroy interrupts it.  Times are in the units of  *)
(* the report (10 ms).                                                     *)
(***************************************************************************)
EXTENDS Naturals

CONSTANTS
    Amplitudes,  \* motor settings that are not zero
    Zero,        \* all motors off
    Reports      \* output reports a HID client may write

ReportType == [motors : Amplitudes \cup {Zero},
               Duration : Nat, Delay : Nat, Repeat : Nat]

ASSUME XOneAssumption ==
    /\ Zero \notin Amplitudes
    /\ Reports \subseteq ReportType

VARIABLES
    RumbleState,         \* the latest output report
    RumbleUpdatedEvent,  \* a manual-reset event: TRUE iff signalled
    Stopping,
    owner,   \* the thread that creates and destroys the gamepad
    callback,\* WinUHidXOneCallback: "idle", or "set" before its SetEvent
    thread,  \* XOneRumbleThreadProc
    timer,   \* its manual-reset timer: "unset", "armed", "signalled"
    motors   \* what the user's callback was told last

gamepad == <<RumbleState, RumbleUpdatedEvent, Stopping, owner, callback>>
player  == <<thread, timer, motors>>
vars    == <<gamepad, player>>

NoReport == [motors |-> Zero, Duration |-> 0, Delay |-> 0, Repeat |-> 0]

\* The thread has a copy of the report it plays, whose Repeat it may change,
\* and counts rounds; due is the time of the running timer, and on the time
\* for which it has kept the motors on.
Init ==
    /\ RumbleState = NoReport
    /\ RumbleUpdatedEvent = FALSE
    /\ Stopping = FALSE
    /\ owner = "create"
    /\ callback = "idle"
    /\ thread = [pc |-> "start", report |-> NoReport, repeat |-> 0, round |-> 0,
                 due |-> 0, on |-> 0]
    /\ timer = "unset"
    /\ motors = Zero

Goto(label) == thread' = [thread EXCEPT !.pc = label]

-----------------------------------------------------------------------------
(* WinUHidXOneCallback, on the event thread of the device                  *)

\* Under the exclusive lock: store the report.
StoreReport ==
    /\ owner # "create"
    /\ owner # "gone"
    /\ callback = "idle"
    /\ RumbleState' \in Reports
    /\ callback' = "set"
    /\ UNCHANGED <<RumbleUpdatedEvent, Stopping, owner, player>>

\* SetEvent(RumbleUpdatedEvent), after the lock was released.  It fails when
\* WinUHidXOneDestroy has closed the event.
SignalReport ==
    /\ callback = "set"
    /\ callback' = "idle"
    /\ RumbleUpdatedEvent' = (RumbleUpdatedEvent \/ owner # "destroyDevice")
    /\ UNCHANGED <<RumbleState, Stopping, owner, player>>

-----------------------------------------------------------------------------
(* XOneRumbleThreadProc                                                    *)

\* The thread creates its timer, or exits.
StartThread ==
    /\ thread.pc = "start"
    /\ Goto("check") \/ Goto("exited")
    /\ UNCHANGED <<gamepad, timer, motors>>

\* The loop condition.
CheckStopping ==
    /\ thread.pc = "check"
    /\ Goto(IF Stopping THEN "exited" ELSE "wait")
    /\ UNCHANGED <<gamepad, timer, motors>>

\* WaitForSingleObject(RumbleUpdatedEvent, INFINITE), then Stopping again.
WaitForReport ==
    /\ thread.pc = "wait"
    /\ RumbleUpdatedEvent
    /\ Goto(IF Stopping THEN "exited" ELSE "load")
    /\ UNCHANGED <<gamepad, timer, motors>>

\* Mutant: the event is reset after the lock is released.
LoadReportTooLate ==
    /\ thread.pc \in {"load", "reset"}
    /\ \/ /\ thread.pc = "load"
          /\ thread' = [pc |-> "reset", report |-> RumbleState,
                        repeat |-> RumbleState.Repeat, round |-> 0,
                        due |-> 0, on |-> 0]
          /\ UNCHANGED RumbleUpdatedEvent
       \/ /\ thread.pc = "reset"
          /\ Goto("effect")
          /\ RumbleUpdatedEvent' = FALSE
    /\ UNCHANGED <<RumbleState, Stopping, owner, callback, timer, motors>>

\* Under the shared lock: copy the report and reset the event.
LoadReport ==
    /\ thread.pc = "load"
    /\ thread' = [pc |-> "effect", report |-> RumbleState,
                  repeat |-> RumbleState.Repeat, round |-> 0,
                  due |-> 0, on |-> 0]
    /\ RumbleUpdatedEvent' = FALSE
    /\ UNCHANGED <<RumbleState, Stopping, owner, callback, timer, motors>>

\* Nothing to do: the motors go off.
PlayNothing ==
    /\ thread.pc = "effect"
    /\ thread.report.Duration = 0 \/ thread.report.motors = Zero
    /\ motors' = Zero
    /\ Goto("check")
    /\ UNCHANGED <<gamepad, timer>>

\* A round begins with its delay, if there is one.
BeginRound ==
    /\ thread.pc = "effect"
    /\ thread.report.Duration # 0
    /\ thread.report.motors # Zero
    /\ IF thread.report.Delay = 0 THEN Goto("play") /\ UNCHANGED timer
       ELSE Goto("delay") /\ timer' = "armed"
    /\ UNCHANGED <<gamepad, motors>>

\* WaitForMultipleObjects, the event before the timer: a new report, or the
\* end of the gamepad, breaks off the effect.
Interrupted ==
    /\ thread.pc \in {"delay", "on"}
    /\ RumbleUpdatedEvent \/ (timer = "signalled" /\ Stopping)
    /\ Goto("check")
    /\ UNCHANGED <<gamepad, timer, motors>>

TimerEnds == timer = "signalled" /\ ~RumbleUpdatedEvent /\ ~Stopping

DelayEnds ==
    /\ thread.pc = "delay"
    /\ TimerEnds
    /\ Goto("play")
    /\ UNCHANGED <<gamepad, timer, motors>>

\* Mutant: the remaining repeats are not cleared when they are consolidated.
PlayMotorsRepeats ==
    /\ thread.pc = "play"
    /\ motors' = thread.report.motors
    /\ timer' = "armed"
    /\ thread' = [thread EXCEPT !.pc = "on",
           !.due = thread.report.Duration
                   * (IF thread.report.Delay = 0 THEN thread.repeat + 1 ELSE 1)]
    /\ UNCHANGED gamepad

\* The motors go on for the duration; without a delay all rounds are played as
\* one, and Repeat is cleared.
PlayMotors ==
    /\ thread.pc = "play"
    /\ motors' = thread.report.motors
    /\ timer' = "armed"
    /\ IF thread.report.Delay = 0
       THEN thread' = [thread EXCEPT !.pc = "on", !.repeat = 0,
                          !.due = thread.report.Duration * (thread.repeat + 1)]
       ELSE thread' = [thread EXCEPT !.pc = "on",
                                     !.due = thread.report.Duration]
    /\ UNCHANGED gamepad

\* Mutant: the next round starts without the motors going off in between.
RoundEndsStillOn ==
    /\ thread.pc = "on"
    /\ TimerEnds
    /\ thread' = [thread EXCEPT
                     !.pc = IF thread.round < thread.repeat THEN "effect"
                            ELSE "check",
                     !.round = @ + 1, !.due = 0, !.on = @ + thread.due]
    /\ UNCHANGED <<gamepad, timer, motors>>

\* The duration is over: the motors go off, and the next round begins.
RoundEnds ==
    /\ thread.pc = "on"
    /\ TimerEnds
    /\ motors' = Zero
    /\ thread' = [thread EXCEPT
                     !.pc = IF thread.round < thread.repeat THEN "effect"
                            ELSE "check",
                     !.round = @ + 1, !.due = 0, !.on = @ + thread.due]
    /\ UNCHANGED <<gamepad, timer>>

TimerExpires ==
    /\ timer = "armed"
    /\ timer' = "signalled"
    /\ UNCHANGED <<gamepad, thread, motors>>

-----------------------------------------------------------------------------
(* WinUHidXOneCreate and WinUHidXOneDestroy                                *)

\* WinUHidStartDevice: from here on there are output reports.
StartDevice ==
    /\ owner = "create"
    /\ owner' = "run"
    /\ UNCHANGED <<RumbleState, RumbleUpdatedEvent, Stopping, callback, player>>

\* The caller destroys the gamepad, or its creation fails.
Destroy ==
    /\ owner \in {"create", "run"}
    /\ Stopping' = TRUE
    /\ owner' = "signal"
    /\ UNCHANGED <<RumbleState, RumbleUpdatedEvent, callback, player>>

\* Mutant: only Stopping tells the thread.
DestroySignalsNothing ==
    /\ owner = "signal"
    /\ owner' = "join"
    /\ UNCHANGED <<RumbleState, RumbleUpdatedEvent, Stopping, callback, player>>

\* SetEvent(RumbleUpdatedEvent).
DestroySignals ==
    /\ owner = "signal"
    /\ RumbleUpdatedEvent' = TRUE
    /\ owner' = "join"
    /\ UNCHANGED <<RumbleState, Stopping, callback, player>>

\* The thread has exited; its event is closed while the device still runs.
DestroyJoins ==
    /\ owner = "join"
    /\ thread.pc = "exited"
    /\ owner' = "destroyDevice"
    /\ UNCHANGED <<RumbleState, RumbleUpdatedEvent, Stopping, callback, player>>

\* WinUHidDestroyDevice waits for the callback on the event thread.
DestroyDevice ==
    /\ owner = "destroyDevice"
    /\ callback = "idle"
    /\ owner' = "gone"
    /\ UNCHANGED <<RumbleState, RumbleUpdatedEvent, Stopping, callback, player>>

\* Nothing happens to a destroyed gamepad.
Destroyed == owner = "gone" /\ UNCHANGED vars

-----------------------------------------------------------------------------

ThreadStep ==
    \/ StartThread
    \/ CheckStopping
    \/ WaitForReport
    \/ LoadReport
    \/ PlayNothing
    \/ BeginRound
    \/ Interrupted
    \/ DelayEnds
    \/ PlayMotors
    \/ RoundEnds

Next ==
    \/ StoreReport
    \/ SignalReport
    \/ ThreadStep
    \/ TimerExpires
    \/ StartDevice
    \/ Destroy
    \/ DestroySignals
    \/ DestroyJoins
    \/ DestroyDevice
    \/ Destroyed

\* The threads run on and the timer expires.  WinUHidDestroyDevice keeps a new
\* callback from starting for ever, as the device stops polling.
Fairness ==
    /\ WF_vars(SignalReport)
    /\ WF_vars(ThreadStep)
    /\ WF_vars(TimerExpires)
    /\ WF_vars(DestroySignals)
    /\ WF_vars(DestroyJoins)
    /\ SF_vars(DestroyDevice)

Spec == Init /\ [][Next]_vars /\ Fairness

-----------------------------------------------------------------------------
(* Properties                                                              *)

\* Every variable has its type.
TypeOK ==
    /\ RumbleState \in Reports \cup {NoReport}
    /\ RumbleUpdatedEvent \in BOOLEAN
    /\ Stopping \in BOOLEAN
    /\ owner \in {"create", "run", "signal", "join", "destroyDevice", "gone"}
    /\ callback \in {"idle", "set"}
    /\ thread.pc \in {"start", "check", "wait", "load", "effect", "delay",
                      "play", "on", "exited"}
    /\ thread.report \in Reports \cup {NoReport}
    /\ timer \in {"unset", "armed", "signalled"}
    /\ motors \in Amplitudes \cup {Zero}

\* A report the thread has not loaded will wake it, or interrupt the effect it
\* plays: the event is signalled or the callback is about to signal it.
ReportNotMissed ==
    thread.pc \in {"wait", "delay", "on"} /\ ~Stopping =>
        \/ thread.report = RumbleState
        \/ RumbleUpdatedEvent
        \/ callback = "set"

\* The motors do not stay on when nothing is played: the thread waits for a
\* report with the motors off, or will find one at once.
MotorsOffWhenIdle ==
    thread.pc = "wait" /\ ~RumbleUpdatedEvent /\ ~Stopping => motors = Zero

\* An effect that nothing interrupts keeps the motors on for Duration in each
\* of its Repeat + 1 rounds, also when the rounds are consolidated.
EffectLength ==
    thread.pc = "on" =>
        LET played == thread.on + thread.due
            total  == thread.report.Duration * (thread.report.Repeat + 1) IN
        /\ played <= total
        /\ thread.round = thread.repeat => played = total

\* Each report takes effect, unless a newer one replaces it: the thread comes
\* to play the report the callback stored.
ReportsPlay ==
    (callback = "set") ~>
        (thread.report = RumbleState \/ Stopping \/ thread.pc = "exited")

\* The motors go off when the effect is over.
EffectEnds ==
    (motors # Zero) ~> (motors = Zero \/ RumbleUpdatedEvent \/ Stopping)

\* WinUHidXOneDestroy returns: the thread is woken in each of its waits, or the
\* wait is bounded by the timer.
DestroyReturns == Stopping ~> (owner = "gone")

=============================================================================
