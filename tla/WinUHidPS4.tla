------------------------------ MODULE WinUHidPS4 ------------------------------
(***************************************************************************)
(* The PS4 preset: the callback on the event thread merges what an output  *)
(* report says of the light bar into LedState and signals the LED thread,  *)
(* which shows the latest state, steadily or blinking, until the next.     *)
(* Features and rumble keep no state.                                      *)
(***************************************************************************)
EXTENDS WinUHidGamepad

CONSTANTS
    Colors,    \* colors of the light bar other than off
    Off,
    LedReports \* output reports a HID client may write

\* NotValid: the report has no such part.  A blink time of zero, on and off,
\* is steady light.
NotValid == "not valid"

ASSUME PS4Assumption ==
    /\ Off \notin Colors
    /\ LedReports \subseteq [color : Colors \cup {Off, NotValid},
                             blink : {"steady", "blink", NotValid}]

VARIABLES
    LedState,
    LedUpdatedEvent, \* manual-reset: "reset", "signalled", or "closed"
    Stopping,
    event,           \* the output report the callback has, and its step
    led,             \* PS4LedThreadProc and its copy of LedState
    shown            \* what LedCallback was told last

ps4 == <<LedState, LedUpdatedEvent, Stopping, event, led, shown>>

InitialLed == [color |-> Off, blink |-> "steady"]
Handling(step, report) == [pc |-> step, report |-> report]
NoReport == [color |-> NotValid, blink |-> NotValid]

\* WinUHidPS4Create starts the LED thread before the device, or there is
\* none, for want of a callback or of a thread.
InitPS4 ==
    /\ LedState = InitialLed
    /\ LedUpdatedEvent = "reset"
    /\ Stopping = FALSE
    /\ event = Handling("idle", NoReport)
    /\ led \in [pc : {"check", "none"}, state : {InitialLed}]
    /\ shown = Off

-----------------------------------------------------------------------------
(* WinUHidPS4Callback on the event thread                                  *)

\* Feature reports the preset knows have data, others fail; setting one
\* always succeeds.
HandleFeature ==
    /\ started
    /\ eventThread = "idle"
    /\ answer' \in {"success", "failed"}
    /\ UNCHANGED <<owner, started, input, eventThread, ps4>>

\* Reports of another id, or too short, are failed.
RefuseOutput ==
    /\ started
    /\ eventThread = "idle"
    /\ answer' = "failed"
    /\ UNCHANGED <<owner, started, input, eventThread, ps4>>

HandleOutput(report) ==
    /\ started
    /\ eventThread = "idle"
    /\ eventThread' = "busy"
    /\ event' = IF led.pc # "none" /\ report # NoReport
                THEN Handling("store", report) ELSE Handling("rumble", NoReport)
    /\ UNCHANGED <<owner, started, input, answer, LedState, LedUpdatedEvent,
                   Stopping, led, shown>>

\* Under the lock.
StoreLed ==
    /\ event.pc = "store"
    /\ event' = Handling("signal", NoReport)
    /\ LedState' = [part \in {"color", "blink"} |->
                       IF event.report[part] # NotValid THEN event.report[part]
                       ELSE LedState[part]]
    /\ UNCHANGED <<gamepad, LedUpdatedEvent, Stopping, led, shown>>

\* SetEvent, which fails on a handle that is closed.
SignalLed ==
    /\ event.pc = "signal"
    /\ event' = [event EXCEPT !.pc = "rumble"]
    /\ LedUpdatedEvent' = IF LedUpdatedEvent = "closed" THEN "closed" ELSE "signalled"
    /\ UNCHANGED <<gamepad, LedState, Stopping, led, shown>>

\* RumbleCallback, if the motors are valid.
CompleteOutput ==
    /\ event.pc = "rumble"
    /\ event' = [event EXCEPT !.pc = "idle"]
    /\ eventThread' = "idle"
    /\ answer' = "success"
    /\ UNCHANGED <<owner, started, input, LedState, LedUpdatedEvent, Stopping,
                   led, shown>>

-----------------------------------------------------------------------------
(* PS4LedThreadProc                                                        *)

CheckStopping ==
    /\ led.pc = "check"
    /\ led' = [led EXCEPT !.pc = IF Stopping THEN "exited" ELSE "wait"]
    /\ UNCHANGED <<gamepad, LedState, LedUpdatedEvent, Stopping, event, shown>>

WaitForLed ==
    /\ led.pc = "wait"
    /\ LedUpdatedEvent = "signalled"
    /\ led' = [led EXCEPT !.pc = IF Stopping THEN "exited" ELSE "load"]
    /\ UNCHANGED <<gamepad, LedState, LedUpdatedEvent, Stopping, event, shown>>

\* Mutant: the event is reset after the lock is released.
LoadLedTooLate ==
    /\ \/ /\ led.pc = "load"
          /\ led' = [pc |-> "reset", state |-> LedState]
          /\ UNCHANGED LedUpdatedEvent
       \/ /\ led.pc = "reset"
          /\ led' = [led EXCEPT !.pc = "show"]
          /\ LedUpdatedEvent' = "reset"
    /\ UNCHANGED <<gamepad, LedState, Stopping, event, shown>>

\* Under the shared lock.
LoadLed ==
    /\ led.pc = "load"
    /\ led' = [pc |-> "show", state |-> LedState]
    /\ LedUpdatedEvent' = "reset"
    /\ UNCHANGED <<gamepad, LedState, Stopping, event, shown>>

\* The light is on, steadily or for BlinkOn.
ShowLed ==
    /\ led.pc = "show"
    /\ shown' = led.state.color
    /\ led' = [led EXCEPT !.pc = IF led.state.blink = "blink" THEN "on" ELSE "check"]
    /\ UNCHANGED <<gamepad, LedState, LedUpdatedEvent, Stopping, event>>

\* Mutant: the thread blinks on although it is to stop.
BlinkForever ==
    /\ led.pc \in {"on", "off"}
    /\ shown' = IF led.pc = "on" THEN Off ELSE led.state.color
    /\ led' = [led EXCEPT !.pc = IF led.pc = "on" THEN "off" ELSE "on"]
    /\ UNCHANGED <<gamepad, LedState, LedUpdatedEvent, Stopping, event>>

\* The blink time ends and the light goes off or on, unless the thread is to
\* stop.
Blink ==
    /\ led.pc \in {"on", "off"}
    /\ IF Stopping
       THEN /\ led' = [led EXCEPT !.pc = "check"]
            /\ UNCHANGED shown
       ELSE /\ shown' = IF led.pc = "on" THEN Off ELSE led.state.color
            /\ led' = [led EXCEPT !.pc = IF led.pc = "on" THEN "off" ELSE "on"]
    /\ UNCHANGED <<gamepad, LedState, LedUpdatedEvent, Stopping, event>>

\* The event ends the wait before the time does.
BlinkInterrupted ==
    /\ led.pc \in {"on", "off"}
    /\ LedUpdatedEvent = "signalled"
    /\ led' = [led EXCEPT !.pc = "check"]
    /\ UNCHANGED <<gamepad, LedState, LedUpdatedEvent, Stopping, event, shown>>

-----------------------------------------------------------------------------
(* WinUHidPS4Destroy                                                       *)

StopLedThread ==
    /\ owner = "stopping"
    /\ ~Stopping
    /\ Stopping' = TRUE
    /\ LedUpdatedEvent' = IF led.pc = "none" THEN "reset" ELSE "signalled"
    /\ UNCHANGED <<gamepad, LedState, event, led, shown>>

\* The thread is joined and the event closed; then comes the device.
JoinLedThread ==
    /\ owner = "stopping"
    /\ Stopping
    /\ led.pc \in {"none", "exited"}
    /\ owner' = "destroyDevice"
    /\ LedUpdatedEvent' = "closed"
    /\ UNCHANGED <<started, input, eventThread, answer, LedState, Stopping,
                   event, led, shown>>

PS4Next ==
    \/ GamepadNext /\ UNCHANGED ps4
    \/ HandleFeature
    \/ RefuseOutput
    \/ \E report \in LedReports : HandleOutput(report)
    \/ StoreLed
    \/ SignalLed
    \/ CompleteOutput
    \/ CheckStopping
    \/ WaitForLed
    \/ LoadLed
    \/ ShowLed
    \/ Blink
    \/ BlinkInterrupted
    \/ StopLedThread
    \/ JoinLedThread

LedThread == \/ CheckStopping \/ WaitForLed \/ LoadLed \/ ShowLed \/ Blink
             \/ BlinkInterrupted

EventThread == StoreLed \/ SignalLed \/ CompleteOutput

PS4Owner == StopLedThread \/ JoinLedThread

=============================================================================
