---------------------------- MODULE WinUHidDevice ----------------------------
(***************************************************************************)
(* The object of a throttled device in the SDK (WinUHid/WinUHid.cpp):      *)
(* start, poll, the event thread, the read thread that delays "ready for   *)
(* next read report" events, submitting an input report, stop and destroy. *)
(*                                                                         *)
(* A device is used in callback mode, where EventThreadProc polls and      *)
(* ReadThreadProc hands "ready for next read report" events to the         *)
(* callback at the throttled rate, or in poll mode, where threads of the   *)
(* caller sit in WinUHidPollEvent.  Device->Lock is held over short        *)
(* stretches only, and each of them is one action here; between two        *)
(* actions every other thread may run.  The driver is reduced to what it   *)
(* does for a poll: it holds events in order and gives the first one to a  *)
(* pended poll (WinUHidDriver has the detail).                             *)
(***************************************************************************)
EXTENDS Naturals, Sequences, FiniteSets

CONSTANTS
    Pollers,        \* user threads in WinUHidPollEvent (poll mode)
    EventThreadProc,\* the event thread; it polls too (callback mode)
    Submitters,     \* user threads in WinUHidSubmitInputReport
    Outputs,        \* write and get events VHF may produce, once each
    BigOutputs,     \* those that need a buffer larger than the initial hint
    Ready,          \* the ready-for-next-read-report event
    AllocMayFail,   \* TRUE iff a poll may fail for want of memory
    SubmitAnyTime,  \* TRUE iff reports may be submitted while or after the
                    \* device is being stopped
    NULL

Threads == Pollers \cup {EventThreadProc}
Events  == Outputs \cup {Ready}

ASSUME DeviceAssumption ==
    /\ BigOutputs \subseteq Outputs
    /\ EventThreadProc \notin Pollers
    /\ Ready \notin Outputs
    /\ AllocMayFail \in BOOLEAN
    /\ SubmitAnyTime \in BOOLEAN
    /\ NULL \notin Events

VARIABLES
    State,                  \* "Created", "Started" or "Stopped"
    EventCallback,          \* TRUE iff the device was started with a callback
    EventBufferSizeHint,    \* in units of the initial hint
    PendingReadReportEvent, \* the event held for the throttling period
    ReadReportReadyEvent,   \* the auto-reset event: TRUE iff signalled
    ThrottlingTimer,        \* the timer: "unset", "armed" or "signalled"
    owner,   \* where the thread that starts, stops and destroys the device is
    poll,    \* poll[t]: the WinUHidPollEvent call of thread t
    read,    \* the read thread
    submit,  \* submit[s]: the WinUHidSubmitInputReport call of thread s
    driver,  \* events the driver has ready, oldest first
    output,  \* output[e]: VHF's view of it, "fresh", "pending" or "done"
    wanted,  \* VHF waits for an input report
    user     \* events the caller has been given and must complete

device == <<State, EventCallback, EventBufferSizeHint>>
throttle == <<PendingReadReportEvent, ReadReportReadyEvent, ThrottlingTimer>>
world == <<driver, output, wanted, user>>
vars == <<device, throttle, owner, poll, read, submit, world>>

NoPoll == [pc |-> "out", size |-> 1, event |-> NULL]

Init ==
    /\ State = "Created"
    /\ EventCallback = FALSE
    /\ EventBufferSizeHint = 1
    /\ PendingReadReportEvent = NULL
    /\ ReadReportReadyEvent = FALSE
    /\ ThrottlingTimer = "unset"
    /\ owner = "created"
    /\ poll = [t \in Threads |-> NoPoll]
    /\ read = [pc |-> "none", event |-> NULL]
    /\ submit = [s \in Submitters |-> [pc |-> "out", event |-> NULL]]
    /\ driver = <<>>
    /\ output = [e \in Outputs |-> "fresh"]
    /\ wanted = FALSE
    /\ user = {}

-----------------------------------------------------------------------------
(* VHF, the driver and the user of the device                              *)

\* VHF produces an event: an output, or the wish for one more input report.
VhfEvent ==
    /\ State # "Created"
    /\ owner # "gone"
    /\ \/ \E e \in Outputs :
             /\ output[e] = "fresh"
             /\ output' = [output EXCEPT ![e] = "pending"]
             /\ driver' = Append(driver, e)
             /\ UNCHANGED wanted
       \/ /\ ~wanted
          /\ wanted' = TRUE
          /\ driver' = Append(driver, Ready)
          /\ UNCHANGED output
    /\ UNCHANGED <<device, throttle, owner, poll, read, submit, user>>

\* WinUHidCompleteWriteEvent and WinUHidCompleteReadEvent, with what the driver
\* does: an input report satisfies VHF, and a ready-for-read event completed
\* without data comes back as a new one.
CompleteEvent(e, withData) ==
    IF e # Ready
    THEN /\ output' = [output EXCEPT ![e] = "done"]
         /\ UNCHANGED <<driver, wanted>>
    ELSE /\ wanted' = (wanted /\ ~withData)
         /\ driver' = IF withData THEN driver ELSE Append(driver, Ready)
         /\ UNCHANGED output

\* The caller completes an event it was given, in its callback or later.
UserCompletes ==
    /\ owner # "gone"
    /\ \E e \in user, withData \in BOOLEAN :
          /\ user' = user \ {e}
          /\ CompleteEvent(e, withData)
    /\ UNCHANGED <<device, throttle, owner, poll, read, submit>>

-----------------------------------------------------------------------------
(* WinUHidPollEvent                                                        *)

Need(e) == IF e \in BigOutputs THEN 2 ELSE 1

PollGoto(t, label) == poll' = [poll EXCEPT ![t].pc = label]

\* Under the shared lock: take the size hint, check that the device runs and
\* issue IOCTL_WINUHID_GET_NEXT_EVENT.
PollEvent(t) ==
    /\ poll[t].pc = "enter"
    /\ poll' = [poll EXCEPT ![t] =
                   [pc |-> IF State = "Started" THEN "wait" ELSE "fail",
                    size |-> EventBufferSizeHint, event |-> NULL]]
    /\ UNCHANGED <<device, throttle, owner, read, submit, world>>

\* Mutant: the loop does not look at State again.
RetryPollUnchecked(t) ==
    /\ poll[t].pc = "again"
    /\ PollGoto(t, "wait")
    /\ UNCHANGED <<device, throttle, owner, read, submit, world>>

\* The same, for another try with a larger buffer.
RetryPoll(t) ==
    /\ poll[t].pc = "again"
    /\ PollGoto(t, IF State = "Started" THEN "wait" ELSE "fail")
    /\ UNCHANGED <<device, throttle, owner, read, submit, world>>

\* The driver completes a pended poll with an event that fits its buffer, or
\* fails it with ERROR_INSUFFICIENT_BUFFER and keeps the event.  A poll that is
\* being cancelled is pended until the cancellation gets through; one that
\* timed out reports every failure as ERROR_TIMEOUT.
DriverCompletesPoll(t) ==
    LET e == Head(driver) IN
    /\ poll[t].pc \in {"wait", "timeout", "interrupted"}
    /\ driver # <<>>
    /\ \/ /\ Need(e) <= poll[t].size
          /\ driver' = Tail(driver)
          /\ poll' = [poll EXCEPT ![t].pc = "return", ![t].event = e]
       \/ /\ Need(e) > poll[t].size
          /\ PollGoto(t, IF poll[t].pc = "timeout" THEN "fail" ELSE "grow")
          /\ UNCHANGED driver
    /\ UNCHANGED <<device, throttle, owner, read, submit, output, wanted,
                   user>>

\* The caller's timeout expires and CancelIoEx is called; the event thread
\* polls with INFINITE.
PollTimesOut(t) ==
    /\ t \in Pollers
    /\ poll[t].pc \in {"wait", "interrupted"}
    /\ PollGoto(t, "timeout")
    /\ UNCHANGED <<device, throttle, owner, read, submit, world>>

\* A cancellation, by the timeout or by WinUHidStopDevice, won against the
\* driver.
PollCancelled(t) ==
    /\ poll[t].pc \in {"timeout", "interrupted"}
    /\ PollGoto(t, "fail")
    /\ UNCHANGED <<device, throttle, owner, read, submit, world>>

\* There is no memory for the buffer, or the driver fails the poll.
PollFails(t) ==
    /\ AllocMayFail
    /\ poll[t].pc \in {"enter", "wait", "again"}
    /\ PollGoto(t, "fail")
    /\ UNCHANGED <<device, throttle, owner, read, submit, world>>

\* Mutant: every thread raises the hint, also one whose buffer was smaller.
GrowBufferAgain(t) ==
    /\ poll[t].pc = "grow"
    /\ EventBufferSizeHint' = 2 * EventBufferSizeHint
    /\ poll' = [poll EXCEPT ![t].pc = "again", ![t].size = EventBufferSizeHint']
    /\ UNCHANGED <<State, EventCallback, throttle, owner, read, submit, world>>

\* Mutant: the hint is raised, this call goes on with its old size.
GrowBufferHintOnly(t) ==
    /\ poll[t].pc = "grow"
    /\ EventBufferSizeHint' = 2
    /\ PollGoto(t, "again")
    /\ UNCHANGED <<State, EventCallback, throttle, owner, read, submit, world>>

\* Under the exclusive lock: double the buffer, or adopt a hint that another
\* thread has already raised further.
GrowBuffer(t) ==
    LET size == 2 * poll[t].size IN
    /\ poll[t].pc = "grow"
    /\ IF EventBufferSizeHint < size
       THEN /\ EventBufferSizeHint' = size
            /\ poll' = [poll EXCEPT ![t].pc = "again", ![t].size = size]
       ELSE /\ poll' = [poll EXCEPT ![t].pc = "again",
                                    ![t].size = EventBufferSizeHint]
            /\ UNCHANGED EventBufferSizeHint
    /\ UNCHANGED <<State, EventCallback, throttle, owner, read, submit, world>>

\* Poll mode: a thread of the caller starts to poll; it may be told of the
\* event it got, or of nothing.
UserPolls(t) ==
    /\ t \in Pollers
    /\ ~EventCallback
    /\ owner # "gone"
    /\ poll[t].pc = "out"
    /\ PollGoto(t, "enter")
    /\ UNCHANGED <<device, throttle, owner, read, submit, world>>

UserPollReturns(t) ==
    /\ t \in Pollers
    /\ poll[t].pc \in {"return", "fail"}
    /\ user' = user \cup ({poll[t].event} \ {NULL})
    /\ poll' = [poll EXCEPT ![t] = NoPoll]
    /\ UNCHANGED <<device, throttle, owner, read, submit, driver, output,
                   wanted>>

-----------------------------------------------------------------------------
(* EventThreadProc                                                         *)

\* Mutant: SetEvent is forgotten.
HandleEventNoSignal ==
    LET e == poll[EventThreadProc].event IN
    /\ poll[EventThreadProc].pc = "return"
    /\ PendingReadReportEvent' = IF e = Ready THEN e ELSE PendingReadReportEvent
    /\ user' = user \cup ({e} \ {Ready})
    /\ poll' = [poll EXCEPT ![EventThreadProc] =
                   [pc |-> "enter", size |-> 1, event |-> NULL]]
    /\ UNCHANGED <<device, ReadReportReadyEvent, ThrottlingTimer, owner, read,
                   submit, driver, output, wanted>>

\* A ready-for-read event goes to the slot of the read thread, whatever the
\* slot held; any other event goes to the callback.
HandleEvent ==
    LET e == poll[EventThreadProc].event IN
    /\ poll[EventThreadProc].pc = "return"
    /\ IF e = Ready
       THEN /\ PendingReadReportEvent' = e
            /\ poll' = [poll EXCEPT ![EventThreadProc] =
                           [pc |-> "signal", size |-> 1, event |-> NULL]]
            /\ UNCHANGED user
       ELSE /\ user' = user \cup {e}
            /\ poll' = [poll EXCEPT ![EventThreadProc] =
                           [pc |-> "enter", size |-> 1, event |-> NULL]]
            /\ UNCHANGED PendingReadReportEvent
    /\ UNCHANGED <<device, ReadReportReadyEvent, ThrottlingTimer, owner, read,
                   submit, driver, output, wanted>>

ReadGoto(label) == read' = [pc |-> label, event |-> NULL]

\* SetEvent(ReadReportReadyEvent): an auto-reset event releases the thread that
\* is blocked on it, and only becomes signalled when there is none.
SetReadReportReadyEvent ==
    \/ /\ read.pc = "blocked"
       /\ ReadGoto("woken")
       /\ UNCHANGED ReadReportReadyEvent
    \/ /\ read.pc # "blocked"
       /\ ReadReportReadyEvent' = TRUE
       /\ UNCHANGED read

\* The event thread sets the event, then enters its next poll.
SignalReadThread ==
    /\ poll[EventThreadProc].pc = "signal"
    /\ SetReadReportReadyEvent
    /\ PollGoto(EventThreadProc, "enter")
    /\ UNCHANGED <<device, PendingReadReportEvent, ThrottlingTimer, owner,
                   submit, world>>

\* A failed poll ends the thread.
EventThreadExits ==
    /\ poll[EventThreadProc].pc = "fail"
    /\ PollGoto(EventThreadProc, "exited")
    /\ UNCHANGED <<device, throttle, owner, read, submit, world>>

-----------------------------------------------------------------------------
(* ReadThreadProc                                                          *)

\* The loop condition, under the shared lock.
ReadThreadChecks ==
    /\ read.pc = "check"
    /\ ReadGoto(IF State = "Started" THEN "wait" ELSE "exited")
    /\ UNCHANGED <<device, throttle, owner, poll, submit, world>>

\* WaitForSingleObject(ReadReportReadyEvent, INFINITE) consumes the signal, or
\* blocks until SetEvent.
ReadThreadWaits ==
    /\ read.pc = "wait"
    /\ ReadReportReadyEvent' = FALSE
    /\ ReadGoto(IF ReadReportReadyEvent THEN "woken" ELSE "blocked")
    /\ UNCHANGED <<device, PendingReadReportEvent, ThrottlingTimer, owner,
                   poll, submit, world>>

\* Under the shared lock: leave if the device was stopped, else take the
\* pending event (and wait again if there is none).
ReadThreadTakesEvent ==
    /\ read.pc = "woken"
    /\ IF State # "Started"
       THEN ReadGoto("exited") /\ UNCHANGED PendingReadReportEvent
       ELSE /\ read' = IF PendingReadReportEvent = NULL
                       THEN [pc |-> "wait", event |-> NULL]
                       ELSE [pc |-> "callback",
                             event |-> PendingReadReportEvent]
            /\ PendingReadReportEvent' = NULL
    /\ UNCHANGED <<device, ReadReportReadyEvent, ThrottlingTimer, owner, poll,
                   submit, world>>

\* EventCallback gets the event; the caller completes it now or later.
ReadThreadCallsBack ==
    /\ read.pc = "callback"
    /\ user' = user \cup {read.event}
    /\ ReadGoto("arm")
    /\ UNCHANGED <<device, throttle, owner, poll, submit, driver, output,
                   wanted>>

\* SetWaitableTimer(ThrottlingPeriod) resets the timer and starts it.
ReadThreadArmsTimer ==
    /\ read.pc = "arm"
    /\ ThrottlingTimer' = "armed"
    /\ ReadGoto("delay")
    /\ UNCHANGED <<device, PendingReadReportEvent, ReadReportReadyEvent,
                   owner, poll, submit, world>>

ReadThreadDelayEnds ==
    /\ read.pc = "delay"
    /\ ThrottlingTimer = "signalled"
    /\ ReadGoto("check")
    /\ UNCHANGED <<device, throttle, owner, poll, submit, world>>

TimerExpires ==
    /\ ThrottlingTimer = "armed"
    /\ ThrottlingTimer' = "signalled"
    /\ UNCHANGED <<device, PendingReadReportEvent, ReadReportReadyEvent,
                   owner, poll, read, submit, world>>

-----------------------------------------------------------------------------
(* WinUHidSubmitInputReport on a throttled device                          *)

SubmitGoto(s, label, e) ==
    submit' = [submit EXCEPT ![s] = [pc |-> label, event |-> e]]

\* Mutant: a manual-reset event.
SubmitInputReportManualReset(s) ==
    /\ submit[s].pc = "out"
    /\ owner # "gone"
    /\ SubmitAnyTime \/ owner = "run"
    /\ ReadReportReadyEvent
    /\ SubmitGoto(s, "take", NULL)
    /\ UNCHANGED <<device, throttle, owner, poll, read, world>>

\* WaitForSingleObject(ReadReportReadyEvent, 0): the winner owns the pending
\* event; everybody else gets ERROR_NOT_READY and changes nothing.
SubmitInputReport(s) ==
    /\ submit[s].pc = "out"
    /\ owner # "gone"
    /\ SubmitAnyTime \/ owner = "run"
    /\ ReadReportReadyEvent
    /\ ReadReportReadyEvent' = FALSE
    /\ SubmitGoto(s, "take", NULL)
    /\ UNCHANGED <<device, PendingReadReportEvent, ThrottlingTimer, owner,
                   poll, read, world>>

\* Mutant: the slot is read and not cleared.
SubmitTakesEventLeavesIt(s) ==
    /\ submit[s].pc = "take"
    /\ IF PendingReadReportEvent = NULL
       THEN SubmitGoto(s, "out", NULL)
       ELSE SubmitGoto(s, "complete", PendingReadReportEvent)
    /\ UNCHANGED <<device, throttle, owner, poll, read, world>>

\* InterlockedExchangePointer(PendingReadReportEvent, NULL).
SubmitTakesEvent(s) ==
    /\ submit[s].pc = "take"
    /\ IF PendingReadReportEvent = NULL
       THEN SubmitGoto(s, "out", NULL)
       ELSE SubmitGoto(s, "complete", PendingReadReportEvent)
    /\ PendingReadReportEvent' = NULL
    /\ UNCHANGED <<device, ReadReportReadyEvent, ThrottlingTimer, owner, poll,
                   read, world>>

\* WinUHidCompleteReadEvent with the report, or with STATUS_NO_MEMORY.
SubmitCompletesEvent(s) ==
    /\ submit[s].pc = "complete"
    /\ \E withData \in {TRUE, ~AllocMayFail} :
          CompleteEvent(submit[s].event, withData)
    /\ SubmitGoto(s, "rearm", NULL)
    /\ UNCHANGED <<device, throttle, owner, poll, read, user>>

SubmitRearmsTimer(s) ==
    /\ submit[s].pc = "rearm"
    /\ ThrottlingTimer' = "armed"
    /\ SubmitGoto(s, "out", NULL)
    /\ UNCHANGED <<device, PendingReadReportEvent, ReadReportReadyEvent,
                   owner, poll, read, world>>

-----------------------------------------------------------------------------
(* WinUHidStartDevice, WinUHidStopDevice, WinUHidDestroyDevice             *)

\* The event thread is created for a device that is started with a callback.
CreateEventThread ==
    /\ EventCallback' \in BOOLEAN
    /\ IF EventCallback' THEN PollGoto(EventThreadProc, "enter")
       ELSE UNCHANGED poll

\* Start holds the lock exclusively from the creation of the threads to the
\* change of State, so the threads see the device started.
StartDevice ==
    /\ owner = "created"
    /\ CreateEventThread
    /\ ReadGoto("check")
    /\ State' = "Started"
    /\ owner' = "run"
    /\ UNCHANGED <<EventBufferSizeHint, throttle, submit, world>>

\* Start fails to create the read thread, or after it created both: the threads
\* find the device not started and exit, and Start waits for them.
StartDeviceFails ==
    /\ owner = "created"
    /\ CreateEventThread
    /\ ReadGoto("none") \/ ReadGoto("check")
    /\ owner' = "joinFailedStart"
    /\ UNCHANGED <<State, EventBufferSizeHint, throttle, submit, world>>

StartDeviceUnwinds ==
    /\ owner = "joinFailedStart"
    /\ poll[EventThreadProc].pc \in {"out", "exited"}
    /\ read.pc \in {"none", "exited"}
    /\ owner' = "created"
    /\ poll' = [poll EXCEPT ![EventThreadProc] = NoPoll]
    /\ ReadGoto("none")
    /\ UNCHANGED <<device, throttle, submit, world>>

\* Under the exclusive lock: no poll is issued from here on, and CancelIoEx
\* begins to cancel those that are pended.
StopDevice ==
    /\ owner = "run"
    /\ SubmitAnyTime \/ \A s \in Submitters : submit[s].pc = "out"
    /\ State' = "Stopped"
    /\ poll' = [t \in Threads |->
                   IF poll[t].pc # "wait" THEN poll[t]
                   ELSE [poll[t] EXCEPT !.pc = "interrupted"]]
    /\ owner' = "joinEventThread"
    /\ UNCHANGED <<EventCallback, EventBufferSizeHint, throttle, read, submit,
                   world>>

StopJoinsEventThread ==
    /\ owner = "joinEventThread"
    /\ poll[EventThreadProc].pc \in {"out", "exited"}
    /\ poll' = [poll EXCEPT ![EventThreadProc] = NoPoll]
    /\ owner' = "signalEvent"
    /\ UNCHANGED <<device, throttle, read, submit, world>>

\* Mutant: only the timer is signalled.
StopSignalsEventNot ==
    /\ owner = "signalEvent"
    /\ owner' = "signalTimer"
    /\ UNCHANGED <<device, throttle, poll, read, submit, world>>

\* "Signal both the event and the throttling timer.  The thread could be
\* waiting on either."
StopSignalsEvent ==
    /\ owner = "signalEvent"
    /\ SetReadReportReadyEvent
    /\ owner' = "signalTimer"
    /\ UNCHANGED <<device, PendingReadReportEvent, ThrottlingTimer, poll,
                   submit, world>>

StopSignalsTimer ==
    /\ owner = "signalTimer"
    /\ ThrottlingTimer' = "signalled"
    /\ owner' = "joinReadThread"
    /\ UNCHANGED <<device, PendingReadReportEvent, ReadReportReadyEvent, poll,
                   read, submit, world>>

\* Mutant: the wait for the read thread times out.
StopJoinsReadThreadTimesOut ==
    /\ owner = "joinReadThread"
    /\ owner' = "stopped"
    /\ UNCHANGED <<device, throttle, poll, read, submit, world>>

StopJoinsReadThread ==
    /\ owner = "joinReadThread"
    /\ read.pc = "exited"
    /\ ReadGoto("none")
    /\ owner' = "stopped"
    /\ UNCHANGED <<device, throttle, poll, submit, world>>

\* The caller destroys the device when no other thread uses it and it has
\* completed the events it was given.  A pending event is failed.
DestroyDevice ==
    /\ owner \in {"created", "stopped"}
    /\ user = {}
    /\ \A t \in Pollers : poll[t].pc = "out"
    /\ \A s \in Submitters : submit[s].pc = "out"
    /\ IF PendingReadReportEvent # NULL
       THEN CompleteEvent(PendingReadReportEvent, FALSE)
       ELSE UNCHANGED <<driver, output, wanted>>
    /\ PendingReadReportEvent' = NULL
    /\ owner' = "gone"
    /\ UNCHANGED <<device, ReadReportReadyEvent, ThrottlingTimer, poll, read,
                   submit, user>>

\* Nothing happens to a destroyed device.
Destroyed == owner = "gone" /\ UNCHANGED vars

-----------------------------------------------------------------------------

\* The steps of a thread inside WinUHidPollEvent, up to its result.
PollStep(t) ==
    \/ PollEvent(t)
    \/ RetryPoll(t)
    \/ GrowBuffer(t)
    \/ PollCancelled(t)

EventThreadStep == HandleEvent \/ SignalReadThread \/ EventThreadExits

ReadThreadStep ==
    \/ ReadThreadChecks
    \/ ReadThreadWaits
    \/ ReadThreadTakesEvent
    \/ ReadThreadCallsBack
    \/ ReadThreadArmsTimer
    \/ ReadThreadDelayEnds

SubmitStep(s) ==
    \/ SubmitTakesEvent(s)
    \/ SubmitCompletesEvent(s)
    \/ SubmitRearmsTimer(s)

StopStep ==
    \/ StopJoinsEventThread
    \/ StopSignalsEvent
    \/ StopSignalsTimer
    \/ StopJoinsReadThread

Next ==
    \/ VhfEvent
    \/ UserCompletes
    \/ \E t \in Threads : \/ PollStep(t)
                         \/ DriverCompletesPoll(t)
                         \/ PollTimesOut(t)
                         \/ PollFails(t)
    \/ \E t \in Pollers : UserPolls(t) \/ UserPollReturns(t)
    \/ EventThreadStep
    \/ ReadThreadStep
    \/ TimerExpires
    \/ \E s \in Submitters : SubmitInputReport(s) \/ SubmitStep(s)
    \/ StartDevice
    \/ StartDeviceFails
    \/ StartDeviceUnwinds
    \/ StopDevice
    \/ StopStep
    \/ DestroyDevice
    \/ Destroyed

\* Every thread inside the SDK runs on, a running timer expires, a cancellation
\* gets through, and a callback returns.  Nothing is assumed of when the caller
\* polls, submits, completes, stops or destroys, of when VHF has an event, or
\* that the driver ever serves a poll: it may leave one pended next to an event
\* (PollPendsOnlyUntilReady of WinUHidDriver).
Fairness ==
    /\ \A t \in Threads : WF_vars(PollStep(t))
    /\ \A t \in Pollers : WF_vars(UserPollReturns(t))
    /\ WF_vars(EventThreadStep)
    /\ WF_vars(ReadThreadStep)
    /\ WF_vars(TimerExpires)
    /\ \A s \in Submitters : WF_vars(SubmitStep(s))
    /\ WF_vars(StartDeviceUnwinds)
    /\ WF_vars(StopStep)

Spec == Init /\ [][Next]_vars /\ Fairness

-----------------------------------------------------------------------------
(* Properties                                                              *)

PollState ==
    [pc : {"out", "enter", "wait", "timeout", "interrupted", "grow", "again",
           "return", "fail", "signal", "exited"},
     size : {1, 2}, event : Events \cup {NULL}]

\* Every variable has its type.
TypeOK ==
    /\ State \in {"Created", "Started", "Stopped"}
    /\ EventCallback \in BOOLEAN
    /\ EventBufferSizeHint \in {1, 2}
    /\ PendingReadReportEvent \in {Ready, NULL}
    /\ ReadReportReadyEvent \in BOOLEAN
    /\ ThrottlingTimer \in {"unset", "armed", "signalled"}
    /\ owner \in {"created", "joinFailedStart", "run", "joinEventThread",
                  "signalEvent", "signalTimer", "joinReadThread", "stopped",
                  "gone"}
    /\ poll \in [Threads -> PollState]
    /\ read \in [pc : {"none", "check", "wait", "blocked", "woken",
                       "callback", "arm", "delay", "exited"},
                 event : {Ready, NULL}]
    /\ submit \in [Submitters -> [pc : {"out", "take", "complete", "rearm"},
                                  event : {Ready, NULL}]]
    /\ driver \in Seq(Events)
    /\ output \in [Outputs -> {"fresh", "pending", "done"}]
    /\ wanted \in BOOLEAN
    /\ user \subseteq Events

\* Whoever holds the event e.
Holders(e) ==
    {<<"driver", i>> : i \in {k \in DOMAIN driver : driver[k] = e}}
        \cup {<<"poll", t>> : t \in {x \in Threads : poll[x].event = e}}
        \cup {<<"submit", s>> : s \in {x \in Submitters : submit[x].event = e}}
        \cup {h \in {<<"slot", NULL>>} : PendingReadReportEvent = e}
        \cup {h \in {<<"read", NULL>>} : read.event = e}
        \cup {h \in {<<"user", NULL>>} : e \in user}

Unanswered(e) == IF e = Ready THEN wanted ELSE output[e] = "pending"

\* An event that VHF waits on is in exactly one pair of hands, among the
\* driver, the polls, the throttling slot, the read thread, the submitters and
\* the caller; one that it does not wait on is in none.  In no hands it is
\* leaked and the HID client hangs; in two it is completed and freed twice.
EventInOneHand ==
    \A e \in Events :
        Cardinality(Holders(e)) = IF Unanswered(e) THEN 1 ELSE 0

\* While the device runs, a pending event always has a signal that will lead
\* somebody to it, or a thread between the signal and the slot.
PendingEventIsSignalled ==
    State = "Started" /\ PendingReadReportEvent # NULL =>
        \/ ReadReportReadyEvent
        \/ poll[EventThreadProc].pc = "signal"
        \/ read.pc = "woken"
        \/ \E s \in Submitters : submit[s].pc = "take"

\* "This should never happen" (WinUHid.cpp:327): the read thread of a running
\* device that consumed the signal finds the pending event.
ReadThreadFindsEvent ==
    State = "Started" /\ read.pc = "woken" => PendingReadReportEvent # NULL

\* "This should be impossible" (WinUHid.cpp:255): the caller that consumed the
\* signal in WinUHidSubmitInputReport finds the pending event.
SubmitFindsEvent ==
    \A s \in Submitters :
        submit[s].pc = "take" => PendingReadReportEvent # NULL

\* No thread of the SDK runs on a device that has been freed.
DestroyedDeviceUnused ==
    owner = "gone" =>
        read.pc = "none" /\ \A t \in Threads : poll[t].pc = "out"

\* A failed start and a stop return: the threads they wait for are woken and
\* see the state that makes them exit.
StopDeviceReturns ==
    owner \in {"joinFailedStart", "joinEventThread"} ~>
        owner \in {"created", "stopped"}

\* A stop "interrupts any pending poll calls" (WinUHid.h:235): every poll that
\* was pended or looping when the device was stopped returns.
StopInterruptsPolls ==
    \A t \in Pollers :
        (State = "Stopped" /\ poll[t].pc # "out") ~> (poll[t].pc = "out")

\* In callback mode an event that the driver gave to a poll comes to the caller
\* while the device runs, through the slot and the throttling too, except that
\* a submitted report may answer a ready-for-read event on the way.
EventsReachCallback ==
    \A e \in Events :
        (owner = "run" /\ EventCallback /\ Unanswered(e)
            /\ \A i \in DOMAIN driver : driver[i] # e)
        ~> (owner # "run" \/ e \in user \/ ~Unanswered(e))

\* No thread polls for ever with a buffer that is too small: whichever thread
\* raises the hint, the others' next tries have room, and the driver refuses
\* each thread for its buffer finitely often.
PollsOutgrowEvents ==
    \A t \in Threads : <>[](poll[t].pc # "grow")

=============================================================================
