# WinUHid in TLA+

WinUHid creates virtual HID devices on Windows. A UMDF driver registers a
device with Microsoft's Virtual HID Framework (VHF) for each file object a
process opens; an SDK library (`WinUHid.dll`) talks to the driver and runs the
threads of a device; presets (`WinUHidDevs.dll`) turn a device into a mouse, a
PS4, PS5 or Xbox One gamepad; a web server offers all of it over HTTP. The code
is concurrent in each layer: VHF calls the driver on its own threads, the
driver's default queue is parallel, the SDK runs an event thread and a read
thread beside the caller's threads, and the presets add threads of their own.

This directory models the layers whose interleavings decide whether HID
operations get their answer, model-checks them with TLC and proves their
invariants, and the steps of the refinement, with TLAPS.

## The system

| component | state | operations | interacts with | hard parts |
|---|---|---|---|---|
| driver: operation queue (`WinUHid Driver/WinUHid.c`) | waiting and outstanding collections, `NextRequestId`, `VhfHandle`, the manual queue of pended polls | VHF's callbacks, `GET_NEXT_EVENT`, `COMPLETE_READ_EVENT`, `COMPLETE_WRITE_EVENT`, `WriteFile`, close | VHF (callbacks, completions), the SDK (IOCTLs) | parallel handlers under one short lock, cancellation, close against callbacks in flight, allocation failure |
| driver: device setup | `VHF_CONFIG`, hardware and instance ids, report sizes | `SET_*`, `CREATE_DEVICE`, `START_DEVICE` | the SDK | handlers check and change the file context without a lock |
| driver: report descriptor parser | a stack of global items, report sizes | `ParseReportDescriptor` | the setup, the queue (clamps lengths) | 32-bit sums, rounding, failing half way |
| SDK: device (`WinUHid/WinUHid.cpp`) | `State`, the buffer hint, the pending ready-for-read event, an auto-reset event, a timer, two threads | start, poll, complete, submit, stop, destroy | the driver, the caller's callback | who consumes a signal, stop against everything, retries |
| mouse preset | buttons, wheel accumulators, resolution | motion, button, scroll; the resolution feature | the SDK | signed movement in an unsigned byte, resolution changes |
| Xbox One preset | the latest force feedback report, a manual-reset event, the rumble thread | the output report callback, create, destroy | the SDK's event thread, the user's callback | effects that interrupt each other, destruction |
| PS4 and PS5 presets | last input report, last output state, the PS4 LED thread | report input, read and write events, destroy | the SDK, the user's callbacks | the report used after its lock is released, destruction |
| web manager and server (`web/src`) | map of devices, input cache, broadcast channel | create, submit, destroy, WebSocket feed | SDK and presets through FFI | clones of a device in use when it is destroyed, cache against submit |
| page, installer, scripts, bindings | - | - | - | nothing concurrent or stateful of their own |

What makes them correct: an operation a HID client started gets exactly one
answer, from the event that was made of it; the ready-for-next-read request
keeps circulating; closing, stopping and destroying return and leave no thread
on freed state; and what presets tell the HID client is what the caller said.

## Modules

| module | what it is |
|---|---|
| `HidOperations` | abstract: what the driver promises about HID operations |
| `WinUHidDriver` | the driver's operation queue, one file object |
| `WinUHidDriver_proofs` | TLAPS: types and the ownership invariant of the driver |
| `WinUHidDriverPromise_proofs` | TLAPS: answers and their events, the ready-for-read request, and the steps of the refinement of `HidOperations` |
| `WinUHidDevice` | a throttled device of the SDK and all its threads |
| `WinUHidDevice_proofs` | TLAPS: all of its invariants |
| `WinUHidXOne` | force feedback of the Xbox One preset |
| `WinUHidXOne_proofs` | TLAPS: all of its invariants |
| `WinUHidMouse` | the mouse preset |
| `WinUHidMouse_proofs` | TLAPS: types, buttons, and forward wheels |
| `ReportDescriptor` | the driver's report descriptor parser |
| `WinUHidSetup` | the setup of a file object, from the SDK or a client of its own; extends `ReportDescriptor` |
| `WinUHidSetup_proofs` | TLAPS: types, what a device is created from, and the report sizes |
| `WinUHidGamepad` | the life and the input reports of the PS4 and PS5 presets |
| `WinUHidPS4`, `WinUHidPS5` | the output reports of each; both extend `WinUHidGamepad` |
| `WinUHidPlayStation` | composes them: one gamepad, of either preset |
| `WinUHidPlayStation_proofs` | TLAPS: outputs, the light and the order of input |
| `WebManager` | the web server's devices, requests, callbacks, feeds and shutdown |
| `WebManager_proofs` | TLAPS: who destroys a device, and what is seen of the input |
| `MC*` | constants for TLC |

In each module the definitions named `...` plus a description of a bug (for
instance `QueueOperationUnchecked`, introduced by a comment "Mutant:") are
plausible wrong versions of the action that follows them. They are not part of
any specification; each property is known to fail when one of them takes the
place of the action.

### WinUHidDriver and HidOperations

The variables keep the names of `FILE_CONTEXT`. A handler is split where
another thread can see or change what it shares: `DispatchAsyncOperation`, for
example, is *create the operation object and its id* (`CreateRealOperation`,
`CreatePseudoOperation`, `CreateOperationFails`), *queue it under
`RequestLock`* (`QueueOperation`), *take a poll out of the manual queue*
(`RetrievePendedPoll`), *serve it* (`ServePendedPoll`, which is
`TryCompleteGetNextEvent`) and *put it back* (`RequeuePoll`). `GET_NEXT_EVENT`
is *try* and *forward*; `COMPLETE_*_EVENT` is *take by id under the lock*
(`TakeOutstandingRequest`) and *complete* (`CompleteRealOperation`,
`CompletePseudoOperation`). A pseudo-request, whose id is 0, ends with the report
that VHF takes or refuses (`SubmitReadReport`), without one when the client
promises to write it later or completes it with `COMPLETE_WRITE_EVENT`
(`EndPseudoOperation`), or fails, which calls the ready-for-read callback again
(`ReissuePseudoOperation`, `FinishReissue`). `ready` is VHF's view of it:
`"dropped"` is a request that the client ended with no report. `callback[o].pc`, `request[p].pc` and
`client[c].pc` say where each thread is. Closing a file is `CloseHandle`
(cleanup cancels the polls), `FileCloseRundown` (under the lock) and
`VhfDelete`, which waits for the callbacks.

VHF is external: it calls back at most once per operation, accepts one
completion per handle, and asks for a further input report only when the last
request was satisfied. Data, report formats and lengths are left out, except
whether a poll's buffer is large enough (`room`), whether the report id is
known, and whether a completion has data. `NextRequestId` is not wrapped by
the arithmetic: `MSB` stands for 0x80000000, an id is `NextRequestId` with that
bit set, and the assumption `Cardinality(RealOps) < MSB` says that a file sees
fewer operations than there are ids.

`HidOperations` is the promise seen by HID clients: an operation is asked,
offered at most once, and ends answered, refused or cancelled; the close
cancels everything on offer in one step; late operations are refused, and are
refused in the end. `OperationsKeepTheirPromise` is the refinement, with the
mapping `OperationState`.

### WinUHidDevice

A device with a throttling period, because that is where the threads share
state. The event thread polls and either hands an event to the callback or, for
a ready-for-read request, stores it in `PendingReadReportEvent` and signals the
auto-reset `ReadReportReadyEvent`; the read thread or a submitter consumes the
signal and then takes the event. `poll[t]`, `read`, `submit[s]` and `owner` are
the program counters. `Device->Lock` is held over short stretches; each is one
action. The driver is reduced to a queue of ready events with cancellation.
Sizes of events are two: the initial hint and twice it.

`WinUHidStartDevice` is `CreateEventThread`, `StartDevice`, `StartDeviceFails`
and `StartDeviceUnwinds`; `WinUHidStopDevice` is `StopDevice`,
`StopJoinsEventThread`, `StopSignalsEvent`, `StopSignalsTimer`,
`StopJoinsReadThread`. One thread starts, stops and destroys. As the header
requires, the device is destroyed only when no caller is inside another
function.

### WinUHidXOne, WinUHidMouse

The output report callback stores the report under the lock and signals
afterwards (`StoreReport`, `SignalReport`); the rumble thread's loop is one
action per wait and per stretch between waits. Times are numbers of the
report's unit; the timer expires at any moment, and `thread.due` and
`thread.on` count how long the motors are kept on.

The mouse's functions take no lock and read the resolution once, so each call
is one action, by one caller. `owed[axis]` is a history variable: the movement
the caller gave less the movement the reports told of. C division and remainder
are defined (`Quotient`, `Remainder`), and the remainder is stored `% 256`
because the field is a `UCHAR`. `WinUHidMouse.h` numbers the buttons from 1 to
5 while the function takes 0 to 4; the model follows the function.

### ReportDescriptor, WinUHidSetup

The parser reads one item per step, as its loop does: `ReadItem` is a global
item that sets the current frame (`SetGlobalItem`), pushes or pops one
(`PushFrame`, `PopFrame`), a main item that adds to a report's size
(`AddMainItem`), one that is skipped, or one that ends the parse in an error
(`RefuseItem`). `ReportSizes` are bits while the descriptor is read and bytes
after `EndParse`, as in the code, and `ULongMax` is where `ULongMult` and
`ULongAdd` overflow. `DeclaredBits` is the reference: the sum, over the main
items of a kind, of size times count as the last items before them that are
still in force say, found by looking back over the whole descriptor and not by
keeping a stack: `Setters` are the items that set a tag and have not been
popped, judged by the depth of the stack at each item since (`Depth`, a
difference of counts), and `InForce` is the data of the last of them.
`SizesAsDeclared` compares the two at every prefix, and at the end with the
least number of bytes that hold the bits.

`WinUHidSetup` has one action per setup IOCTL. `caller.pc` is the stage at
which `WinUHidCreateDevice` is, in the order it sends them, or `"direct"` for a
client of the driver that sends them in any order and again. `Returns` takes
the status back to `WinUHidCreateDevice`, which goes to its `Fail` label at the
first that is not a success. The history variables `caller.valid` and
`caller.starved` say whether the configuration was what the header asks for and
whether some resource gave out. `HardwareIDs` is the memory from the caller's
list on, by the places of its null characters, with the pointer (`at`) and the
sum (`len`) of the loop of `MultiSzWcsLen`, which is one step a round and faults
when no null is left ahead of it; `SetHardwareIds` then applies the driver's
checks of length and of the last two characters to what was measured.
`MaxChars` is the number of characters in `MAXUINT16` bytes. A descriptor is
parsed one item a step, and a client of its own may send other IOCTLs
meanwhile, which the parallel queue lets in; `early` is the history of it: the
device was created while its descriptor was being parsed.

### WinUHidGamepad, WinUHidPS4, WinUHidPS5, WinUHidPlayStation

The two presets have the same life and the same input path, line by line, and
differ in their outputs. Reports are numbered in the order in which they are
stored under the lock (`StoreReport`); the copy that the SDK makes after the
lock is released is in two halves (`SubmitReport` and `FinishSubmit` for a
caller, `HandleReadReport`, `CopyReport` and `CompleteReadReport` for the
read callback), so that a report can be replaced between them. The SDK
below is what `WinUHidDevice` shows of it: one ready-for-read event, which a
submitter or the read thread takes.

In `WinUHidPS4` the output callback merges (`StoreLed`), signals (`SignalLed`)
and completes, and the LED thread's loop is one action per wait. A
blink time is steady or not; its end may come at any moment. In `WinUHidPS5`
the callback is one action, because all it changes is its own: what
it remembers in `Last`, against the history variable `written`, what the HID
client asked for last, and `told`, what the caller was told last: of a motor, the
amplitude. The caller is taken to have set every callback.

### WebManager

A device's `Arc` is held by the map while the device is `"listed"` and by each
thread that has it in `request`. Whoever lets go of the last one (`Release`)
runs `Drop`, which stops and destroys (`DropDevice`). A request to submit a
report of a generic device is four steps, one per lock it takes
(`SubmitGenericInput`, `CacheInput`, `SetLastReportId`, `SendSnapshot`); that of
a gamepad holds the report's lock across `ReportInput` and `SendSnapshot`.
`pick_read_snapshot` is the function of that name. A WebSocket's task is
`Forward`, `Sent`, `Lagged`, `Closed`, and the channel is the number of
events sent, of which the last `EVENT_CHANNEL_CAPACITY` are kept. The main
thread is `Shutdown`, `ClearOne`, `Cleared`, `DropManager`: `destroy_all` keeps
the lock of the map while it drops devices, and a device that was inserted
behind it goes with the manager itself.

## Runs

| run | question | instance | result |
|---|---|---|---|
| `driver_safety` | is each operation in one hand and answered once; is a report VHF asked for forgotten only when the client ends the request; is nothing queued after the rundown? | one write, two ready-for-read requests, one poll, two client threads that may answer twice, as a read or as a write | holds, 898k states |
| `driver_close` | is each operation answered by its own event; does the close end; does the driver implement `HidOperations`? | one read, one write and one ready-for-read request, one poll, one client that may answer twice, one unknown report id, allocations that fail | holds, 97k states |
| `driver_wakeup` | may a poll stay pended next to a waiting operation? | one operation, one poll | violated: see findings |
| `device_safety` | is each event in one hand; does a pending event have a signal; is a destroyed device unused? | two pollers, two submitters, one output that needs the larger buffer, failing allocations | holds, 1.15M states |
| `device_liveness` | do stops return and interrupt polls; do events given to a poll reach the callback; do polls come to a large enough buffer? | one poller, one submitter, no submit once the stop has begun | holds, 49k states |
| `device_hang` | do stops return when a report may be submitted at any time? | one submitter | violated: see findings |
| `xone_rumble` | is no report missed; do motors stop and run as long as asked; does the destruction return? | stop, plain, repeated and delayed effects | holds, 12k states |
| `mouse_forward` | do whole detents add up; do reports repeat the buttons? | movements 40, 120, 160 | holds, 38k states |
| `mouse_backward` | the same when the wheel moves back | movement -60 | violated: see findings |
| `driver_setup` | are the report sizes those declared; is a device created only from an accepted descriptor, and does its configuration stay; is a configuration with at most one hardware id accepted? | descriptors of up to 5 items, 2 frames, 31 as the largest integer, lists of no, one, an over-long and two ids | holds, 3.9M states |
| `playstation` | does the light show the latest state; is the caller told each output; does the HID client read the latest report, and none older; does the destruction return? | two callers, two reports; a PS4 or a PS5 gamepad | holds, 649k states |
| `web_manager` | is a device destroyed by one thread alone; is what is seen of the input current; does a removed device go and do its feeds end? | one device of any kind, two requests, one socket, a channel of two | holds, 776k states |

### Why these bounds

*Driver.* The collections and ids are the only thing operations share, so a few
operations, each of which may be in any stage, show the interleavings of two
callbacks with each other, with the poll, with two completing threads and with
the close. Pseudo-requests all have the id 0, and `driver_safety` has two of
them at a time, with a real operation beside them; two operations with ids of
their own are in `driver_close`, where a client may answer an old event. `MSB`
is larger than the number of operations, as the assumption wants: no id wraps in
any run. What happens on a file that sees 2^31 operations is assumed away, in the
runs and in the proofs, which remove every other bound for the properties they
cover. *Device.* At most one ready-for-read event exists (VHF's rule, kept by
`VhfEvent` and checked by `EventInOneHand`), so two submitters and the read
thread are all who can compete for it; two pollers are what the shared buffer
hint needs. *Xbox One.* Duration and delay of 0, 1 and 2 units and repeats of 0
and 2 reach both the consolidated and the separate rounds. *Mouse.* A third of
a detent, a detent, and more than a detent reach every remainder that is a
multiple of 40; resolution and buttons are unbounded.

*Setup.* Five items are enough to set size and count, push, change one of them
and count a main item, to push, set both, pop and find them gone, or to count
three main items; two frames reach both ends of the array
of 32. With 31 as the largest ULONG a report of 3 bits times 4 rounds up, twice
that still fits, and 8 bits times 4 overflow in the product, while three
counts of 12 bits overflow in the sum. With 5 characters in `MAXUINT16` bytes the
lists are an empty one, one id followed by more memory, the longest id
and one too long, and two ids with no null behind them, with one where
`MultiSzWcsLen` happens to look, and with one elsewhere. The length of the
descriptor, the sizes and the frames are unbounded in the proofs.
*PlayStation.* Two reports of two callers are what may be swapped; one color
beside off, with and without a blink, are the merges that differ. *Web.* A
device shares nothing with another but the lock of the map; two requests are
the one that removes and the one that still uses, or the two that submit; a
channel of two with two events of callbacks and two snapshots lags.

Deadlock is checked in every run but `device_safety`, `device_hang` and
`web_manager`. In the first two a report may be submitted while the device is
being stopped, and then the stop really hangs (the finding below); in the last
the server shuts down and nothing is left to do. Everywhere else the end states are
explicit stuttering actions (`Closed`, `Destroyed`).

### Fairness

Weak fairness for each thread that is *inside* the driver or the SDK and for the
timers: an operating system runs ready threads, and none of these steps waits for
the caller. Nothing is assumed of when VHF starts an operation, when a client
polls or completes, or when a device is stopped or destroyed. Nor is it assumed
in `WinUHidDevice` that the driver serves a pended poll while an event is ready,
since `driver_wakeup` shows that it may not: `EventsReachCallback` starts from
an event that the driver has given to a poll, `StopInterruptsPolls` and
`StopDeviceReturns` from the cancellation, and `PollsOutgrowEvents` from a poll
that was told its buffer is too small. The destruction of the Xbox One gamepad is
strongly fair, as it has to find a moment between two output callbacks, which
the code guarantees by stopping the polls first. `HidOperations` only promises
the refusal of late operations.

For the gamepads and the web server it is the same: the callbacks, the LED
thread, the owner inside its destruction, request handlers and tokio's tasks go
on, and nothing is assumed of when a caller reports, a request comes or a
device is removed. That the HID client asks for reports is not assumed but is
the antecedent of `ReportReachesHost`. A WebSocket's client takes what it is
sent or is lost (`Sent` or `Disconnects`), as TCP has it.

## Findings

* `driver_wakeup` - `GET_NEXT_EVENT` looks for a waiting operation and then
  pends the poll in a second step (`WinUHid.c:988`); a callback that queues its
  operation in between finds no pended poll. The poll then "pends inside
  WinUHid" (`Public.h:71`) although an event *is* ready, until another event
  comes.
* `device_hang` - `WinUHidSubmitInputReport` (`WinUHid.cpp:248`) may consume
  the signal that `WinUHidStopDevice` set "both the event and the throttling
  timer" (`WinUHid.cpp:705`) for. It returns from the branch commented "This
  should be impossible" and the stop waits for the read thread for ever.
  `device_liveness` shows that this is the only obstacle: with no submit once
  the stop has begun, every stop returns and that branch is unreachable.
* `mouse_backward` - the negative remainder of a backward movement is kept in a
  `UCHAR` (`WinUHidMouse.cpp:257`): two movements by -60 report a tick forward.
  "We handle accumulating of whole ticks on behalf of the caller"
  (`WinUHidMouse.cpp:238`) holds for forward movements only, for which it is
  proved.

These were met as well and have no run of their own; the models either follow
the code in them or say where they stop:

* `WinUHid.c:695`: "Device info can only be set once before device creation",
  and the report descriptor likewise (755). The checks are made on a parallel
  queue with no lock. `CREATE_DEVICE` takes `ReportDescriptorLength`, which is set
  before the descriptor is parsed (799), as the sign that there is one (948):
  sent meanwhile it makes a device whose report sizes still change, and whose
  descriptor is deleted under it when the parser refuses it (807). That is in
  the model (`early`), and excepted in `CreatedFromAccepted` and
  `FrozenWhenCreated`. Two setters that overlap both pass, which is not
  modelled. No client of the repository sends two IOCTLs at a time.
* `MultiSzWcsLen` (`WinUHid.cpp:62`) advances its pointer by all it has measured so
  far, so that from the second string on it no longer follows the list.
  `WinUHid.h:60` asks for "a set of null terminated strings terminated by a second
  consecutive null"; with two of them it reads beyond the list and faults, or
  measures a length that the driver refuses, or is right by what happens to be
  in memory behind the list. All three are in the model, and as an invariant of
  `driver_setup` `ValidConfigAccepted` is violated; `OneIdAccepted` is its part
  that holds.
* `WinUHid.c:899`: hardware ids longer than `MAXUINT16` bytes are refused, as
  instance ids are (838); `WinUHid.h:58` names no limit. An empty list is
  measured as one character and refused.
* `WinUHid.c:1035`: `COMPLETE_WRITE_EVENT` takes any operation with its id. With
  id 0 it deletes a ready-for-read request, and a report that
  `VhfReadReportSubmit` refuses (1106) takes the request with it; in both cases
  nothing asks the client for a report again (`ready = "dropped"`).
* `WinUHidPS5.cpp:395`: the rumble callback is skipped when the motor values are
  those of the last report. With the same values and legacy vibration ("When using
  legacy rumble support, double the amplitude", 397) the amplitude asked for
  is twice as large, and the caller is not told. `OutputsTold` says of the motors
  what is left: the setting written last, as one kind of vibration or the
  other. The doubled amplitude is a `UCHAR` (400), so that it wraps above 127.
* `WinUHidPS4.cpp:625`, `WinUHidPS5.cpp:504`: the report is read after the lock
  is released, so a HID client may read halves of two reports.
* `manager.rs:280`: reports that are not numbered are cached under their first
  byte and not, as the comment above says, under key 0; a read of id 0 still
  finds the last one by `last_report_id`. Requests that overlap may be cached in
  another order than they were submitted.
* `main.rs:155`: "Make sure we tear down all devices before the runtime drops".
  A request that creates a device may insert it behind `destroy_all`; it
  is then destroyed with the manager (`DropManager`).

## Proofs

Every invariant and action property that a passing run checks is proved, and
that the mouse's and the rumble thread's variables keep their types as well, from
the constants' named assumptions and the hypothesis a theorem states; no
number of operations, polls, threads, clients, items or movements is fixed.

Driver, `WinUHidDriver_proofs` and `WinUHidDriverPromise_proofs`:

* `TypeCorrect` - `Spec => []TypeOK` of the driver.
* `OperationsNotLost`, `OperationsOwnedOnce`, `OperationsAnsweredOnce`,
  `RundownIsFinal` - the four invariants of the driver that say where an
  operation is. They are not inductive one by one: that a completion finds its
  operation pending needs that the operation is held by one hand, and that a
  queued operation is still pending after the close needs that nothing is
  queued after the rundown. The strengthening is
  `IInv == TypeOK /\ EmptyAfterRundown /\ Ownership`. `EmptyAfterRundown`
  ties the file's state, `VhfHandle` and the empty collections together, so
  that `QueueOperation`'s check of `VhfHandle` under the lock is enough;
  `Ownership` says for every operation which hand holds it and that VHF waits
  for it exactly then. Each action has a lemma that it preserves `Ownership`,
  one step per hand the action may change.
* `EventAnswersItsOperationInvariant` - an id leads to the operation whose event
  the client was given. `Answers == Numbering /\ Unnumbered /\
  EventAnswersItsOperation`: `Numbering` says that `NextRequestId` counts the
  operations that have an id, so that by `Cardinality(RealOps) < MSB` the
  next id with its bit set is in no operation yet; `Unnumbered` says that an
  operation has its id before another thread can see it, which is why
  `CreateRealOperation` numbers it before `QueueOperation`.
* `ReadyRequestNotForgottenInvariant` - however many pseudo-requests are about,
  the wanted one is lost only when the client ends it (`ready` is then
  `"acknowledged"` or `"dropped"`, and no longer `"wanted"`). Under the hypothesis
  `AllocMayFail = FALSE`, which is that of the run: when `WdfObjectCreate` fails the
  code drops the ready-for-read request, and nothing asks for it again. `IdleBeforeCreate` is
  what it needs beside `IInv`: while the file is open, a NULL `VhfHandle` means
  that nothing runs, so `QueueOperation` refuses a ready-for-read request only when the
  file is closed.
* `DriverRefinesHidOperations` - `Spec => HidOps!Init /\ [][HidOps!Next]_HidOps!vars`,
  the safety part of `OperationsKeepTheirPromise`. `PromiseStep` names the
  abstract step of each action: VHF's callback is an `Ask`; serving a poll is the
  `Offer` of the operation it hands out, wherever the poll is served
  (`TryCompleteOffers`); a callback that gives up, for want of memory or
  because the file is closed, is a `Refuse`; the completion of an operation
  the client answered is its `Answer`; the rundown is the one step that
  cancels all that is on offer (`RundownCloses`); everything else stutters.
  `Ownership` says that an operation is at one place only, so that a step
  changes the abstract state of one operation, and `ClientsGone` that no
  client's request is in progress after the rundown, so that no operation is
  answered then.

SDK device, `WinUHidDevice_proofs`: `TypeInvariant`,
`EventInOneHandInvariant`, `PendingEventIsSignalledInvariant`,
`ReadThreadFindsEventInvariant`, `SubmitFindsEventInvariant`,
`DestroyedDeviceUnusedInvariant`, all from `IInv == Control /\ Hands`.

* `Control` is about program counters: `Phases` says which threads are left at
  each stage of start, stop and destroy (the joins), and `Signals` is the
  protocol of the auto-reset event. While the device is started, a filled
  `PendingReadReportEvent` goes with exactly one of the set event, the event
  thread on its way to set it, and the one thread that consumed it
  (`OneSignal`).
* `Hands` says of every event that it is at one place at most - the driver's
  queue, a poll, the pending slot, the read thread, a submitter, the user - and
  at one exactly while it is unanswered. As VHF has one ready-for-read event
  at a time, the event thread that holds it finds the slot empty and overwrites
  nothing; and that one thread at most has consumed the signal (`OneSignal`) is
  what keeps two from taking the slot's event.
* `SubmitFindsEventInvariant` has the hypothesis `~SubmitAnyTime`, that no
  report is submitted while or after the device is stopped. Without it the
  statement is false: that is the finding of `device_hang`. All the others are
  proved without it.

The rest:

* `MouseTypeCorrect`, `ButtonsShown` - of the mouse, for movements in either
  direction.
* `ForwardTicksAccumulate` - when the wheels only move forward, what is owed is
  the remainder the mouse keeps, which is less than a detent; that is inductive
  and gives `TicksAccumulated`.
* `RumbleTypeCorrect`, `ReportsNotMissed`, `MotorsStop`, `EffectsLast` - the
  invariants of `WinUHidXOne`, for every set of reports. `Announced` says, for
  wherever the thread is and not only for its waits, that a report it has not
  loaded is or will be signalled, and that the motors are off on the way to the
  wait; it uses that `Stopping` is set before the event is closed. `RoundsOK`
  counts what the rounds played so far add up to.
* `SetupTypeCorrect` - the parser's types need that its sums fit: `TypeOK /\
  SumsFit`, where `SumsFit` bounds the rounded bytes and the byte for the number by
  what was counted.
* `OneIdIsAccepted` - `StagesOK` ties each stage of `WinUHidCreateDevice` to what
  the file has by then and not yet, so that no once-only check refuses it, and
  `MeasureOK` says that the loop of `MultiSzWcsLen` stands at the start of a list
  of one id or has come, with its length, to the second null.
* `DevicesFromAccepted`, `CreatedStaysFrozen` - for clients in any order, also
  while a descriptor is parsed. `StagesOK` says that an early device belongs to a
  client of its own, so that the SDK returns none, and that every other device
  has a descriptor the parser is done with.
* `SizesAreDeclared` - the parser's stack computes what the whole descriptor
  declares, for descriptors of any length and nesting. The inductive invariant
  is `Measured /\ SizesAsDeclared`. `Framed`, its core, says of *every* frame and
  tag that it holds the data of the last of the items that stand at that depth
  (`Standing`); the top frame is then `InForce` for the next item
  (`CurrentInForce`), a push copies it to a depth where nothing else
  stands, and a pop uncovers a frame that is still right (`FramedStep`).
  `DeclaredBitsNext` adds one term to the sum, and `WholeBytes` shows that the
  rounding of `PostProcessReportSize` is the least sufficient number of bytes.
  Sums over a descriptor need an induction. The library's induction theorems take an
  operator as a parameter, so it is derived here for sets, from the
  well-foundedness of the subsets of a finite set (`LeastNatural`,
  `Induction`, `SubsetInduction`); with it the recursive function behind
  `SumFunction` is shown to exist and to add its terms in any order
  (`SumsExist`, `SumsAnyOrder`, `SumFunctionGrows`).
* `OutputsAreTold` - of each output the PS5 preset remembers exactly what was
  last written (`Remembered`), and that was told; of the motors, told with the
  amplitude of one kind of vibration or the other.
* `LightIsUpToDate` - `LedOK`: whenever the event is reset and no report is
  about to signal it, the LED thread's copy is the merged state. That the
  thread resets the event under the lock with its copy is what makes it
  inductive.
* `InputNeverGoesBack` - `InputOK`: the ready-for-read event is held by at most
  one of the callers and the read thread, and the copy it makes is not older
  than what the HID client has. Any number of callers and reports.
* `DevicesDestroyedAlone` - `Owned`: for each state of a device, who may hold
  it; with the shape of requests (`RequestOK`).
* `InputSeenIsCurrent` - `SeenOK == Numbered /\ CacheOK /\ ShownOK`: a
  request's report is newer than those that had returned when it began, the
  cache has nothing that one of those has replaced, and a gamepad's snapshot is
  of its report unless the report is locked. It builds on `Owned`.

Only model-checked: the liveness properties (`CloseTerminates`,
`StopDeviceReturns`, `StopInterruptsPolls`, `EventsReachCallback`, `PollsOutgrowEvents`, `ReportsPlay`,
`EffectEnds`, `DestroyReturns`, `ReportReachesHost`, `DestroyEnds`), and of the
refinement of `HidOperations` its fairness. Liveness under fairness and ENABLED
are beyond the provers used here.

## Not modelled

* Two setup IOCTLs of one file that both set the same thing between check and
  assignment. What overlaps with the parsing of a descriptor is modelled.
* Ids of operations that wrap after 2^31 operations on one file.
* The helpers of the presets that fill in an input report (sticks, hats, touch,
  motion, battery), timestamps and sequence numbers: they lay out bytes.
* Unthrottled devices in the SDK: a submit is one `WriteFile`, which is
  `EvtIoWrite` in the driver's module; the rest is `WinUHidDevice` without the
  read thread.
* VHF's own timeout of operations (noted in `WinUHid.h`), which cancels an
  operation without telling the driver: the driver's state does not change.
* Time: timers expire at any moment, so the rate of reports is not a property.
* Two threads that use one mouse, and the reuse of a closed handle's value.
* The web server's tokens, static files and routes that only decode JSON, and
  messages of a WebSocket's client, which are ignored.
* The browser page, the installer, the scripts, `WinUHidDevs.cpp` and the FFI
  declarations, which keep no state a model would say anything about. Loading,
  unloading and tracing of the driver. The unit tests are read as
  documentation.

## Plan

1. *Driver operation queue, SDK device, Xbox One rumble, mouse* - done.
2. *Setup and parser* - done, with IOCTLs sent while a descriptor is parsed.
3. *PS4 and PS5 presets* - done.
4. *Web manager, feeds and shutdown* - done.
5. *Proofs* - done for every invariant and action property that is checked,
   and for the steps of the refinement.
6. Left: two setters that overlap, with their checks and their assignments as
   separate steps; ids that wrap, without the assumption on `MSB`.
