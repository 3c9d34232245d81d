------------------------ MODULE WinUHidDevice_proofs ------------------------
(***************************************************************************)
(* Proofs of the safety of a throttled device, for any number of polling   *)
(* and submitting threads and of events.  The inductive invariant IInv is  *)
(*                                                                         *)
(*   Typed               types, and which step holds an event;             *)
(*   Phases              what start, stop and destroy have established;    *)
(*   Signals             in a running device a filled slot goes with       *)
(*                       exactly one signal, an empty slot with none;      *)
(*   SubmitWhileRunning  what SubmitAnyTime = FALSE says of the callers;   *)
(*   Hands               an event VHF waits on is in exactly one place, any *)
(*                       other event in none.                              *)
(*                                                                         *)
(* Signals needs Hands: the event thread overwrites the slot whatever it   *)
(* held, and only because no second ready-for-read event exists while one  *)
(* is in the slot does the old event not get lost, nor a second signal     *)
(* appear.  ReadThreadFindsEvent and SubmitFindsEvent are that argument.   *)
(***************************************************************************)
EXTENDS WinUHidDevice, FiniteSetTheorems, TLAPS

\* The states of the read thread and of a submitting call, as TypeOK has them.
ReadState ==
    [pc : {"none", "check", "wait", "blocked", "woken", "callback", "arm",
           "delay", "exited"}, event : {Ready, NULL}]

SubmitState ==
    [pc : {"out", "take", "complete", "rearm"}, event : {Ready, NULL}]

\* A poll holds an event exactly when it returns one; only a poll with the
\* smallest buffer is told to grow; only the event thread signals and exits.
PollOK ==
    /\ poll \in [Threads -> PollState]
    /\ \A t \in Threads :
          /\ poll[t].event # NULL <=> poll[t].pc = "return"
          /\ poll[t].pc = "grow" => poll[t].size = 1
          /\ poll[t].pc \in {"signal", "exited"} => t = EventThreadProc

\* The read thread holds an event exactly while it calls back with it.
ReadOK == read \in ReadState /\ (read.event # NULL <=> read.pc = "callback")

\* A submitting call holds an event exactly while it completes it.
SubmitOK ==
    /\ submit \in [Submitters -> SubmitState]
    /\ \A s \in Submitters :
          submit[s].event # NULL <=> submit[s].pc = "complete"

DeviceOK ==
    /\ State \in {"Created", "Started", "Stopped"}
    /\ EventCallback \in BOOLEAN
    /\ EventBufferSizeHint \in {1, 2}
    /\ PendingReadReportEvent \in {Ready, NULL}
    /\ ReadReportReadyEvent \in BOOLEAN
    /\ ThrottlingTimer \in {"unset", "armed", "signalled"}
    /\ owner \in {"created", "joinFailedStart", "run", "joinEventThread",
                  "signalEvent", "signalTimer", "joinReadThread", "stopped",
                  "gone"}

WorldOK ==
    /\ driver \in Seq(Events)
    /\ output \in [Outputs -> {"fresh", "pending", "done"}]
    /\ wanted \in BOOLEAN
    /\ user \subseteq Events

Typed == PollOK /\ ReadOK /\ SubmitOK /\ DeviceOK /\ WorldOK

\* The State variable of each phase in the life of the device.
OwnerState ==
    /\ owner \in {"created", "joinFailedStart"} => State = "Created"
    /\ State = "Started" <=> owner = "run"
    /\ owner \in {"joinEventThread", "signalEvent", "signalTimer",
                  "joinReadThread", "stopped"} => State = "Stopped"

\* Before the start the threads of a failed start only look at State and
\* exit, and nothing is pending.
CreatedIsIdle ==
    State = "Created" =>
        /\ PendingReadReportEvent = NULL
        /\ ~ReadReportReadyEvent
        /\ \A t \in Threads : poll[t].pc \in {"out", "enter", "fail", "exited"}
        /\ read.pc \in {"none", "check", "exited"}
        /\ \A s \in Submitters : submit[s].pc = "out"

\* The joins of WinUHidStopDevice and of a failed start, and what the caller
\* of WinUHidDestroyDevice waits for.
EventThreadGone ==
    owner \in {"created", "signalEvent", "signalTimer", "joinReadThread",
               "stopped", "gone"} => poll[EventThreadProc].pc = "out"

ReadThreadGone == owner \in {"created", "stopped", "gone"} => read.pc = "none"

AllGone ==
    owner = "gone" => /\ \A t \in Threads : poll[t].pc = "out"
                      /\ \A s \in Submitters : submit[s].pc = "out"

Phases ==
    OwnerState /\ CreatedIsIdle /\ EventThreadGone /\ ReadThreadGone /\ AllGone

SomebodyTakes == \E s \in Submitters : submit[s].pc = "take"

\* A filled slot goes with one of the signalled event, the event thread on its
\* way to signal it, and the one thread that consumed the signal; with nothing
\* filled there is none of them.
OneSignal ==
    /\ PendingReadReportEvent # NULL <=>
          \/ ReadReportReadyEvent
          \/ poll[EventThreadProc].pc = "signal"
          \/ read.pc = "woken"
          \/ SomebodyTakes
    /\ ReadReportReadyEvent =>
          /\ poll[EventThreadProc].pc # "signal"
          /\ read.pc # "woken"
          /\ ~SomebodyTakes
    /\ poll[EventThreadProc].pc = "signal" =>
          read.pc # "woken" /\ ~SomebodyTakes
    /\ read.pc = "woken" => ~SomebodyTakes
    /\ \A s, u \in Submitters :
          submit[s].pc = "take" /\ submit[u].pc = "take" => s = u

Signals == State = "Started" => OneSignal

\* Unless reports are submitted at any time, a submitting call is over when
\* the device is stopped.
SubmitWhileRunning ==
    ~SubmitAnyTime =>
        \A s \in Submitters : submit[s].pc # "out" => owner = "run"

\* The hands an event can be in, and that it is not twice in the same one.
DriverHas(e) == \E i \in DOMAIN driver : driver[i] = e
PollHas(e)   == \E t \in Threads : poll[t].event = e
SubmitHas(e) == \E s \in Submitters : submit[s].event = e

DriverOnce(e) ==
    \A i, j \in DOMAIN driver : driver[i] = e /\ driver[j] = e => i = j
PollOnce(e) ==
    \A t, u \in Threads : poll[t].event = e /\ poll[u].event = e => t = u
SubmitOnce(e) ==
    \A s, u \in Submitters : submit[s].event = e /\ submit[u].event = e => s = u

Once(e) == DriverOnce(e) /\ PollOnce(e) /\ SubmitOnce(e)

\* No event is in two different hands.
NoOther(e) ==
    /\ DriverHas(e) => ~PollHas(e) /\ ~SubmitHas(e)
    /\ PollHas(e) => ~SubmitHas(e)
    /\ PendingReadReportEvent = e =>
          ~DriverHas(e) /\ ~PollHas(e) /\ ~SubmitHas(e)
    /\ read.event = e =>
          /\ ~DriverHas(e) /\ ~PollHas(e) /\ ~SubmitHas(e)
          /\ PendingReadReportEvent # e
    /\ e \in user =>
          /\ ~DriverHas(e) /\ ~PollHas(e) /\ ~SubmitHas(e)
          /\ PendingReadReportEvent # e /\ read.event # e

Held(e) ==
    \/ DriverHas(e) \/ PollHas(e) \/ SubmitHas(e)
    \/ PendingReadReportEvent = e \/ read.event = e \/ e \in user

OneHand(e) == Once(e) /\ NoOther(e) /\ (Unanswered(e) <=> Held(e))

Hands == \A e \in Events : OneHand(e)

Control == Typed /\ Phases /\ Signals /\ SubmitWhileRunning

IInv == Control /\ Hands

-----------------------------------------------------------------------------

\* What the assumption on the constants says of events and threads.
LEMMA ConstantFacts ==
    /\ Ready \in Events
    /\ Outputs \subseteq Events
    /\ Ready \notin Outputs
    /\ \A e \in Events : e # Ready => e \in Outputs
    /\ NULL \notin Events
    /\ NULL # Ready
    /\ EventThreadProc \in Threads
    /\ EventThreadProc \notin Pollers
    /\ Pollers \subseteq Threads
BY DeviceAssumption DEF Events, Threads

\* A step that moves no event keeps every event in its hand.
LEMMA HandsUnmoved ==
    ASSUME Hands, UNCHANGED world, UNCHANGED PendingReadReportEvent,
           \A t \in Threads : poll'[t].event = poll[t].event,
           read'.event = read.event,
           \A s \in Submitters : submit'[s].event = submit[s].event
    PROVE  Hands'
<1> SUFFICES ASSUME NEW e \in Events PROVE OneHand(e)'
  BY DEF Hands
<1>1. OneHand(e)
  BY DEF Hands
<1>2. /\ DriverHas(e)' <=> DriverHas(e)
      /\ PollHas(e)' <=> PollHas(e)
      /\ SubmitHas(e)' <=> SubmitHas(e)
      /\ Unanswered(e)' <=> Unanswered(e)
      /\ (e \in user)' <=> e \in user
  BY DEF DriverHas, PollHas, SubmitHas, Unanswered, world
<1>3. Once(e)'
  BY <1>1 DEF OneHand, Once, DriverOnce, PollOnce, SubmitOnce, world
<1> QED BY <1>1, <1>2, <1>3 DEF OneHand, NoOther, Held

PollLabels == {"out", "enter", "wait", "timeout", "interrupted", "grow",
               "again", "return", "fail", "signal", "exited"}

\* What replacing the state of one poll does.
LEMMA PollSet ==
    ASSUME poll \in [Threads -> PollState], NEW t \in Threads,
           NEW r \in PollState, poll' = [poll EXCEPT ![t] = r]
    PROVE  /\ poll' \in [Threads -> PollState]
           /\ poll'[t] = r
           /\ \A u \in Threads \ {t} : poll'[u] = poll[u]
OBVIOUS

\* A poll that goes to another label keeps its buffer and its event.
LEMMA PollGotoSets ==
    ASSUME poll \in [Threads -> PollState], NEW t \in Threads,
           NEW label \in PollLabels, PollGoto(t, label)
    PROVE  \E r \in PollState : /\ poll' = [poll EXCEPT ![t] = r]
                                /\ r.pc = label
                                /\ r.size = poll[t].size
                                /\ r.event = poll[t].event
<1> DEFINE r == [poll[t] EXCEPT !.pc = label]
<1>1. r \in PollState /\ r.pc = label /\ r.size = poll[t].size
      /\ r.event = poll[t].event
  BY DEF PollState, PollLabels
<1>2. poll' = [poll EXCEPT ![t] = r]
  BY DEF PollGoto
<1> QED BY <1>1, <1>2

\* A step of one poll that neither gets nor gives an event and signals nobody
\* keeps the invariant.
LEMMA PollMoves ==
    ASSUME IInv, NEW t \in Threads, NEW r \in PollState,
           poll' = [poll EXCEPT ![t] = r],
           r.event = poll[t].event,
           r.pc = "return" <=> poll[t].pc = "return",
           r.pc = "grow" => r.size = 1,
           r.pc # "signal",
           poll[t].pc # "signal",
           r.pc = "exited" => t = EventThreadProc,
           poll[t].pc # "out" \/ (t \in Pollers /\ owner # "gone"),
           State = "Created" => r.pc \in {"enter", "fail", "exited"},
           EventBufferSizeHint' \in {1, 2},
           UNCHANGED <<State, EventCallback, throttle, owner, read, submit,
                       world>>
    PROVE  IInv'
<1>1. poll \in [Threads -> PollState]
  BY DEF IInv, Control, Typed, PollOK
<1>2. /\ poll' \in [Threads -> PollState]
      /\ poll'[t] = r
      /\ \A u \in Threads \ {t} : poll'[u] = poll[u]
  BY <1>1, PollSet
<1>3. Typed'
  <2>1. PollOK'
    BY <1>2 DEF IInv, Control, Typed, PollOK
  <2> QED BY <2>1
          DEF IInv, Control, Typed, ReadOK, SubmitOK, DeviceOK, WorldOK,
              throttle, world
<1>4. Phases'
  <2>1. OwnerState' /\ ReadThreadGone'
    BY DEF IInv, Control, Phases, OwnerState, ReadThreadGone, throttle
  <2>2. CreatedIsIdle'
    BY <1>2 DEF IInv, Control, Phases, CreatedIsIdle, throttle
  <2>3. EventThreadGone'
    BY <1>2, ConstantFacts DEF IInv, Control, Phases, EventThreadGone
  <2>4. AllGone'
    BY <1>2 DEF IInv, Control, Phases, AllGone
  <2> QED BY <2>1, <2>2, <2>3, <2>4 DEF Phases
<1>5. Signals'
  <2>1. poll'[EventThreadProc].pc = "signal" <=> poll[EventThreadProc].pc = "signal"
    BY <1>2, ConstantFacts
  <2> QED BY <2>1 DEF IInv, Control, Signals, OneSignal, SomebodyTakes, throttle
<1>6. SubmitWhileRunning'
  BY DEF IInv, Control, SubmitWhileRunning
<1>7. Hands'
  <2>1. \A u \in Threads : poll'[u].event = poll[u].event
    BY <1>2
  <2> QED BY <2>1, HandsUnmoved DEF IInv, throttle
<1> QED BY <1>3, <1>4, <1>5, <1>6, <1>7 DEF IInv, Control

\* The same, for a step that only changes the label.
LEMMA PollGotoMoves ==
    ASSUME IInv, NEW t \in Threads, NEW label \in PollLabels,
           PollGoto(t, label),
           poll[t].pc \notin {"out", "return", "signal"} \/
               (t \in Pollers /\ owner # "gone" /\ poll[t].pc = "out"),
           label \notin {"return", "signal"},
           label = "grow" => poll[t].size = 1,
           label = "exited" => t = EventThreadProc,
           State = "Created" => label \in {"enter", "fail", "exited"},
           UNCHANGED <<device, throttle, owner, read, submit, world>>
    PROVE  IInv'
<1>1. poll \in [Threads -> PollState] /\ EventBufferSizeHint \in {1, 2}
  BY DEF IInv, Control, Typed, PollOK, DeviceOK
<1>2. PICK r \in PollState : /\ poll' = [poll EXCEPT ![t] = r]
                             /\ r.pc = label
                             /\ r.size = poll[t].size
                             /\ r.event = poll[t].event
  BY <1>1, PollGotoSets
<1> QED BY <1>1, <1>2, PollMoves DEF device

\* In a device that was not started no poll gets past the check of State.
LEMMA CreatedPolls ==
    ASSUME IInv, State = "Created", NEW t \in Threads
    PROVE  poll[t].pc \in {"out", "enter", "fail", "exited"}
BY DEF IInv, Control, Phases, CreatedIsIdle

\* The steps of WinUHidPollEvent, a timeout and a failure keep the invariant.
LEMMA PollStepInv ==
    ASSUME IInv, NEW t \in Threads,
           PollStep(t) \/ PollTimesOut(t) \/ PollFails(t)
    PROVE  IInv'
<1>1. poll \in [Threads -> PollState] /\ EventBufferSizeHint \in {1, 2}
  BY DEF IInv, Control, Typed, PollOK, DeviceOK
<1>2. CASE PollEvent(t)
  <2> DEFINE r == [pc |-> IF State = "Started" THEN "wait" ELSE "fail",
                   size |-> EventBufferSizeHint, event |-> NULL]
  <2>1. r \in PollState /\ r.pc \in {"wait", "fail"} /\ r.event = NULL
        /\ (State = "Created" => r.pc = "fail")
    BY <1>1 DEF PollState
  <2>2. poll' = [poll EXCEPT ![t] = r]
    BY <1>2 DEF PollEvent
  <2>3. poll[t].pc = "enter" /\ poll[t].event = NULL
    BY <1>2 DEF PollEvent, IInv, Control, Typed, PollOK
  <2> HIDE DEF r
  <2> QED BY <1>1, <1>2, <2>1, <2>2, <2>3, PollMoves DEF PollEvent, device
<1>3. CASE RetryPoll(t)
  <2> DEFINE label == IF State = "Started" THEN "wait" ELSE "fail"
  <2>1. label \in {"wait", "fail"} /\ (State = "Created" => label = "fail")
    OBVIOUS
  <2>2. PollGoto(t, label)
    BY <1>3 DEF RetryPoll
  <2> HIDE DEF label
  <2> QED BY <1>3, <2>1, <2>2, PollGotoMoves DEF RetryPoll, PollLabels
<1>4. CASE GrowBuffer(t)
  <2>1. poll[t].size = 1 /\ poll[t].pc = "grow" /\ poll[t].event = NULL
    BY <1>4 DEF GrowBuffer, IInv, Control, Typed, PollOK
  <2>2. /\ EventBufferSizeHint' = 2
        /\ poll' = [poll EXCEPT ![t].pc = "again", ![t].size = 2]
    BY <1>1, <1>4, <2>1 DEF GrowBuffer
  <2> DEFINE r == [poll[t] EXCEPT !.pc = "again", !.size = 2]
  <2>3. r \in PollState /\ r.pc = "again" /\ r.event = NULL
    BY <1>1, <2>1 DEF PollState
  <2>4. poll' = [poll EXCEPT ![t] = r]
    BY <1>1, <2>2
  <2>5. State # "Created"
    BY <2>1, CreatedPolls
  <2> HIDE DEF r
  <2> QED BY <1>4, <2>1, <2>2, <2>3, <2>4, <2>5, PollMoves DEF GrowBuffer
<1>5. CASE PollCancelled(t)
  BY <1>5, PollGotoMoves, CreatedPolls DEF PollCancelled, PollLabels
<1>6. CASE PollTimesOut(t)
  BY <1>6, PollGotoMoves, CreatedPolls DEF PollTimesOut, PollLabels
<1>7. CASE PollFails(t)
  BY <1>7, PollGotoMoves, CreatedPolls DEF PollFails, PollLabels
<1> QED BY <1>2, <1>3, <1>4, <1>5, <1>6, <1>7 DEF PollStep

\* So do the start of a poll by the user and the end of the event thread.
LEMMA UserPollsInv ==
    ASSUME IInv, NEW t \in Pollers, UserPolls(t)
    PROVE  IInv'
BY PollGotoMoves, ConstantFacts DEF UserPolls, PollLabels

LEMMA EventThreadExitsInv == IInv /\ EventThreadExits => IInv'
BY PollGotoMoves, ConstantFacts DEF EventThreadExits, PollLabels

-----------------------------------------------------------------------------

\* Taking the first event from the driver takes it from the driver's hand.
LEMMA TailHas ==
    ASSUME driver \in Seq(Events), driver # <<>>, driver' = Tail(driver),
           NEW e \in Events, DriverOnce(e)
    PROVE  /\ DriverOnce(e)'
           /\ DriverHas(e)' <=> DriverHas(e) /\ e # Head(driver)
<1>1. Len(driver) \in Nat \ {0}
  OBVIOUS
<1>2. /\ Len(driver') = Len(driver) - 1
      /\ \A i \in 1..Len(driver') : driver'[i] = driver[i + 1]
      /\ DOMAIN driver' = 1..(Len(driver) - 1)
      /\ DOMAIN driver = 1..Len(driver)
      /\ Head(driver) = driver[1]
  OBVIOUS
<1>3. DriverOnce(e)'
  <2> SUFFICES ASSUME NEW i \in DOMAIN driver', NEW j \in DOMAIN driver',
                      driver'[i] = e, driver'[j] = e
               PROVE  i = j
    BY DEF DriverOnce
  <2>1. i + 1 \in DOMAIN driver /\ j + 1 \in DOMAIN driver
    BY <1>1, <1>2
  <2>2. driver[i + 1] = e /\ driver[j + 1] = e
    BY <1>2
  <2> QED BY <1>2, <2>1, <2>2 DEF DriverOnce
<1>4. ASSUME DriverHas(e)' PROVE DriverHas(e) /\ e # Head(driver)
  <2>1. PICK i \in DOMAIN driver' : driver'[i] = e
    BY <1>4 DEF DriverHas
  <2>2. i + 1 \in DOMAIN driver /\ driver[i + 1] = e /\ i + 1 # 1
    BY <1>1, <1>2, <2>1
  <2> QED BY <1>1, <1>2, <2>2 DEF DriverHas, DriverOnce
<1>5. ASSUME DriverHas(e), e # Head(driver) PROVE DriverHas(e)'
  <2>1. PICK i \in DOMAIN driver : driver[i] = e
    BY <1>5 DEF DriverHas
  <2>2. i # 1
    BY <1>2, <1>5, <2>1
  <2>3. i - 1 \in DOMAIN driver' /\ driver'[i - 1] = driver[i]
    BY <1>1, <1>2, <2>2
  <2> QED BY <2>1, <2>3 DEF DriverHas
<1> QED BY <1>3, <1>4, <1>5

\* An event the driver does not hold is put into its hand.
LEMMA AppendHas ==
    ASSUME driver \in Seq(Events), NEW x \in Events,
           driver' = Append(driver, x), ~DriverHas(x),
           NEW e \in Events, DriverOnce(e)
    PROVE  /\ DriverOnce(e)'
           /\ DriverHas(e)' <=> DriverHas(e) \/ e = x
<1>1. /\ Len(driver) \in Nat
      /\ DOMAIN driver = 1..Len(driver)
      /\ DOMAIN driver' = 1..(Len(driver) + 1)
      /\ \A i \in 1..Len(driver) : driver'[i] = driver[i]
      /\ driver'[Len(driver) + 1] = x
  OBVIOUS
<1>2. \A i \in DOMAIN driver' : i \in DOMAIN driver \/ i = Len(driver) + 1
  BY <1>1
<1>3. DOMAIN driver \subseteq DOMAIN driver' /\ Len(driver) + 1 \in DOMAIN driver'
  BY <1>1
<1>4. DriverHas(e)' <=> DriverHas(e) \/ e = x
  BY <1>1, <1>2, <1>3 DEF DriverHas
<1>5. DriverOnce(e)'
  BY <1>1, <1>2 DEF DriverOnce, DriverHas
<1> QED BY <1>4, <1>5

\* Completing an event keeps the types.
LEMMA CompleteEventTyped ==
    ASSUME WorldOK, NEW e \in Events, NEW d \in BOOLEAN, CompleteEvent(e, d)
    PROVE  /\ driver' \in Seq(Events)
           /\ output' \in [Outputs -> {"fresh", "pending", "done"}]
           /\ wanted' \in BOOLEAN
<1>1. CASE e = Ready
  BY <1>1, ConstantFacts DEF WorldOK, CompleteEvent
<1>2. CASE e # Ready
  BY <1>2 DEF WorldOK, CompleteEvent, Events
<1> QED BY <1>1, <1>2

\* Completing an event that the driver does not hold answers it, or puts it
\* back into the driver; it concerns no other event.
LEMMA CompleteEventHas ==
    ASSUME WorldOK, NEW x \in Events, NEW d \in BOOLEAN, CompleteEvent(x, d),
           Unanswered(x), ~DriverHas(x), \A e \in Events : DriverOnce(e)
    PROVE  /\ \A e \in Events : DriverOnce(e)'
           /\ \A e \in Events \ {x} : /\ DriverHas(e)' <=> DriverHas(e)
                                      /\ Unanswered(e)' <=> Unanswered(e)
           /\ DriverHas(x)' <=> Unanswered(x)'
<1>1. CASE x # Ready
  <2>1. driver' = driver /\ wanted' = wanted
        /\ output' = [output EXCEPT ![x] = "done"]
    BY <1>1 DEF CompleteEvent
  <2>2. x \in Outputs
    BY <1>1, ConstantFacts
  <2>3. ~Unanswered(x)'
    BY <1>1, <2>1, <2>2 DEF Unanswered, WorldOK
  <2>4. \A e \in Events \ {x} : Unanswered(e)' <=> Unanswered(e)
    BY <2>1, <2>2, ConstantFacts DEF Unanswered, WorldOK
  <2> QED BY <2>1, <2>3, <2>4 DEF DriverHas, DriverOnce
<1>2. CASE x = Ready /\ d
  <2>1. driver' = driver /\ ~wanted' /\ output' = output
    BY <1>2 DEF CompleteEvent
  <2> QED BY <1>2, <2>1 DEF Unanswered, DriverHas, DriverOnce
<1>3. CASE x = Ready /\ ~d
  <2>1. driver' = Append(driver, x) /\ (wanted' <=> wanted) /\ output' = output
    BY <1>3 DEF CompleteEvent
  <2>2. \A e \in Events : DriverOnce(e)' /\ (DriverHas(e)' <=> DriverHas(e) \/ e = x)
    BY <2>1, AppendHas DEF WorldOK
  <2> QED BY <1>3, <2>1, <2>2 DEF Unanswered
<1> QED BY <1>1, <1>2, <1>3

\* A poll gets an event, a poll gives its event away; the same for a
\* submitting call.
LEMMA PollReceives ==
    ASSUME NEW t \in Threads, \A u \in Threads \ {t} : poll'[u] = poll[u],
           poll[t].event = NULL, NEW x \in Events, poll'[t].event = x,
           ~PollHas(x), NEW e \in Events, PollOnce(e)
    PROVE  PollOnce(e)' /\ (PollHas(e)' <=> PollHas(e) \/ e = x)
<1>1. e # NULL
  BY ConstantFacts
<1>2. PollHas(e)' <=> PollHas(e) \/ e = x
  BY <1>1 DEF PollHas
<1>3. PollOnce(e)'
  BY <1>1 DEF PollHas, PollOnce
<1> QED BY <1>2, <1>3

LEMMA PollReleases ==
    ASSUME NEW t \in Threads, \A u \in Threads \ {t} : poll'[u] = poll[u],
           NEW x \in Events, poll[t].event = x, poll'[t].event = NULL,
           NEW e \in Events, PollOnce(e)
    PROVE  PollOnce(e)' /\ (PollHas(e)' <=> PollHas(e) /\ e # x)
<1>1. e # NULL
  BY ConstantFacts
<1>2. PollHas(e)' <=> PollHas(e) /\ e # x
  BY <1>1 DEF PollHas, PollOnce
<1>3. PollOnce(e)'
  BY <1>1 DEF PollOnce
<1> QED BY <1>2, <1>3

LEMMA SubmitReceives ==
    ASSUME NEW s \in Submitters, \A u \in Submitters \ {s} : submit'[u] = submit[u],
           submit[s].event = NULL, NEW x \in Events, submit'[s].event = x,
           ~SubmitHas(x), NEW e \in Events, SubmitOnce(e)
    PROVE  SubmitOnce(e)' /\ (SubmitHas(e)' <=> SubmitHas(e) \/ e = x)
<1>1. e # NULL
  BY ConstantFacts
<1>2. SubmitHas(e)' <=> SubmitHas(e) \/ e = x
  BY <1>1 DEF SubmitHas
<1>3. SubmitOnce(e)'
  BY <1>1 DEF SubmitHas, SubmitOnce
<1> QED BY <1>2, <1>3

LEMMA SubmitReleases ==
    ASSUME NEW s \in Submitters, \A u \in Submitters \ {s} : submit'[u] = submit[u],
           NEW x \in Events, submit[s].event = x, submit'[s].event = NULL,
           NEW e \in Events, SubmitOnce(e)
    PROVE  SubmitOnce(e)' /\ (SubmitHas(e)' <=> SubmitHas(e) /\ e # x)
<1>1. e # NULL
  BY ConstantFacts
<1>2. SubmitHas(e)' <=> SubmitHas(e) /\ e # x
  BY <1>1 DEF SubmitHas, SubmitOnce
<1>3. SubmitOnce(e)'
  BY <1>1 DEF SubmitOnce
<1> QED BY <1>2, <1>3

\* The driver gives its first event to a poll, or makes the poll grow.
LEMMA DriverCompletesPollInv ==
    ASSUME IInv, NEW t \in Threads, DriverCompletesPoll(t)
    PROVE  IInv'
<1> DEFINE x == Head(driver)
<1>1. poll \in [Threads -> PollState] /\ driver \in Seq(Events)
  BY DEF IInv, Control, Typed, PollOK, WorldOK
<1>2. /\ driver # <<>> /\ x \in Events /\ Tail(driver) \in Seq(Events)
      /\ poll[t].pc \in {"wait", "timeout", "interrupted"}
      /\ poll[t].event = NULL
  BY <1>1 DEF DriverCompletesPoll, IInv, Control, Typed, PollOK
<1>3. State # "Created"
  BY <1>2, CreatedPolls
<1>4. CASE /\ Need(x) > poll[t].size
           /\ PollGoto(t, IF poll[t].pc = "timeout" THEN "fail" ELSE "grow")
           /\ UNCHANGED driver
  <2> DEFINE label == IF poll[t].pc = "timeout" THEN "fail" ELSE "grow"
  <2>1. poll[t].size = 1
    BY <1>1, <1>4 DEF Need, PollState
  <2>2. label \in {"fail", "grow"} /\ PollGoto(t, label)
    BY <1>4
  <2> HIDE DEF label
  <2> QED BY <1>2, <1>3, <1>4, <2>1, <2>2, PollGotoMoves
          DEF DriverCompletesPoll, PollLabels, world
<1>5. CASE /\ driver' = Tail(driver)
           /\ poll' = [poll EXCEPT ![t].pc = "return", ![t].event = x]
  <2> DEFINE r == [poll[t] EXCEPT !.pc = "return", !.event = x]
  <2>1. r \in PollState /\ r.pc = "return" /\ r.event = x
    <3> HIDE DEF x
    <3> QED BY <1>1, <1>2 DEF PollState
  <2>2. poll' = [poll EXCEPT ![t] = r]
    BY <1>1, <1>5
  <2>3. /\ poll' \in [Threads -> PollState]
        /\ poll'[t] = r
        /\ \A u \in Threads \ {t} : poll'[u] = poll[u]
    BY <1>1, <2>1, <2>2, PollSet
  <2> HIDE DEF r, x
  <2>4. UNCHANGED <<device, throttle, owner, read, submit, output, wanted, user>>
    BY DEF DriverCompletesPoll
  <2>5. Typed'
    BY <1>2, <1>5, <2>1, <2>3, <2>4, ConstantFacts
    DEF IInv, Control, Typed, PollOK, ReadOK, SubmitOK, DeviceOK, WorldOK,
        device, throttle, x
  <2>6. Phases'
    BY <1>2, <1>3, <2>1, <2>3, <2>4, ConstantFacts
    DEF IInv, Control, Phases, OwnerState, CreatedIsIdle, EventThreadGone,
        ReadThreadGone, AllGone, device, throttle
  <2>7. Signals' /\ SubmitWhileRunning'
    <3>1. poll'[EventThreadProc].pc = "signal" <=> poll[EventThreadProc].pc = "signal"
      BY <1>2, <2>1, <2>3, ConstantFacts
    <3> QED BY <3>1, <2>4
            DEF IInv, Control, Signals, OneSignal, SomebodyTakes,
                SubmitWhileRunning, device, throttle
  <2>8. Hands'
    <3> SUFFICES ASSUME NEW e \in Events PROVE OneHand(e)'
      BY DEF Hands
    <3>1. OneHand(e) /\ OneHand(x)
      BY <1>2 DEF IInv, Hands, x
    <3>2. DriverHas(x)
      BY <1>1, <1>2 DEF DriverHas, x
    <3>3. DriverOnce(e)' /\ (DriverHas(e)' <=> DriverHas(e) /\ e # x)
      BY <1>1, <1>2, <1>5, <3>1, TailHas DEF OneHand, Once, x
    <3>4. ~PollHas(x)
      BY <3>1, <3>2 DEF OneHand, NoOther
    <3>5. PollOnce(e)' /\ (PollHas(e)' <=> PollHas(e) \/ e = x)
      BY <1>2, <2>1, <2>3, <3>1, <3>4, PollReceives DEF OneHand, Once, x
    <3>6. /\ SubmitHas(e)' <=> SubmitHas(e)
          /\ SubmitOnce(e)
          /\ SubmitOnce(e) <=> SubmitOnce(e)'
          /\ Unanswered(e)' <=> Unanswered(e)
      BY <2>4, <3>1 DEF SubmitHas, SubmitOnce, Unanswered, OneHand, Once
    <3> QED BY <2>4, <3>1, <3>2, <3>3, <3>5, <3>6
            DEF OneHand, Once, NoOther, Held, throttle
  <2> QED BY <2>5, <2>6, <2>7, <2>8 DEF IInv, Control
<1> QED BY <1>4, <1>5 DEF DriverCompletesPoll

-----------------------------------------------------------------------------

\* A step outside of the SDK keeps all but the hands.
LEMMA ControlUnmoved ==
    ASSUME Control, WorldOK',
           UNCHANGED <<device, throttle, owner, poll, read, submit>>
    PROVE  Control'
<1>1. Typed'
  BY DEF Control, Typed, PollOK, ReadOK, SubmitOK, DeviceOK, device, throttle
<1>2. Phases'
  BY DEF Control, Phases, OwnerState, CreatedIsIdle, EventThreadGone,
         ReadThreadGone, AllGone, device, throttle
<1>3. Signals' /\ SubmitWhileRunning'
  BY DEF Control, Signals, OneSignal, SomebodyTakes, SubmitWhileRunning,
         device, throttle
<1> QED BY <1>1, <1>2, <1>3 DEF Control

\* VHF produces an event it did not wait on.
LEMMA VhfEventInv == IInv /\ VhfEvent => IInv'
<1> SUFFICES ASSUME IInv, VhfEvent PROVE IInv'
  OBVIOUS
<1>1. UNCHANGED <<device, throttle, owner, poll, read, submit, user>>
  BY DEF VhfEvent
<1>2. WorldOK /\ Control /\ Hands
  BY DEF IInv, Control, Typed
<1>3. PICK x \in Events :
         /\ ~Unanswered(x) /\ Unanswered(x)'
         /\ driver' = Append(driver, x)
         /\ \A e \in Events \ {x} : Unanswered(e)' <=> Unanswered(e)
         /\ output' \in [Outputs -> {"fresh", "pending", "done"}]
         /\ wanted' \in BOOLEAN
  <2>1. CASE \E e \in Outputs : /\ output[e] = "fresh"
                                /\ output' = [output EXCEPT ![e] = "pending"]
                                /\ driver' = Append(driver, e)
                                /\ UNCHANGED wanted
    <3>1. PICK x \in Outputs : /\ output[x] = "fresh"
                               /\ output' = [output EXCEPT ![x] = "pending"]
                               /\ driver' = Append(driver, x)
                               /\ UNCHANGED wanted
      BY <2>1
    <3>2. x \in Events /\ x # Ready
      BY ConstantFacts
    <3>3. ~Unanswered(x) /\ Unanswered(x)'
      BY <1>2, <3>1, <3>2 DEF Unanswered, WorldOK
    <3>4. \A e \in Events \ {x} : Unanswered(e)' <=> Unanswered(e)
      BY <1>2, <3>1, ConstantFacts DEF Unanswered, WorldOK
    <3>5. output' \in [Outputs -> {"fresh", "pending", "done"}]
          /\ wanted' \in BOOLEAN
      BY <1>2, <3>1 DEF WorldOK
    <3> QED BY <3>1, <3>2, <3>3, <3>4, <3>5
  <2>2. CASE /\ ~wanted
             /\ wanted' = TRUE
             /\ driver' = Append(driver, Ready)
             /\ UNCHANGED output
    BY <1>2, <2>2, ConstantFacts DEF Unanswered, WorldOK
  <2> QED BY <2>1, <2>2 DEF VhfEvent
<1>4. WorldOK'
  BY <1>1, <1>2, <1>3 DEF WorldOK
<1>5. Control'
  BY <1>1, <1>2, <1>4, ControlUnmoved
<1>6. Hands'
  <2> SUFFICES ASSUME NEW e \in Events PROVE OneHand(e)'
    BY DEF Hands
  <2>1. OneHand(e) /\ OneHand(x)
    BY <1>2 DEF Hands
  <2>2. ~Held(x) /\ ~DriverHas(x)
    BY <1>3, <2>1 DEF OneHand, Held
  <2>3. DriverOnce(e)' /\ (DriverHas(e)' <=> DriverHas(e) \/ e = x)
    BY <1>2, <1>3, <2>1, <2>2, AppendHas DEF WorldOK, OneHand, Once
  <2>4. /\ PollHas(e)' <=> PollHas(e)
        /\ PollOnce(e)'
        /\ SubmitHas(e)' <=> SubmitHas(e)
        /\ SubmitOnce(e)'
    BY <1>1, <2>1 DEF PollHas, PollOnce, SubmitHas, SubmitOnce, OneHand, Once
  <2> QED BY <1>1, <1>3, <2>1, <2>2, <2>3, <2>4
          DEF OneHand, Once, NoOther, Held, throttle
<1> QED BY <1>5, <1>6 DEF IInv

\* The caller completes an event it was given.
LEMMA UserCompletesInv == IInv /\ UserCompletes => IInv'
<1> SUFFICES ASSUME IInv, UserCompletes PROVE IInv'
  OBVIOUS
<1>1. UNCHANGED <<device, throttle, owner, poll, read, submit>>
  BY DEF UserCompletes
<1>2. WorldOK /\ Control /\ Hands
  BY DEF IInv, Control, Typed
<1>3. PICK x \in user, d \in BOOLEAN : user' = user \ {x} /\ CompleteEvent(x, d)
  BY DEF UserCompletes
<1>4. x \in Events
  BY <1>2 DEF WorldOK
<1>5. OneHand(x) /\ Unanswered(x) /\ ~DriverHas(x)
  BY <1>2, <1>4 DEF Hands, OneHand, Held, NoOther
<1>6. WorldOK'
  BY <1>2, <1>3, <1>4, CompleteEventTyped DEF WorldOK
<1>7. Control'
  BY <1>1, <1>2, <1>6, ControlUnmoved
<1>8. /\ \A e \in Events : DriverOnce(e)'
      /\ \A e \in Events \ {x} : /\ DriverHas(e)' <=> DriverHas(e)
                                 /\ Unanswered(e)' <=> Unanswered(e)
      /\ DriverHas(x)' <=> Unanswered(x)'
  <2>1. \A e \in Events : DriverOnce(e)
    BY <1>2 DEF Hands, OneHand, Once
  <2> QED BY <1>2, <1>3, <1>4, <1>5, <2>1, CompleteEventHas
<1>9. Hands'
  <2> SUFFICES ASSUME NEW e \in Events PROVE OneHand(e)'
    BY DEF Hands
  <2>1. OneHand(e)
    BY <1>2 DEF Hands
  <2>2. /\ PollHas(e)' <=> PollHas(e)
        /\ PollOnce(e)'
        /\ SubmitHas(e)' <=> SubmitHas(e)
        /\ SubmitOnce(e)'
    BY <1>1, <2>1 DEF PollHas, PollOnce, SubmitHas, SubmitOnce, OneHand, Once
  <2>3. (e \in user)' <=> e \in user /\ e # x
    BY <1>3
  <2>4. CASE e = x
    BY <1>1, <1>5, <1>8, <2>2, <2>3, <2>4
    DEF OneHand, Once, NoOther, Held, throttle
  <2>5. CASE e # x
    BY <1>1, <1>8, <2>1, <2>2, <2>3, <2>5
    DEF OneHand, Once, NoOther, Held, throttle
  <2> QED BY <2>4, <2>5
<1> QED BY <1>7, <1>9 DEF IInv

\* The caller is given the event of its poll.
LEMMA UserPollReturnsInv ==
    ASSUME IInv, NEW t \in Pollers, UserPollReturns(t)
    PROVE  IInv'
<1>1. /\ poll \in [Threads -> PollState] /\ t \in Threads
      /\ user \subseteq Events
      /\ poll[t].pc \in {"return", "fail"}
      /\ poll[t].event # NULL <=> poll[t].pc = "return"
  BY ConstantFacts DEF UserPollReturns, IInv, Control, Typed, PollOK, WorldOK
<1>2. UNCHANGED <<device, throttle, owner, read, submit, driver, output, wanted>>
  BY DEF UserPollReturns
<1>3. NoPoll \in PollState /\ NoPoll.pc = "out" /\ NoPoll.event = NULL
      /\ NoPoll.size = 1
  BY DEF NoPoll, PollState
<1>4. /\ poll' \in [Threads -> PollState]
      /\ poll'[t] = NoPoll
      /\ \A u \in Threads \ {t} : poll'[u] = poll[u]
  BY <1>1, <1>3, PollSet DEF UserPollReturns
<1> DEFINE x == poll[t].event
<1>5. x \in Events \cup {NULL}
  BY <1>1 DEF PollState
<1>6. user' = user \cup ({x} \ {NULL})
  BY DEF UserPollReturns
<1> HIDE DEF x
<1>7. Typed'
  BY <1>1, <1>2, <1>3, <1>4, <1>5, <1>6
  DEF IInv, Control, Typed, PollOK, ReadOK, SubmitOK, DeviceOK, WorldOK,
      device, throttle
<1>8. Phases'
  BY <1>1, <1>2, <1>3, <1>4, ConstantFacts
  DEF IInv, Control, Phases, OwnerState, CreatedIsIdle, EventThreadGone,
      ReadThreadGone, AllGone, device, throttle
<1>9. Signals' /\ SubmitWhileRunning'
  <2>1. poll'[EventThreadProc].pc = poll[EventThreadProc].pc
    BY <1>4, ConstantFacts
  <2> QED BY <1>2, <2>1
          DEF IInv, Control, Signals, OneSignal, SomebodyTakes,
              SubmitWhileRunning, device, throttle
<1>10. Hands'
  <2>1. CASE x = NULL
    <3>1. user' = user
      BY <1>6, <2>1
    <3>2. \A u \in Threads : poll'[u].event = poll[u].event
      BY <1>3, <1>4, <2>1 DEF x
    <3> QED BY <1>2, <3>1, <3>2, HandsUnmoved DEF IInv, world, throttle
  <2>2. CASE x \in Events
    <3> SUFFICES ASSUME NEW e \in Events PROVE OneHand(e)'
      BY DEF Hands
    <3>1. OneHand(e) /\ OneHand(x)
      BY <2>2 DEF IInv, Hands
    <3>2. PollHas(x)
      BY <1>1 DEF PollHas, x
    <3>3. PollOnce(e)' /\ (PollHas(e)' <=> PollHas(e) /\ e # x)
      BY <1>1, <1>3, <1>4, <2>2, <3>1, PollReleases DEF OneHand, Once, x
    <3>4. (e \in user)' <=> e \in user \/ e = x
      BY <1>6, <2>2, ConstantFacts
    <3>5. /\ DriverHas(e)' <=> DriverHas(e)
          /\ DriverOnce(e)'
          /\ SubmitHas(e)' <=> SubmitHas(e)
          /\ SubmitOnce(e)'
          /\ Unanswered(e)' <=> Unanswered(e)
      BY <1>2, <3>1 DEF DriverHas, DriverOnce, SubmitHas, SubmitOnce,
                        Unanswered, OneHand, Once
    <3> QED BY <1>2, <3>1, <3>2, <3>3, <3>4, <3>5
            DEF OneHand, Once, NoOther, Held, throttle
  <2> QED BY <1>5, <2>1, <2>2
<1> QED BY <1>7, <1>8, <1>9, <1>10 DEF IInv, Control

-----------------------------------------------------------------------------

\* SetEvent wakes the blocked read thread or leaves the event signalled.
LEMMA SetReadReportReadyEventFacts ==
    ASSUME ReadOK, ReadReportReadyEvent \in BOOLEAN, SetReadReportReadyEvent
    PROVE  /\ ReadOK'
           /\ read'.event = read.event
           /\ read'.pc \in {read.pc, "woken"}
           /\ read.pc \in {"none", "check", "exited"} => read'.pc = read.pc
           /\ \/ read'.pc = "woken" /\ read.pc = "blocked"
                 /\ ReadReportReadyEvent' = ReadReportReadyEvent
              \/ read'.pc = read.pc /\ ReadReportReadyEvent' = TRUE
<1>1. CASE read.pc = "blocked" /\ ReadGoto("woken") /\ UNCHANGED ReadReportReadyEvent
  BY <1>1 DEF ReadGoto, ReadOK, ReadState
<1>2. CASE read.pc # "blocked" /\ ReadReportReadyEvent' = TRUE /\ UNCHANGED read
  BY <1>2 DEF ReadOK
<1> QED BY <1>1, <1>2 DEF SetReadReportReadyEvent

\* The event thread fills the slot, which was empty, or calls back.
LEMMA HandleEventInv == IInv /\ HandleEvent => IInv'
<1> SUFFICES ASSUME IInv, HandleEvent PROVE IInv'
  OBVIOUS
<1> DEFINE T == EventThreadProc
           x == poll[T].event
<1>1. /\ poll \in [Threads -> PollState] /\ T \in Threads
      /\ poll[T].pc = "return" /\ x \in Events
  BY ConstantFacts DEF HandleEvent, IInv, Control, Typed, PollOK, PollState
<1>2. UNCHANGED <<device, ReadReportReadyEvent, ThrottlingTimer, owner, read,
                  submit, driver, output, wanted>>
  BY DEF HandleEvent
<1>3. /\ user' = IF x = Ready THEN user ELSE user \cup {x}
      /\ PendingReadReportEvent' =
            IF x = Ready THEN x ELSE PendingReadReportEvent
  BY DEF HandleEvent
<1> DEFINE r == [pc |-> IF x = Ready THEN "signal" ELSE "enter",
                 size |-> 1, event |-> NULL]
<1>4. r \in PollState /\ r.event = NULL
      /\ r.pc = IF x = Ready THEN "signal" ELSE "enter"
  BY DEF PollState
<1>5. poll' = [poll EXCEPT ![T] = r]
  BY DEF HandleEvent
<1> HIDE DEF r
<1>6. /\ poll' \in [Threads -> PollState]
      /\ poll'[T] = r
      /\ \A u \in Threads \ {T} : poll'[u] = poll[u]
  BY <1>1, <1>4, <1>5, PollSet
<1>7. State # "Created"
  BY <1>1, CreatedPolls
<1>8. OneHand(x)
  BY <1>1 DEF IInv, Hands
<1>9. PollHas(x)
  BY <1>1 DEF PollHas
<1>10. PendingReadReportEvent # x /\ x \notin user
  BY <1>8, <1>9 DEF OneHand, NoOther
<1> HIDE DEF x
<1>11. Typed'
  BY <1>1, <1>2, <1>3, <1>4, <1>6, ConstantFacts
  DEF IInv, Control, Typed, PollOK, ReadOK, SubmitOK, DeviceOK, WorldOK, device
<1>12. Phases'
  BY <1>1, <1>2, <1>4, <1>6, <1>7, ConstantFacts
  DEF IInv, Control, Phases, OwnerState, CreatedIsIdle, EventThreadGone,
      ReadThreadGone, AllGone, device
<1>13. Signals'
  <2> SUFFICES ASSUME State = "Started" PROVE OneSignal'
    BY <1>2 DEF Signals, device
  <2>1. OneSignal
    BY DEF IInv, Control, Signals
  <2>2. PendingReadReportEvent \in {Ready, NULL}
    BY DEF IInv, Control, Typed, DeviceOK
  <2>3. CASE x = Ready
    <3>1. PendingReadReportEvent = NULL
      BY <1>10, <2>2, <2>3
    <3> QED BY <1>2, <1>3, <1>4, <1>6, <2>1, <2>3, <3>1, ConstantFacts
            DEF OneSignal, SomebodyTakes
  <2>4. CASE x # Ready
    BY <1>1, <1>2, <1>3, <1>4, <1>6, <2>1, <2>4 DEF OneSignal, SomebodyTakes
  <2> QED BY <2>3, <2>4
<1>14. SubmitWhileRunning'
  BY <1>2 DEF IInv, Control, SubmitWhileRunning
<1>15. Hands'
  <2> SUFFICES ASSUME NEW e \in Events PROVE OneHand(e)'
    BY DEF Hands
  <2>1. OneHand(e)
    BY DEF IInv, Hands
  <2>2. PollOnce(e)' /\ (PollHas(e)' <=> PollHas(e) /\ e # x)
    BY <1>1, <1>4, <1>6, <2>1, PollReleases DEF OneHand, Once, x
  <2>3. /\ DriverHas(e)' <=> DriverHas(e)
        /\ DriverOnce(e)'
        /\ SubmitHas(e)' <=> SubmitHas(e)
        /\ SubmitOnce(e)'
        /\ Unanswered(e)' <=> Unanswered(e)
    BY <1>2, <2>1 DEF DriverHas, DriverOnce, SubmitHas, SubmitOnce,
                      Unanswered, OneHand, Once
  <2>4. PendingReadReportEvent \in {Ready, NULL} /\ read' = read
    BY <1>2 DEF IInv, Control, Typed, DeviceOK
  <2>5. CASE x = Ready
    <3>1. PendingReadReportEvent = NULL
      BY <1>10, <2>4, <2>5
    <3> QED BY <1>3, <1>8, <1>9, <2>1, <2>2, <2>3, <2>4, <2>5, <3>1, ConstantFacts
            DEF OneHand, Once, NoOther, Held
  <2>6. CASE x # Ready
    <3>1. (e \in user)' <=> e \in user \/ e = x
      BY <1>3, <2>6
    <3>2. PendingReadReportEvent' = PendingReadReportEvent
      BY <1>3, <2>6
    <3> QED BY <1>8, <1>9, <2>1, <2>2, <2>3, <2>4, <3>1, <3>2
            DEF OneHand, Once, NoOther, Held
  <2> QED BY <2>5, <2>6
<1> QED BY <1>11, <1>12, <1>13, <1>14, <1>15 DEF IInv, Control

\* The signal passes from the event thread to the event or the read thread.
LEMMA SignalReadThreadInv == IInv /\ SignalReadThread => IInv'
<1> SUFFICES ASSUME IInv, SignalReadThread PROVE IInv'
  OBVIOUS
<1> DEFINE T == EventThreadProc
<1>1. /\ poll \in [Threads -> PollState] /\ T \in Threads
      /\ poll[T].pc = "signal" /\ poll[T].event = NULL
      /\ PollGoto(T, "enter")
      /\ ReadOK /\ ReadReportReadyEvent \in BOOLEAN
  BY ConstantFacts DEF SignalReadThread, IInv, Control, Typed, PollOK, DeviceOK
<1>2. UNCHANGED <<device, PendingReadReportEvent, ThrottlingTimer, owner,
                  submit, world>>
  BY DEF SignalReadThread
<1>3. PICK r \in PollState : /\ poll' = [poll EXCEPT ![T] = r]
                             /\ r.pc = "enter" /\ r.event = NULL
  BY <1>1, PollGotoSets DEF PollLabels
<1>4. /\ poll' \in [Threads -> PollState]
      /\ poll'[T] = r
      /\ \A u \in Threads \ {T} : poll'[u] = poll[u]
  BY <1>1, <1>3, PollSet
<1>5. /\ ReadOK'
      /\ read'.event = read.event
      /\ read'.pc \in {read.pc, "woken"}
      /\ read.pc \in {"none", "check", "exited"} => read'.pc = read.pc
      /\ \/ read'.pc = "woken" /\ read.pc = "blocked"
            /\ ReadReportReadyEvent' = ReadReportReadyEvent
         \/ read'.pc = read.pc /\ ReadReportReadyEvent' = TRUE
  BY <1>1, SetReadReportReadyEventFacts DEF SignalReadThread
<1>6. State # "Created"
  BY <1>1, CreatedPolls
<1>7. Typed'
  <2>1. PollOK /\ SubmitOK /\ DeviceOK /\ WorldOK
    BY DEF IInv, Control, Typed
  <2>2. PollOK'
    BY <1>1, <1>3, <1>4, <2>1 DEF PollOK
  <2>3. SubmitOK' /\ WorldOK'
    BY <1>2, <2>1 DEF SubmitOK, WorldOK, world
  <2>4. DeviceOK'
    BY <1>1, <1>2, <1>5, <2>1 DEF DeviceOK, device
  <2> QED BY <1>5, <2>2, <2>3, <2>4 DEF Typed
<1>8. Phases'
  BY <1>1, <1>2, <1>3, <1>4, <1>5, <1>6
  DEF IInv, Control, Phases, OwnerState, CreatedIsIdle, EventThreadGone,
      ReadThreadGone, AllGone, device
<1>9. Signals' /\ SubmitWhileRunning'
  BY <1>1, <1>2, <1>3, <1>4, <1>5
  DEF IInv, Control, Signals, OneSignal, SomebodyTakes, SubmitWhileRunning,
      device
<1>10. Hands'
  <2>1. \A u \in Threads : poll'[u].event = poll[u].event
    BY <1>1, <1>3, <1>4
  <2> QED BY <1>2, <1>5, <2>1, HandsUnmoved DEF IInv
<1> QED BY <1>7, <1>8, <1>9, <1>10 DEF IInv, Control

LEMMA EventThreadStepInv == IInv /\ EventThreadStep => IInv'
BY HandleEventInv, SignalReadThreadInv, EventThreadExitsInv DEF EventThreadStep

-----------------------------------------------------------------------------

\* A step of the read thread between two labels that hold no event.
LEMMA ReadGotoMoves ==
    ASSUME IInv, NEW label \in {"check", "wait", "blocked", "arm", "delay", "exited"},
           ReadGoto(label),
           read.pc \notin {"none", "exited", "callback", "woken"},
           label = "exited" => State # "Started",
           State = "Created" => label = "exited",
           ThrottlingTimer' \in {"unset", "armed", "signalled"},
           UNCHANGED <<device, PendingReadReportEvent, ReadReportReadyEvent,
                       owner, poll, submit, world>>
    PROVE  IInv'
<1>1. read'.pc = label /\ read'.event = NULL /\ read' \in ReadState
  BY DEF ReadGoto, ReadState
<1>2. read.event = NULL
  BY DEF IInv, Control, Typed, ReadOK
<1>3. Typed'
  BY <1>1 DEF IInv, Control, Typed, PollOK, ReadOK, SubmitOK, DeviceOK,
              WorldOK, device, world
<1>4. Phases'
  BY <1>1 DEF IInv, Control, Phases, OwnerState, CreatedIsIdle,
              EventThreadGone, ReadThreadGone, AllGone, device
<1>5. Signals' /\ SubmitWhileRunning'
  BY <1>1 DEF IInv, Control, Signals, OneSignal, SomebodyTakes,
              SubmitWhileRunning, device
<1>6. Hands'
  BY <1>1, <1>2, HandsUnmoved DEF IInv
<1> QED BY <1>3, <1>4, <1>5, <1>6 DEF IInv, Control

\* The read thread consumes the signal, or blocks.
LEMMA ReadThreadWaitsInv == IInv /\ ReadThreadWaits => IInv'
<1> SUFFICES ASSUME IInv, ReadThreadWaits PROVE IInv'
  OBVIOUS
<1>1. UNCHANGED <<device, PendingReadReportEvent, ThrottlingTimer, owner,
                  poll, submit, world>>
  BY DEF ReadThreadWaits
<1>2. /\ read'.pc = IF ReadReportReadyEvent THEN "woken" ELSE "blocked"
      /\ read'.event = NULL /\ read' \in ReadState
      /\ ReadReportReadyEvent' = FALSE
      /\ read.pc = "wait"
  BY DEF ReadThreadWaits, ReadGoto, ReadState
<1>3. read.event = NULL /\ State # "Created"
  BY <1>2 DEF IInv, Control, Typed, ReadOK, Phases, CreatedIsIdle
<1>4. Typed'
  BY <1>1, <1>2 DEF IInv, Control, Typed, PollOK, ReadOK, SubmitOK, DeviceOK,
                    WorldOK, device, world
<1>5. Phases'
  BY <1>1, <1>2, <1>3
  DEF IInv, Control, Phases, OwnerState, CreatedIsIdle, EventThreadGone,
      ReadThreadGone, AllGone, device
<1>6. Signals' /\ SubmitWhileRunning'
  BY <1>1, <1>2 DEF IInv, Control, Signals, OneSignal, SomebodyTakes,
                    SubmitWhileRunning, device
<1>7. Hands'
  BY <1>1, <1>2, <1>3, HandsUnmoved DEF IInv
<1> QED BY <1>4, <1>5, <1>6, <1>7 DEF IInv, Control

\* The read thread takes the event out of the slot.
LEMMA ReadThreadTakesEventInv == IInv /\ ReadThreadTakesEvent => IInv'
<1> SUFFICES ASSUME IInv, ReadThreadTakesEvent PROVE IInv'
  OBVIOUS
<1> DEFINE x == PendingReadReportEvent
<1>1. UNCHANGED <<device, ReadReportReadyEvent, ThrottlingTimer, owner, poll,
                  submit, world>>
  BY DEF ReadThreadTakesEvent
<1>2. read.pc = "woken" /\ read.event = NULL /\ x \in {Ready, NULL}
  BY DEF ReadThreadTakesEvent, IInv, Control, Typed, ReadOK, DeviceOK
<1>3. /\ read'.pc = IF State # "Started" THEN "exited"
                    ELSE IF x = NULL THEN "wait" ELSE "callback"
      /\ read'.event = IF State # "Started" THEN NULL ELSE x
      /\ PendingReadReportEvent' = IF State # "Started" THEN x ELSE NULL
      /\ read' \in ReadState
  <2>1. CASE State # "Started"
    BY <2>1, <1>2 DEF ReadThreadTakesEvent, ReadGoto, ReadState
  <2>2. CASE State = "Started" /\ x = NULL
    BY <2>2, <1>2 DEF ReadThreadTakesEvent, ReadState
  <2>3. CASE State = "Started" /\ x # NULL
    BY <2>3, <1>2 DEF ReadThreadTakesEvent, ReadState
  <2> QED BY <2>1, <2>2, <2>3
<1>4. State # "Created"
  BY <1>2 DEF IInv, Control, Phases, CreatedIsIdle
<1>5. Typed'
  BY <1>1, <1>2, <1>3 DEF IInv, Control, Typed, PollOK, ReadOK, SubmitOK,
                          DeviceOK, WorldOK, device, world
<1>6. Phases'
  BY <1>1, <1>2, <1>3, <1>4
  DEF IInv, Control, Phases, OwnerState, CreatedIsIdle, EventThreadGone,
      ReadThreadGone, AllGone, device
<1>7. Signals' /\ SubmitWhileRunning'
  BY <1>1, <1>2, <1>3 DEF IInv, Control, Signals, OneSignal, SomebodyTakes,
                          SubmitWhileRunning, device
<1>8. Hands'
  <2> SUFFICES ASSUME NEW e \in Events PROVE OneHand(e)'
    BY DEF Hands
  <2>1. OneHand(e) /\ e # NULL
    BY ConstantFacts DEF IInv, Hands
  <2>2. /\ DriverHas(e)' <=> DriverHas(e)
        /\ PollHas(e)' <=> PollHas(e)
        /\ SubmitHas(e)' <=> SubmitHas(e)
        /\ Once(e)'
        /\ Unanswered(e)' <=> Unanswered(e)
        /\ user' = user
    BY <1>1, <2>1 DEF DriverHas, DriverOnce, PollHas, PollOnce, SubmitHas,
                      SubmitOnce, Unanswered, OneHand, Once, world
  <2> QED BY <1>2, <1>3, <2>1, <2>2 DEF OneHand, NoOther, Held
<1> QED BY <1>5, <1>6, <1>7, <1>8 DEF IInv, Control

\* The read thread gives the event to the caller.
LEMMA ReadThreadCallsBackInv == IInv /\ ReadThreadCallsBack => IInv'
<1> SUFFICES ASSUME IInv, ReadThreadCallsBack PROVE IInv'
  OBVIOUS
<1> DEFINE x == read.event
<1>1. UNCHANGED <<device, throttle, owner, poll, submit, driver, output, wanted>>
  BY DEF ReadThreadCallsBack
<1>2. read.pc = "callback" /\ x = Ready
  BY DEF ReadThreadCallsBack, IInv, Control, Typed, ReadOK, ReadState
<1>3. /\ read'.pc = "arm" /\ read'.event = NULL /\ read' \in ReadState
      /\ user' = user \cup {x}
  BY DEF ReadThreadCallsBack, ReadGoto, ReadState
<1>4. State # "Created"
  BY <1>2 DEF IInv, Control, Phases, CreatedIsIdle
<1>5. Typed'
  BY <1>1, <1>2, <1>3, ConstantFacts
  DEF IInv, Control, Typed, PollOK, ReadOK, SubmitOK, DeviceOK, WorldOK,
      device, throttle
<1>6. Phases'
  BY <1>1, <1>2, <1>3, <1>4
  DEF IInv, Control, Phases, OwnerState, CreatedIsIdle, EventThreadGone,
      ReadThreadGone, AllGone, device, throttle
<1>7. Signals' /\ SubmitWhileRunning'
  BY <1>1, <1>2, <1>3 DEF IInv, Control, Signals, OneSignal, SomebodyTakes,
                          SubmitWhileRunning, device, throttle
<1>8. Hands'
  <2> SUFFICES ASSUME NEW e \in Events PROVE OneHand(e)'
    BY DEF Hands
  <2>1. OneHand(e) /\ e # NULL
    BY ConstantFacts DEF IInv, Hands
  <2>2. /\ DriverHas(e)' <=> DriverHas(e)
        /\ PollHas(e)' <=> PollHas(e)
        /\ SubmitHas(e)' <=> SubmitHas(e)
        /\ Once(e)'
        /\ Unanswered(e)' <=> Unanswered(e)
    BY <1>1, <2>1 DEF DriverHas, DriverOnce, PollHas, PollOnce, SubmitHas,
                      SubmitOnce, Unanswered, OneHand, Once
  <2>3. (e \in user)' <=> e \in user \/ e = x
    BY <1>3
  <2> QED BY <1>1, <1>2, <1>3, <2>1, <2>2, <2>3
          DEF OneHand, NoOther, Held, throttle
<1> QED BY <1>5, <1>6, <1>7, <1>8 DEF IInv, Control

LEMMA ReadThreadStepInv == IInv /\ ReadThreadStep => IInv'
<1> SUFFICES ASSUME IInv, ReadThreadStep PROVE IInv'
  OBVIOUS
<1>1. ThrottlingTimer \in {"unset", "armed", "signalled"}
  BY DEF IInv, Control, Typed, DeviceOK
<1>2. State = "Created" => read.pc \in {"none", "check", "exited"}
  BY DEF IInv, Control, Phases, CreatedIsIdle
<1>3. CASE ReadThreadChecks
  <2> DEFINE label == IF State = "Started" THEN "wait" ELSE "exited"
  <2>1. label \in {"wait", "exited"} /\ ReadGoto(label)
        /\ (label = "exited" <=> State # "Started")
    BY <1>3 DEF ReadThreadChecks
  <2> HIDE DEF label
  <2> QED BY <1>1, <1>3, <2>1, ReadGotoMoves DEF ReadThreadChecks, throttle
<1>4. CASE ReadThreadWaits
  BY <1>4, ReadThreadWaitsInv
<1>5. CASE ReadThreadTakesEvent
  BY <1>5, ReadThreadTakesEventInv
<1>6. CASE ReadThreadCallsBack
  BY <1>6, ReadThreadCallsBackInv
<1>7. CASE ReadThreadArmsTimer
  BY <1>2, <1>7, ReadGotoMoves DEF ReadThreadArmsTimer
<1>8. CASE ReadThreadDelayEnds
  BY <1>1, <1>2, <1>8, ReadGotoMoves DEF ReadThreadDelayEnds, throttle
<1> QED BY <1>3, <1>4, <1>5, <1>6, <1>7, <1>8 DEF ReadThreadStep

\* A step that concerns the timer only.
LEMMA TimerMoves ==
    ASSUME IInv, ThrottlingTimer' \in {"armed", "signalled"},
           UNCHANGED <<device, PendingReadReportEvent, ReadReportReadyEvent,
                       poll, read, submit, world>>,
           owner' = owner \/ (owner = "signalTimer" /\ owner' = "joinReadThread")
    PROVE  IInv'
<1>1. Typed'
  BY DEF IInv, Control, Typed, PollOK, ReadOK, SubmitOK, DeviceOK, WorldOK,
         device, world
<1>2. Phases'
  BY DEF IInv, Control, Phases, OwnerState, CreatedIsIdle, EventThreadGone,
         ReadThreadGone, AllGone, device
<1>3. Signals' /\ SubmitWhileRunning'
  BY DEF IInv, Control, Signals, OneSignal, SomebodyTakes, SubmitWhileRunning,
         device
<1>4. Hands'
  BY HandsUnmoved DEF IInv
<1> QED BY <1>1, <1>2, <1>3, <1>4 DEF IInv, Control

LEMMA TimerExpiresInv == IInv /\ TimerExpires => IInv'
BY TimerMoves DEF TimerExpires

-----------------------------------------------------------------------------

\* What a step of a submitting call does to it.
LEMMA SubmitGotoFacts ==
    ASSUME SubmitOK, NEW s \in Submitters,
           NEW label \in {"out", "take", "complete", "rearm"},
           NEW e \in {Ready, NULL}, e # NULL <=> label = "complete",
           SubmitGoto(s, label, e)
    PROVE  /\ SubmitOK'
           /\ submit'[s].pc = label /\ submit'[s].event = e
           /\ \A u \in Submitters \ {s} : submit'[u] = submit[u]
BY DEF SubmitGoto, SubmitState, SubmitOK

\* A submitting call consumes the signal.
LEMMA SubmitInputReportInv ==
    ASSUME IInv, NEW s \in Submitters, SubmitInputReport(s)
    PROVE  IInv'
<1>1. UNCHANGED <<device, PendingReadReportEvent, ThrottlingTimer, owner,
                  poll, read, world>>
  BY DEF SubmitInputReport
<1>2. /\ submit[s].pc = "out" /\ submit[s].event = NULL
      /\ owner # "gone" /\ (SubmitAnyTime \/ owner = "run")
      /\ ReadReportReadyEvent /\ ReadReportReadyEvent' = FALSE
      /\ SubmitGoto(s, "take", NULL) /\ SubmitOK
  BY DEF SubmitInputReport, IInv, Control, Typed, SubmitOK
<1>3. /\ SubmitOK'
      /\ submit'[s].pc = "take" /\ submit'[s].event = NULL
      /\ \A u \in Submitters \ {s} : submit'[u] = submit[u]
  BY <1>2, SubmitGotoFacts
<1>4. State # "Created"
  BY <1>2 DEF IInv, Control, Phases, CreatedIsIdle
<1>5. Typed'
  BY <1>1, <1>2, <1>3 DEF IInv, Control, Typed, PollOK, ReadOK, DeviceOK,
                          WorldOK, device, world
<1>6. Phases'
  BY <1>1, <1>2, <1>3, <1>4
  DEF IInv, Control, Phases, OwnerState, CreatedIsIdle, EventThreadGone,
      ReadThreadGone, AllGone, device
<1>7. Signals'
  BY <1>1, <1>2, <1>3
  DEF IInv, Control, Signals, OneSignal, SomebodyTakes, device
<1>8. SubmitWhileRunning'
  BY <1>1, <1>2, <1>3 DEF IInv, Control, SubmitWhileRunning
<1>9. Hands'
  <2>1. \A u \in Submitters : submit'[u].event = submit[u].event
    BY <1>2, <1>3
  <2> QED BY <1>1, <2>1, HandsUnmoved DEF IInv
<1> QED BY <1>5, <1>6, <1>7, <1>8, <1>9 DEF IInv, Control

\* A submitting call takes the event out of the slot.
LEMMA SubmitTakesEventInv ==
    ASSUME IInv, NEW s \in Submitters, SubmitTakesEvent(s)
    PROVE  IInv'
<1> DEFINE x == PendingReadReportEvent
<1>1. UNCHANGED <<device, ReadReportReadyEvent, ThrottlingTimer, owner,
                  poll, read, world>>
  BY DEF SubmitTakesEvent
<1>2. /\ submit[s].pc = "take" /\ submit[s].event = NULL
      /\ x \in {Ready, NULL} /\ PendingReadReportEvent' = NULL
      /\ SubmitOK
  BY DEF SubmitTakesEvent, IInv, Control, Typed, SubmitOK, DeviceOK
<1>3. /\ SubmitOK'
      /\ submit'[s].pc = IF x = NULL THEN "out" ELSE "complete"
      /\ submit'[s].event = x
      /\ \A u \in Submitters \ {s} : submit'[u] = submit[u]
  <2>1. CASE x = NULL
    BY <1>2, <2>1, SubmitGotoFacts DEF SubmitTakesEvent
  <2>2. CASE x # NULL
    BY <1>2, <2>2, SubmitGotoFacts DEF SubmitTakesEvent
  <2> QED BY <2>1, <2>2
<1>4. State # "Created"
  BY <1>2 DEF IInv, Control, Phases, CreatedIsIdle
<1> HIDE DEF x
<1>5. Typed'
  BY <1>1, <1>2, <1>3 DEF IInv, Control, Typed, PollOK, ReadOK, DeviceOK,
                          WorldOK, device, world
<1>6. Phases'
  BY <1>1, <1>2, <1>3, <1>4
  DEF IInv, Control, Phases, OwnerState, CreatedIsIdle, EventThreadGone,
      ReadThreadGone, AllGone, device
<1>7. Signals'
  <2> SUFFICES ASSUME State = "Started" PROVE OneSignal'
    BY <1>1 DEF Signals, device
  <2>1. OneSignal
    BY DEF IInv, Control, Signals
  <2>2. \A u \in Submitters : submit'[u].pc # "take"
    BY <1>2, <1>3, <2>1 DEF OneSignal
  <2> QED BY <1>1, <1>2, <2>1, <2>2 DEF OneSignal, SomebodyTakes
<1>8. SubmitWhileRunning'
  BY <1>1, <1>2, <1>3 DEF IInv, Control, SubmitWhileRunning
<1>9. Hands'
  <2>1. CASE x = NULL
    <3>1. \A u \in Submitters : submit'[u].event = submit[u].event
      BY <1>2, <1>3, <2>1
    <3> QED BY <1>1, <1>2, <2>1, <3>1, HandsUnmoved DEF IInv, x
  <2>2. CASE x = Ready
    <3> SUFFICES ASSUME NEW e \in Events PROVE OneHand(e)'
      BY DEF Hands
    <3>1. OneHand(e) /\ OneHand(x) /\ x \in Events /\ e # NULL
      BY <2>2, ConstantFacts DEF IInv, Hands
    <3>2. ~SubmitHas(x)
      BY <3>1 DEF OneHand, NoOther, x
    <3>3. SubmitOnce(e)' /\ (SubmitHas(e)' <=> SubmitHas(e) \/ e = x)
      BY <1>2, <1>3, <3>1, <3>2, SubmitReceives DEF OneHand, Once
    <3>4. /\ DriverHas(e)' <=> DriverHas(e)
          /\ DriverOnce(e)'
          /\ PollHas(e)' <=> PollHas(e)
          /\ PollOnce(e)'
          /\ Unanswered(e)' <=> Unanswered(e)
          /\ user' = user
      BY <1>1, <3>1 DEF DriverHas, DriverOnce, PollHas, PollOnce, Unanswered,
                        OneHand, Once, world
    <3> QED BY <1>1, <1>2, <3>1, <3>3, <3>4
            DEF OneHand, Once, NoOther, Held, x
  <2> QED BY <1>2, <2>1, <2>2
<1> QED BY <1>5, <1>6, <1>7, <1>8, <1>9 DEF IInv, Control

\* A submitting call completes the event.
LEMMA SubmitCompletesEventInv ==
    ASSUME IInv, NEW s \in Submitters, SubmitCompletesEvent(s)
    PROVE  IInv'
<1>1. UNCHANGED <<device, throttle, owner, poll, read, user>>
  BY DEF SubmitCompletesEvent
<1>2. /\ submit[s].pc = "complete" /\ submit[s].event = Ready /\ Ready \in Events
      /\ SubmitOK /\ WorldOK /\ Hands
  BY ConstantFacts
  DEF SubmitCompletesEvent, IInv, Control, Typed, SubmitOK, SubmitState
<1>3. PICK d \in BOOLEAN : CompleteEvent(Ready, d)
  BY <1>2, DeviceAssumption DEF SubmitCompletesEvent
<1>4. /\ SubmitOK'
      /\ submit'[s].pc = "rearm" /\ submit'[s].event = NULL
      /\ \A u \in Submitters \ {s} : submit'[u] = submit[u]
  BY <1>2, SubmitGotoFacts DEF SubmitCompletesEvent
<1>5. State # "Created"
  BY <1>2 DEF IInv, Control, Phases, CreatedIsIdle
<1>6. OneHand(Ready) /\ SubmitHas(Ready)
  BY <1>2 DEF Hands, SubmitHas
<1>7. Unanswered(Ready) /\ ~DriverHas(Ready)
  BY <1>6 DEF OneHand, Held, NoOther
<1>8. WorldOK'
  BY <1>1, <1>2, <1>3, CompleteEventTyped DEF WorldOK
<1>9. Typed'
  BY <1>1, <1>4, <1>8
  DEF IInv, Control, Typed, PollOK, ReadOK, DeviceOK, device, throttle
<1>10. Phases'
  BY <1>1, <1>2, <1>4, <1>5
  DEF IInv, Control, Phases, OwnerState, CreatedIsIdle, EventThreadGone,
      ReadThreadGone, AllGone, device, throttle
<1>11. Signals'
  <2>1. SomebodyTakes' <=> SomebodyTakes
    BY <1>2, <1>4 DEF SomebodyTakes
  <2> QED BY <1>1, <1>2, <1>4, <2>1
          DEF IInv, Control, Signals, OneSignal, device, throttle
<1>12. SubmitWhileRunning'
  BY <1>1, <1>2, <1>4 DEF IInv, Control, SubmitWhileRunning
<1>13. /\ \A e \in Events : DriverOnce(e)'
       /\ \A e \in Events \ {Ready} : /\ DriverHas(e)' <=> DriverHas(e)
                                      /\ Unanswered(e)' <=> Unanswered(e)
       /\ DriverHas(Ready)' <=> Unanswered(Ready)'
  <2>1. \A e \in Events : DriverOnce(e)
    BY <1>2 DEF Hands, OneHand, Once
  <2>2. WorldOK /\ Ready \in Events
    BY <1>2
  <2> QED BY <1>3, <1>7, <2>1, <2>2, CompleteEventHas
<1>14. Hands'
  <2> SUFFICES ASSUME NEW e \in Events PROVE OneHand(e)'
    BY DEF Hands
  <2>1. OneHand(e)
    BY <1>2 DEF Hands
  <2>2. SubmitOnce(e)' /\ (SubmitHas(e)' <=> SubmitHas(e) /\ e # Ready)
    BY <1>2, <1>4, <2>1, SubmitReleases DEF OneHand, Once
  <2>3. PollOnce(e)' /\ (PollHas(e)' <=> PollHas(e))
    BY <1>1, <2>1 DEF PollHas, PollOnce, OneHand, Once
  <2>4. CASE e = Ready
    BY <1>1, <1>6, <1>13, <2>2, <2>3, <2>4
    DEF OneHand, Once, NoOther, Held, throttle
  <2>5. CASE e # Ready
    BY <1>1, <1>13, <2>1, <2>2, <2>3, <2>5
    DEF OneHand, Once, NoOther, Held, throttle
  <2> QED BY <2>4, <2>5
<1> QED BY <1>9, <1>10, <1>11, <1>12, <1>14 DEF IInv, Control

\* A submitting call rearms the timer and returns.
LEMMA SubmitRearmsTimerInv ==
    ASSUME IInv, NEW s \in Submitters, SubmitRearmsTimer(s)
    PROVE  IInv'
<1>1. UNCHANGED <<device, PendingReadReportEvent, ReadReportReadyEvent,
                  owner, poll, read, world>>
  BY DEF SubmitRearmsTimer
<1>2. /\ submit[s].pc = "rearm" /\ submit[s].event = NULL
      /\ ThrottlingTimer' = "armed" /\ SubmitOK
  BY DEF SubmitRearmsTimer, IInv, Control, Typed, SubmitOK
<1>3. /\ SubmitOK'
      /\ submit'[s].pc = "out" /\ submit'[s].event = NULL
      /\ \A u \in Submitters \ {s} : submit'[u] = submit[u]
  BY <1>2, SubmitGotoFacts DEF SubmitRearmsTimer
<1>4. Typed'
  BY <1>1, <1>2, <1>3 DEF IInv, Control, Typed, PollOK, ReadOK, DeviceOK,
                          WorldOK, device, world
<1>5. Phases'
  BY <1>1, <1>2, <1>3
  DEF IInv, Control, Phases, OwnerState, CreatedIsIdle, EventThreadGone,
      ReadThreadGone, AllGone, device
<1>6. Signals'
  <2>1. SomebodyTakes' <=> SomebodyTakes
    BY <1>2, <1>3 DEF SomebodyTakes
  <2> QED BY <1>1, <1>2, <1>3, <2>1
          DEF IInv, Control, Signals, OneSignal, device
<1>7. SubmitWhileRunning'
  BY <1>1, <1>2, <1>3 DEF IInv, Control, SubmitWhileRunning
<1>8. Hands'
  <2>1. \A u \in Submitters : submit'[u].event = submit[u].event
    BY <1>2, <1>3
  <2> QED BY <1>1, <2>1, HandsUnmoved DEF IInv
<1> QED BY <1>4, <1>5, <1>6, <1>7, <1>8 DEF IInv, Control

LEMMA SubmitInv ==
    ASSUME IInv, NEW s \in Submitters, SubmitInputReport(s) \/ SubmitStep(s)
    PROVE  IInv'
BY SubmitInputReportInv, SubmitTakesEventInv, SubmitCompletesEventInv,
   SubmitRearmsTimerInv
DEF SubmitStep

-----------------------------------------------------------------------------

\* The event thread is created, or the device has no callback.
LEMMA CreateEventThreadFacts ==
    ASSUME PollOK, poll[EventThreadProc].pc = "out", CreateEventThread
    PROVE  /\ EventCallback' \in BOOLEAN
           /\ PollOK'
           /\ poll'[EventThreadProc].pc \in {"out", "enter"}
           /\ \A t \in Threads : poll'[t].event = poll[t].event
           /\ \A t \in Threads \ {EventThreadProc} : poll'[t] = poll[t]
<1>1. poll \in [Threads -> PollState] /\ EventThreadProc \in Threads
      /\ poll[EventThreadProc].event = NULL
  BY ConstantFacts DEF PollOK
<1>2. CASE PollGoto(EventThreadProc, "enter")
  <2>1. PICK r \in PollState : /\ poll' = [poll EXCEPT ![EventThreadProc] = r]
                               /\ r.pc = "enter" /\ r.event = NULL
    BY <1>1, <1>2, PollGotoSets DEF PollLabels
  <2>2. /\ poll' \in [Threads -> PollState]
        /\ poll'[EventThreadProc] = r
        /\ \A u \in Threads \ {EventThreadProc} : poll'[u] = poll[u]
    BY <1>1, <2>1, PollSet
  <2> QED BY <1>1, <2>1, <2>2 DEF CreateEventThread, PollOK
<1>3. CASE UNCHANGED poll
  BY <1>3 DEF CreateEventThread, PollOK
<1> QED BY <1>2, <1>3 DEF CreateEventThread

\* A start, successful or not, finds the slot empty and nobody running.
LEMMA StartDeviceInv == IInv /\ (StartDevice \/ StartDeviceFails) => IInv'
<1> SUFFICES ASSUME IInv, StartDevice \/ StartDeviceFails PROVE IInv'
  OBVIOUS
<1>1. /\ owner = "created" /\ CreateEventThread
      /\ UNCHANGED <<EventBufferSizeHint, throttle, submit, world>>
  BY DEF StartDevice, StartDeviceFails
<1>2. /\ PollOK /\ poll[EventThreadProc].pc = "out"
      /\ State = "Created"
      /\ read.pc = "none" /\ read.event = NULL
      /\ \A s \in Submitters : submit[s].pc = "out"
      /\ PendingReadReportEvent = NULL /\ ~ReadReportReadyEvent
  BY <1>1 DEF IInv, Control, Typed, ReadOK, Phases, OwnerState, CreatedIsIdle,
              EventThreadGone, ReadThreadGone
<1>3. /\ EventCallback' \in BOOLEAN
      /\ PollOK'
      /\ poll'[EventThreadProc].pc \in {"out", "enter"}
      /\ \A t \in Threads : poll'[t].event = poll[t].event
      /\ \A t \in Threads \ {EventThreadProc} : poll'[t] = poll[t]
  BY <1>1, <1>2, CreateEventThreadFacts
<1>4. \A t \in Threads : poll'[t].pc \in {"out", "enter", "fail", "exited"}
  BY <1>2, <1>3, CreatedPolls
<1>5. /\ read'.pc \in {"none", "check"} /\ read'.event = NULL
      /\ read' \in ReadState
      /\ \/ State' = "Started" /\ owner' = "run" /\ read'.pc = "check"
         \/ State' = State /\ owner' = "joinFailedStart"
  BY DEF StartDevice, StartDeviceFails, ReadGoto, ReadState
<1>6. Typed'
  BY <1>1, <1>2, <1>3, <1>5
  DEF IInv, Control, Typed, ReadOK, SubmitOK, DeviceOK, WorldOK, throttle, world
<1>7. Phases'
  BY <1>1, <1>2, <1>3, <1>4, <1>5
  DEF Phases, OwnerState, CreatedIsIdle, EventThreadGone, ReadThreadGone,
      AllGone, throttle
<1>8. Signals' /\ SubmitWhileRunning'
  BY <1>1, <1>2, <1>3, <1>5, ConstantFacts
  DEF Signals, OneSignal, SomebodyTakes, SubmitWhileRunning, throttle
<1>9. Hands'
  BY <1>1, <1>2, <1>3, <1>5, HandsUnmoved DEF IInv, throttle
<1> QED BY <1>6, <1>7, <1>8, <1>9 DEF IInv, Control

\* The event thread is found to have exited, and its call is forgotten.
LEMMA JoinEventThreadFacts ==
    ASSUME PollOK, poll[EventThreadProc].pc \in {"out", "exited"},
           poll' = [poll EXCEPT ![EventThreadProc] = NoPoll]
    PROVE  /\ PollOK'
           /\ poll'[EventThreadProc].pc = "out"
           /\ \A t \in Threads : poll'[t].event = poll[t].event
           /\ \A t \in Threads \ {EventThreadProc} : poll'[t] = poll[t]
<1>1. NoPoll \in PollState /\ NoPoll.pc = "out" /\ NoPoll.event = NULL
  BY DEF NoPoll, PollState
<1>2. poll \in [Threads -> PollState] /\ EventThreadProc \in Threads
      /\ poll[EventThreadProc].event = NULL
  BY ConstantFacts DEF PollOK
<1>3. /\ poll' \in [Threads -> PollState]
      /\ poll'[EventThreadProc] = NoPoll
      /\ \A u \in Threads \ {EventThreadProc} : poll'[u] = poll[u]
  BY <1>1, <1>2, PollSet
<1> QED BY <1>1, <1>2, <1>3 DEF PollOK

\* A failed start has waited for its threads.
LEMMA StartDeviceUnwindsInv == IInv /\ StartDeviceUnwinds => IInv'
<1> SUFFICES ASSUME IInv, StartDeviceUnwinds PROVE IInv'
  OBVIOUS
<1>1. /\ owner = "joinFailedStart" /\ owner' = "created"
      /\ read.pc \in {"none", "exited"}
      /\ read'.pc = "none" /\ read'.event = NULL /\ read' \in ReadState
      /\ UNCHANGED <<device, throttle, submit, world>>
  BY DEF StartDeviceUnwinds, ReadGoto, ReadState
<1>2. PollOK /\ read.event = NULL /\ State = "Created"
  BY <1>1 DEF IInv, Control, Typed, ReadOK, Phases, OwnerState
<1>3. /\ PollOK'
      /\ poll'[EventThreadProc].pc = "out"
      /\ \A t \in Threads : poll'[t].event = poll[t].event
      /\ \A t \in Threads \ {EventThreadProc} : poll'[t] = poll[t]
  BY <1>2, JoinEventThreadFacts DEF StartDeviceUnwinds
<1>4. Typed'
  BY <1>1, <1>3 DEF IInv, Control, Typed, ReadOK, SubmitOK, DeviceOK, WorldOK,
                    device, throttle, world
<1>5. Phases'
  BY <1>1, <1>2, <1>3
  DEF IInv, Control, Phases, OwnerState, CreatedIsIdle, EventThreadGone,
      ReadThreadGone, AllGone, device, throttle
<1>6. Signals' /\ SubmitWhileRunning'
  BY <1>1, <1>2 DEF IInv, Control, Signals, SubmitWhileRunning, device
<1>7. Hands'
  BY <1>1, <1>2, <1>3, HandsUnmoved DEF IInv, throttle
<1> QED BY <1>4, <1>5, <1>6, <1>7 DEF IInv, Control

\* A stop leaves the slot and the signal as they are.
LEMMA StopDeviceInv == IInv /\ StopDevice => IInv'
<1> SUFFICES ASSUME IInv, StopDevice PROVE IInv'
  OBVIOUS
<1>1. /\ owner = "run" /\ owner' = "joinEventThread" /\ State' = "Stopped"
      /\ SubmitAnyTime \/ \A s \in Submitters : submit[s].pc = "out"
      /\ UNCHANGED <<EventCallback, EventBufferSizeHint, throttle, read,
                     submit, world>>
  BY DEF StopDevice
<1>2. PollOK
  BY DEF IInv, Control, Typed
<1>3. \A t \in Threads :
         /\ poll'[t] \in PollState
         /\ poll'[t].event = poll[t].event
         /\ poll'[t].size = poll[t].size
         /\ poll'[t].pc = IF poll[t].pc # "wait" THEN poll[t].pc
                          ELSE "interrupted"
  BY <1>2 DEF StopDevice, PollOK, PollState
<1>4. poll' \in [Threads -> PollState]
  BY <1>3 DEF StopDevice
<1>5. Typed'
  BY <1>1, <1>2, <1>3, <1>4
  DEF IInv, Control, Typed, PollOK, ReadOK, SubmitOK, DeviceOK, WorldOK,
      throttle, world
<1>6. Phases'
  BY <1>1, <1>3
  DEF IInv, Control, Phases, OwnerState, CreatedIsIdle, EventThreadGone,
      ReadThreadGone, AllGone, throttle
<1>7. Signals' /\ SubmitWhileRunning'
  BY <1>1 DEF Signals, SubmitWhileRunning
<1>8. Hands'
  BY <1>1, <1>3, HandsUnmoved DEF IInv, throttle
<1> QED BY <1>5, <1>6, <1>7, <1>8 DEF IInv, Control

\* The rest of a stop: the joins and the two signals that wake the threads.
LEMMA StopStepInv == IInv /\ StopStep => IInv'
<1> SUFFICES ASSUME IInv, StopStep PROVE IInv'
  OBVIOUS
<1>1. PollOK /\ ReadOK /\ ReadReportReadyEvent \in BOOLEAN
  BY DEF IInv, Control, Typed, DeviceOK
<1>2. CASE StopJoinsEventThread
  <2>1. /\ owner = "joinEventThread" /\ owner' = "signalEvent"
        /\ UNCHANGED <<device, throttle, read, submit, world>>
    BY <1>2 DEF StopJoinsEventThread
  <2>2. State = "Stopped"
    BY <2>1 DEF IInv, Control, Phases, OwnerState
  <2>3. /\ PollOK'
        /\ poll'[EventThreadProc].pc = "out"
        /\ \A t \in Threads : poll'[t].event = poll[t].event
        /\ \A t \in Threads \ {EventThreadProc} : poll'[t] = poll[t]
    BY <1>1, <1>2, JoinEventThreadFacts DEF StopJoinsEventThread
  <2>4. Typed'
    BY <2>1, <2>3 DEF IInv, Control, Typed, ReadOK, SubmitOK, DeviceOK,
                      WorldOK, device, throttle, world
  <2>5. Phases'
    BY <2>1, <2>2, <2>3
    DEF IInv, Control, Phases, OwnerState, CreatedIsIdle, EventThreadGone,
        ReadThreadGone, AllGone, device, throttle
  <2>6. Signals' /\ SubmitWhileRunning'
    BY <2>1, <2>2 DEF IInv, Control, Signals, SubmitWhileRunning, device
  <2>7. Hands'
    BY <2>1, <2>3, HandsUnmoved DEF IInv, throttle
  <2> QED BY <2>4, <2>5, <2>6, <2>7 DEF IInv, Control
<1>3. CASE StopSignalsEvent
  <2>1. /\ owner = "signalEvent" /\ owner' = "signalTimer"
        /\ UNCHANGED <<device, PendingReadReportEvent, ThrottlingTimer, poll,
                       submit, world>>
    BY <1>3 DEF StopSignalsEvent
  <2>2. State = "Stopped"
    BY <2>1 DEF IInv, Control, Phases, OwnerState
  <2>3. /\ ReadOK'
        /\ read'.event = read.event
        /\ ReadReportReadyEvent' \in BOOLEAN
    BY <1>1, <1>3, SetReadReportReadyEventFacts DEF StopSignalsEvent
  <2>4. Typed'
    BY <2>1, <2>3 DEF IInv, Control, Typed, PollOK, SubmitOK, DeviceOK,
                      WorldOK, device, world
  <2>5. Phases'
    BY <2>1, <2>2
    DEF IInv, Control, Phases, OwnerState, CreatedIsIdle, EventThreadGone,
        ReadThreadGone, AllGone, device
  <2>6. Signals' /\ SubmitWhileRunning'
    BY <2>1, <2>2 DEF IInv, Control, Signals, SubmitWhileRunning, device
  <2>7. Hands'
    BY <2>1, <2>3, HandsUnmoved DEF IInv
  <2> QED BY <2>4, <2>5, <2>6, <2>7 DEF IInv, Control
<1>4. CASE StopSignalsTimer
  BY <1>4, TimerMoves DEF StopSignalsTimer
<1>5. CASE StopJoinsReadThread
  <2>1. /\ owner = "joinReadThread" /\ owner' = "stopped"
        /\ read.pc = "exited"
        /\ read'.pc = "none" /\ read'.event = NULL /\ read' \in ReadState
        /\ UNCHANGED <<device, throttle, poll, submit, world>>
    BY <1>5 DEF StopJoinsReadThread, ReadGoto, ReadState
  <2>2. State = "Stopped" /\ read.event = NULL
    BY <1>1, <2>1 DEF IInv, Control, Phases, OwnerState, ReadOK
  <2>3. Typed'
    BY <2>1 DEF IInv, Control, Typed, PollOK, ReadOK, SubmitOK, DeviceOK,
                WorldOK, device, throttle, world
  <2>4. Phases'
    BY <2>1, <2>2
    DEF IInv, Control, Phases, OwnerState, CreatedIsIdle, EventThreadGone,
        ReadThreadGone, AllGone, device, throttle
  <2>5. Signals' /\ SubmitWhileRunning'
    BY <2>1, <2>2 DEF IInv, Control, Signals, SubmitWhileRunning, device
  <2>6. Hands'
    BY <2>1, <2>2, HandsUnmoved DEF IInv, throttle
  <2> QED BY <2>3, <2>4, <2>5, <2>6 DEF IInv, Control
<1> QED BY <1>2, <1>3, <1>4, <1>5 DEF StopStep

\* The pending event of a device that is destroyed goes back to the driver.
LEMMA DestroyDeviceInv == IInv /\ DestroyDevice => IInv'
<1> SUFFICES ASSUME IInv, DestroyDevice PROVE IInv'
  OBVIOUS
<1>1. /\ owner \in {"created", "stopped"} /\ owner' = "gone"
      /\ \A t \in Pollers : poll[t].pc = "out"
      /\ \A s \in Submitters : submit[s].pc = "out"
      /\ PendingReadReportEvent' = NULL
      /\ UNCHANGED <<device, ReadReportReadyEvent, ThrottlingTimer, poll,
                     read, submit, user>>
  BY DEF DestroyDevice
<1>2. /\ WorldOK /\ Hands /\ PendingReadReportEvent \in {Ready, NULL}
      /\ State # "Started"
      /\ read.pc = "none" /\ poll[EventThreadProc].pc = "out"
  BY <1>1 DEF IInv, Control, Typed, DeviceOK, Phases, OwnerState,
              EventThreadGone, ReadThreadGone
<1>3. /\ WorldOK'
      /\ \A e \in Events : DriverOnce(e)'
      /\ \A e \in Events \ {Ready} : /\ DriverHas(e)' <=> DriverHas(e)
                                     /\ Unanswered(e)' <=> Unanswered(e)
      /\ IF PendingReadReportEvent = Ready
         THEN DriverHas(Ready)' <=> Unanswered(Ready)'
         ELSE /\ DriverHas(Ready)' <=> DriverHas(Ready)
              /\ Unanswered(Ready)' <=> Unanswered(Ready)
  <2>1. CASE PendingReadReportEvent = Ready
    <3>1. CompleteEvent(Ready, FALSE) /\ Ready \in Events
      BY <2>1, ConstantFacts DEF DestroyDevice
    <3>2. Unanswered(Ready) /\ ~DriverHas(Ready)
      BY <1>2, <2>1, <3>1 DEF Hands, OneHand, Held, NoOther
    <3>3. \A e \in Events : DriverOnce(e)
      BY <1>2 DEF Hands, OneHand, Once
    <3>4. WorldOK
      BY <1>2
    <3>5. WorldOK'
      BY <1>1, <3>1, <3>4, CompleteEventTyped DEF WorldOK
    <3>6. /\ \A e \in Events : DriverOnce(e)'
          /\ \A e \in Events \ {Ready} : /\ DriverHas(e)' <=> DriverHas(e)
                                         /\ Unanswered(e)' <=> Unanswered(e)
          /\ DriverHas(Ready)' <=> Unanswered(Ready)'
      BY <3>1, <3>2, <3>3, <3>4, CompleteEventHas
    <3> QED BY <2>1, <3>5, <3>6
  <2>2. CASE PendingReadReportEvent = NULL
    <3>1. UNCHANGED <<driver, output, wanted, user>>
      BY <1>1, <2>2 DEF DestroyDevice
    <3>2. \A e \in Events : DriverOnce(e)
      BY <1>2 DEF Hands, OneHand, Once
    <3> QED BY <1>2, <2>2, <3>1, <3>2, ConstantFacts
            DEF DriverHas, DriverOnce, Unanswered, WorldOK
  <2> QED BY <1>2, <2>1, <2>2
<1>4. Typed'
  BY <1>1, <1>3 DEF IInv, Control, Typed, PollOK, ReadOK, SubmitOK, DeviceOK,
                    device
<1>5. Phases'
  BY <1>1, <1>2, ConstantFacts
  DEF IInv, Control, Phases, OwnerState, CreatedIsIdle, EventThreadGone,
      ReadThreadGone, AllGone, device, Threads
<1>6. Signals' /\ SubmitWhileRunning'
  BY <1>1, <1>2 DEF IInv, Control, Signals, SubmitWhileRunning, device
<1>7. Hands'
  <2> SUFFICES ASSUME NEW e \in Events PROVE OneHand(e)'
    BY DEF Hands
  <2>1. OneHand(e) /\ e # NULL
    BY <1>2, ConstantFacts DEF Hands
  <2>2. /\ PollHas(e)' <=> PollHas(e)
        /\ PollOnce(e)'
        /\ SubmitHas(e)' <=> SubmitHas(e)
        /\ SubmitOnce(e)'
    BY <1>1, <2>1 DEF PollHas, PollOnce, SubmitHas, SubmitOnce, OneHand, Once
  <2>3. CASE e = PendingReadReportEvent
    <3>1. e = Ready
      BY <1>2, <2>1, <2>3
    <3> QED BY <1>1, <1>3, <2>1, <2>2, <2>3, <3>1
            DEF OneHand, Once, NoOther, Held
  <2>4. CASE e # PendingReadReportEvent
    <3>1. /\ DriverHas(e)' <=> DriverHas(e)
          /\ Unanswered(e)' <=> Unanswered(e)
      BY <1>2, <1>3, <2>4
    <3> QED BY <1>1, <1>3, <2>1, <2>2, <2>4, <3>1
            DEF OneHand, Once, NoOther, Held
  <2> QED BY <2>3, <2>4
<1> QED BY <1>4, <1>5, <1>6, <1>7 DEF IInv, Control

-----------------------------------------------------------------------------

\* The device as it was created.
LEMMA InitInv == Init => IInv
<1> SUFFICES ASSUME Init PROVE IInv
  OBVIOUS
<1>1. /\ \A t \in Threads : poll[t] = NoPoll
      /\ NoPoll \in PollState /\ NoPoll.pc = "out" /\ NoPoll.event = NULL
      /\ \A s \in Submitters : /\ submit[s].pc = "out"
                               /\ submit[s].event = NULL
      /\ read.pc = "none" /\ read.event = NULL
  BY DEF Init, NoPoll, PollState
<1>2. Typed
  <2>1. PollOK
    BY <1>1 DEF Init, PollOK
  <2>2. ReadOK /\ SubmitOK
    BY <1>1 DEF Init, ReadOK, ReadState, SubmitOK, SubmitState
  <2>3. DeviceOK
    BY DEF Init, DeviceOK
  <2>4. WorldOK
    <3>1. output \in [Outputs -> {"fresh", "pending", "done"}]
      BY DEF Init
    <3>2. driver \in Seq(Events)
      BY DEF Init
    <3>3. wanted \in BOOLEAN /\ user \subseteq Events
      BY DEF Init
    <3> QED BY <3>1, <3>2, <3>3 DEF WorldOK
  <2> QED BY <2>1, <2>2, <2>3, <2>4 DEF Typed
<1>3. Phases
  BY <1>1, ConstantFacts
  DEF Init, Phases, OwnerState, CreatedIsIdle, EventThreadGone,
      ReadThreadGone, AllGone
<1>4. Signals /\ SubmitWhileRunning
  BY <1>1 DEF Init, Signals, SubmitWhileRunning
<1>5. Hands
  <2> SUFFICES ASSUME NEW e \in Events PROVE OneHand(e)
    BY DEF Hands
  <2>1. e # NULL
    BY ConstantFacts
  <2>2. ~DriverHas(e) /\ DriverOnce(e)
    BY DEF Init, DriverHas, DriverOnce
  <2>3. ~PollHas(e) /\ PollOnce(e) /\ ~SubmitHas(e) /\ SubmitOnce(e)
    BY <1>1, <2>1 DEF PollHas, PollOnce, SubmitHas, SubmitOnce
  <2>4. ~Unanswered(e)
    BY ConstantFacts DEF Init, Unanswered
  <2> QED BY <1>1, <2>1, <2>2, <2>3, <2>4
          DEF Init, OneHand, Once, NoOther, Held
<1> QED BY <1>2, <1>3, <1>4, <1>5 DEF IInv, Control

LEMMA IInvUnchanged == IInv /\ UNCHANGED vars => IInv'
<1> SUFFICES ASSUME IInv, UNCHANGED vars PROVE IInv'
  OBVIOUS
<1>1. UNCHANGED <<device, throttle, owner, poll, read, submit, world>>
  BY DEF vars
<1>2. WorldOK'
  BY <1>1 DEF IInv, Control, Typed, WorldOK, world
<1>3. Control'
  BY <1>1, <1>2, ControlUnmoved DEF IInv
<1>4. Hands'
  BY <1>1, HandsUnmoved DEF IInv, throttle
<1> QED BY <1>3, <1>4 DEF IInv

\* Every step keeps the invariant.
LEMMA IInvStep == IInv /\ [Next]_vars => IInv'
<1> SUFFICES ASSUME IInv, [Next]_vars PROVE IInv'
  OBVIOUS
<1>1. CASE VhfEvent
  BY <1>1, VhfEventInv
<1>2. CASE UserCompletes
  BY <1>2, UserCompletesInv
<1>3. CASE \E t \in Threads : PollStep(t) \/ PollTimesOut(t) \/ PollFails(t)
  BY <1>3, PollStepInv
<1>4. CASE \E t \in Threads : DriverCompletesPoll(t)
  BY <1>4, DriverCompletesPollInv
<1>5. CASE \E t \in Pollers : UserPolls(t) \/ UserPollReturns(t)
  BY <1>5, UserPollsInv, UserPollReturnsInv
<1>6. CASE EventThreadStep
  BY <1>6, EventThreadStepInv
<1>7. CASE ReadThreadStep \/ TimerExpires
  BY <1>7, ReadThreadStepInv, TimerExpiresInv
<1>8. CASE \E s \in Submitters : SubmitInputReport(s) \/ SubmitStep(s)
  BY <1>8, SubmitInv
<1>9. CASE StartDevice \/ StartDeviceFails \/ StartDeviceUnwinds
  BY <1>9, StartDeviceInv, StartDeviceUnwindsInv
<1>10. CASE StopDevice \/ StopStep \/ DestroyDevice
  BY <1>10, StopDeviceInv, StopStepInv, DestroyDeviceInv
<1>11. CASE UNCHANGED vars
  BY <1>11, IInvUnchanged
<1> QED
  BY <1>1, <1>2, <1>3, <1>4, <1>5, <1>6, <1>7, <1>8, <1>9, <1>10, <1>11
  DEF Next, Destroyed

\* IInv holds in every state of the device.
THEOREM IInvInvariant == Spec => []IInv
BY InitInv, IInvStep, PTL DEF Spec

\* Every variable of the device keeps its type: in particular no NULL event is
\* handed to the caller and the buffer size is doubled once at most.
THEOREM TypeInvariant == Spec => []TypeOK
<1>1. IInv => TypeOK
  BY DEF IInv, Control, Typed, PollOK, ReadOK, ReadState, SubmitOK,
         SubmitState, DeviceOK, WorldOK, TypeOK
<1> QED BY <1>1, IInvInvariant, PTL

\* An event that is in one hand has one holder.
LEMMA HoldersOf ==
    ASSUME Typed, NEW e \in Events, Once(e), NoOther(e)
    PROVE  Cardinality(Holders(e)) = IF Held(e) THEN 1 ELSE 0
<1>1. CASE ~Held(e)
  <2>1. Holders(e) = {}
    BY <1>1 DEF Holders, Held, DriverHas, PollHas, SubmitHas
  <2> QED BY <1>1, <2>1, FS_EmptySet
<1>2. CASE Held(e)
  <2> DEFINE D == {<<"driver", i>> : i \in {k \in DOMAIN driver : driver[k] = e}}
             P == {<<"poll", t>> : t \in {x \in Threads : poll[x].event = e}}
             S == {<<"submit", s>> : s \in {x \in Submitters : submit[x].event = e}}
             L == {h \in {<<"slot", NULL>>} : PendingReadReportEvent = e}
             R == {h \in {<<"read", NULL>>} : read.event = e}
             U == {h \in {<<"user", NULL>>} : e \in user}
  <2>1. Holders(e) = D \cup P \cup S \cup L \cup R \cup U
    BY DEF Holders
  <2>2. /\ IF DriverHas(e) THEN \E h : D = {h} ELSE D = {}
        /\ IF PollHas(e) THEN \E h : P = {h} ELSE P = {}
        /\ IF SubmitHas(e) THEN \E h : S = {h} ELSE S = {}
    <3>1. IF DriverHas(e) THEN \E h : D = {h} ELSE D = {}
      <4>1. CASE DriverHas(e)
        <5>1. PICK i \in DOMAIN driver : driver[i] = e
          BY <4>1 DEF DriverHas
        <5>2. {k \in DOMAIN driver : driver[k] = e} = {i}
          BY <5>1 DEF Once, DriverOnce
        <5>3. D = {<<"driver", i>>}
          BY <5>2
        <5> QED BY <4>1, <5>3
      <4>2. CASE ~DriverHas(e)
        BY <4>2 DEF DriverHas
      <4> QED BY <4>1, <4>2
    <3>2. IF PollHas(e) THEN \E h : P = {h} ELSE P = {}
      <4>1. CASE PollHas(e)
        <5>1. PICK t \in Threads : poll[t].event = e
          BY <4>1 DEF PollHas
        <5>2. {x \in Threads : poll[x].event = e} = {t}
          BY <5>1 DEF Once, PollOnce
        <5>3. P = {<<"poll", t>>}
          BY <5>2
        <5> QED BY <4>1, <5>3
      <4>2. CASE ~PollHas(e)
        BY <4>2 DEF PollHas
      <4> QED BY <4>1, <4>2
    <3>3. IF SubmitHas(e) THEN \E h : S = {h} ELSE S = {}
      <4>1. CASE SubmitHas(e)
        <5>1. PICK s \in Submitters : submit[s].event = e
          BY <4>1 DEF SubmitHas
        <5>2. {x \in Submitters : submit[x].event = e} = {s}
          BY <5>1 DEF Once, SubmitOnce
        <5>3. S = {<<"submit", s>>}
          BY <5>2
        <5> QED BY <4>1, <5>3
      <4>2. CASE ~SubmitHas(e)
        BY <4>2 DEF SubmitHas
      <4> QED BY <4>1, <4>2
    <3> QED BY <3>1, <3>2, <3>3
  <2>3. /\ IF PendingReadReportEvent = e THEN \E h : L = {h} ELSE L = {}
        /\ IF read.event = e THEN \E h : R = {h} ELSE R = {}
        /\ IF e \in user THEN \E h : U = {h} ELSE U = {}
    OBVIOUS
  <2> HIDE DEF D, P, S, L, R, U
  <2>4. \E h : D \cup P \cup S \cup L \cup R \cup U = {h}
    BY <1>2, <2>2, <2>3 DEF Held, NoOther
  <2>5. Cardinality(Holders(e)) = 1
    BY <2>1, <2>4, FS_Singleton
  <2> QED BY <1>2, <2>5
<1> QED BY <1>1, <1>2

\* Whatever the interleaving of polls, read thread, submitted reports, stop and
\* destruction, an event VHF waits on is in one pair of hands, and no event is
\* completed and freed twice.
THEOREM EventInOneHandInvariant == Spec => []EventInOneHand
<1>1. IInv => EventInOneHand
  BY HoldersOf DEF IInv, Control, Hands, OneHand, EventInOneHand
<1> QED BY <1>1, IInvInvariant, PTL

\* A pending event of a running device never waits for a signal nobody gives.
THEOREM PendingEventIsSignalledInvariant == Spec => []PendingEventIsSignalled
<1>1. IInv => PendingEventIsSignalled
  BY DEF IInv, Control, Signals, OneSignal, SomebodyTakes,
         PendingEventIsSignalled
<1> QED BY <1>1, IInvInvariant, PTL

\* The "should never happen" branch of ReadThreadProc (WinUHid.cpp:327) is not
\* reached while the device runs.
THEOREM ReadThreadFindsEventInvariant == Spec => []ReadThreadFindsEvent
<1>1. IInv => ReadThreadFindsEvent
  BY DEF IInv, Control, Signals, OneSignal, ReadThreadFindsEvent
<1> QED BY <1>1, IInvInvariant, PTL

\* The "should be impossible" branch of WinUHidSubmitInputReport
\* (WinUHid.cpp:255) is not reached when no report is submitted while or after
\* the device is being stopped.  With such reports it is.
THEOREM SubmitFindsEventInvariant ==
    ASSUME ~SubmitAnyTime PROVE Spec => []SubmitFindsEvent
<1>1. IInv => SubmitFindsEvent
  BY DEF IInv, Control, Phases, OwnerState, Signals, OneSignal, SomebodyTakes,
         SubmitWhileRunning, SubmitFindsEvent
<1> QED BY <1>1, IInvInvariant, PTL

\* WinUHidDestroyDevice frees the device when no thread of the SDK is left.
THEOREM DestroyedDeviceUnusedInvariant == Spec => []DestroyedDeviceUnused
<1>1. IInv => DestroyedDeviceUnused
  BY DEF IInv, Control, Phases, AllGone, ReadThreadGone, DestroyedDeviceUnused
<1> QED BY <1>1, IInvInvariant, PTL
=============================================================================
