-------------------------- MODULE WinUHidXOne_proofs --------------------------
(***************************************************************************)
(* Proofs of the safety of the Xbox One preset's rumble thread, for any    *)
(* set of output reports a HID client may write.                           *)
(***************************************************************************)
EXTENDS WinUHidXOne, TLAPS

Labels == {"start", "check", "wait", "load", "effect", "delay", "play", "on", "exited"}

ThreadType == [pc : Labels, report : Reports \cup {NoReport},
               repeat : Nat, round : Nat, due : Nat, on : Nat]

\* The type invariant, with the counters of the thread.
Types == TypeOK /\ thread \in ThreadType

LEMMA ReportFields ==
    ASSUME NEW r \in Reports \cup {NoReport}
    PROVE  /\ r.motors \in Amplitudes \cup {Zero}
           /\ r.Duration \in Nat /\ r.Delay \in Nat /\ r.Repeat \in Nat
  BY XOneAssumption DEF ReportType, NoReport

\* What every step of the thread relies on: it may go to any label.
LEMMA GotoFacts ==
    ASSUME NEW label \in Labels, thread \in ThreadType, Goto(label)
    PROVE  /\ thread' \in ThreadType
           /\ thread'.pc = label
           /\ thread'.report = thread.report /\ thread'.repeat = thread.repeat
           /\ thread'.round = thread.round
           /\ thread'.due = thread.due /\ thread'.on = thread.on
  BY DEF Goto, ThreadType

LEMMA ThreadTypes == Types /\ ThreadStep => thread' \in ThreadType
<1> SUFFICES ASSUME Types, ThreadStep PROVE thread' \in ThreadType
  OBVIOUS
<1> USE DEF Types
<1>1. CASE StartThread
  BY <1>1, GotoFacts DEF StartThread, Labels
<1>2. CASE CheckStopping
  BY <1>2, GotoFacts DEF CheckStopping, Labels
<1>3. CASE WaitForReport
  BY <1>3, GotoFacts DEF WaitForReport, Labels
<1>4. CASE LoadReport
  BY <1>4, ReportFields DEF LoadReport, TypeOK, ThreadType, Labels
<1>5. CASE PlayNothing
  BY <1>5, GotoFacts DEF PlayNothing, Labels
<1>6. CASE BeginRound
  BY <1>6, GotoFacts DEF BeginRound, Labels
<1>7. CASE Interrupted
  BY <1>7, GotoFacts DEF Interrupted, Labels
<1>8. CASE DelayEnds
  BY <1>8, GotoFacts DEF DelayEnds, Labels
<1>9. CASE PlayMotors
  <2> DEFINE consolidated == thread.report.Duration * (thread.repeat + 1)
  <2>1. thread.report.Duration \in Nat /\ thread.repeat + 1 \in Nat
    BY ReportFields DEF ThreadType
  <2>2. consolidated \in Nat
    BY <2>1
  <2> HIDE DEF consolidated
  <2>3. \/ thread' = [thread EXCEPT !.pc = "on", !.repeat = 0, !.due = consolidated]
        \/ thread' = [thread EXCEPT !.pc = "on", !.due = thread.report.Duration]
    BY <1>9 DEF PlayMotors, consolidated
  <2>4. CASE thread' = [thread EXCEPT !.pc = "on", !.repeat = 0, !.due = consolidated]
    BY <2>2, <2>4 DEF ThreadType, Labels
  <2>5. CASE thread' = [thread EXCEPT !.pc = "on", !.due = thread.report.Duration]
    BY <2>1, <2>5 DEF ThreadType, Labels
  <2> QED
    BY <2>3, <2>4, <2>5
<1>10. CASE RoundEnds
  <2> DEFINE label == IF thread.round < thread.repeat THEN "effect" ELSE "check"
  <2>1. thread.round + 1 \in Nat /\ thread.on + thread.due \in Nat
    BY DEF ThreadType
  <2>2. label \in Labels
    BY DEF Labels
  <2> HIDE DEF label
  <2>3. thread' = [thread EXCEPT !.pc = label, !.round = thread.round + 1,
                                 !.due = 0, !.on = thread.on + thread.due]
    BY <1>10 DEF RoundEnds, label
  <2> QED
    BY <2>1, <2>2, <2>3 DEF ThreadType
<1> QED
  BY <1>1, <1>2, <1>3, <1>4, <1>5, <1>6, <1>7, <1>8, <1>9, <1>10 DEF ThreadStep

LEMMA StepTypes == Types /\ [Next]_vars => Types'
<1> SUFFICES ASSUME Types, [Next]_vars PROVE Types'
  OBVIOUS
<1> USE DEF Types
<1>1. thread' \in ThreadType
  <2>1. CASE ThreadStep
    BY <2>1, ThreadTypes
  <2>2. CASE UNCHANGED thread
    BY <2>2
  <2> QED
    BY <2>1, <2>2 DEF Next, vars, gamepad, player, StoreReport, SignalReport,
       TimerExpires, StartDevice, Destroy, DestroySignals, DestroyJoins,
       DestroyDevice, Destroyed
<1>2. motors' \in Amplitudes \cup {Zero}
  <2>1. thread.report.motors \in Amplitudes \cup {Zero}
    BY ReportFields DEF ThreadType
  <2> QED
    BY <2>1 DEF TypeOK, Next, ThreadStep, vars, gamepad, player, StoreReport,
       SignalReport, TimerExpires, StartDevice, Destroy, DestroySignals,
       DestroyJoins, DestroyDevice, Destroyed, StartThread, CheckStopping,
       WaitForReport, LoadReport, PlayNothing, BeginRound, Interrupted,
       DelayEnds, PlayMotors, RoundEnds
<1>3. timer' \in {"unset", "armed", "signalled"}
  BY DEF TypeOK, Next, ThreadStep, vars, gamepad, player, StoreReport,
     SignalReport, TimerExpires, StartDevice, Destroy, DestroySignals,
     DestroyJoins, DestroyDevice, Destroyed, StartThread, CheckStopping,
     WaitForReport, LoadReport, PlayNothing, BeginRound, Interrupted,
     DelayEnds, PlayMotors, RoundEnds
<1>4. /\ RumbleState' \in Reports \cup {NoReport}
      /\ RumbleUpdatedEvent' \in BOOLEAN
      /\ Stopping' \in BOOLEAN
      /\ owner' \in {"create", "run", "signal", "join", "destroyDevice", "gone"}
      /\ callback' \in {"idle", "set"}
  BY DEF TypeOK, Next, ThreadStep, vars, gamepad, player, StoreReport,
     SignalReport, TimerExpires, StartDevice, Destroy, DestroySignals,
     DestroyJoins, DestroyDevice, Destroyed, StartThread, CheckStopping,
     WaitForReport, LoadReport, PlayNothing, BeginRound, Interrupted,
     DelayEnds, PlayMotors, RoundEnds
<1>5. thread'.pc \in Labels /\ thread'.report \in Reports \cup {NoReport}
  BY <1>1 DEF ThreadType
<1> QED
  BY <1>1, <1>2, <1>3, <1>4, <1>5 DEF TypeOK, Labels

LEMMA InitTypes == Init => Types
<1> SUFFICES ASSUME Init PROVE Types
  OBVIOUS
<1>1. thread \in ThreadType /\ thread.pc = "start" /\ thread.report = NoReport
  BY DEF Init, ThreadType, Labels
<1> QED
  BY <1>1 DEF Init, Types, TypeOK

LEMMA TypesAlways == Spec => []Types
  BY InitTypes, StepTypes, PTL DEF Spec

\* Every variable has its type, for any set of output reports.
THEOREM RumbleTypeCorrect == Spec => []TypeOK
<1>1. Types => TypeOK
  BY DEF Types
<1> QED
  BY <1>1, TypesAlways, PTL

-----------------------------------------------------------------------------
(* Reports and motors                                                      *)

Ending == {"signal", "join", "destroyDevice", "gone"}

\* A report that is not loaded is announced, wherever the thread is, and the
\* motors are off before it waits for one.
Announced ==
    /\ owner \in Ending => Stopping
    /\ ~Stopping => \/ thread.report = RumbleState
                    \/ RumbleUpdatedEvent
                    \/ callback = "set"
    /\ thread.pc \in {"start", "check", "wait"} /\ ~RumbleUpdatedEvent /\ ~Stopping
       => motors = Zero

LEMMA ThreadAnnounced == Types /\ Announced /\ ThreadStep => Announced'
<1> SUFFICES ASSUME Types, Announced, ThreadStep PROVE Announced'
  OBVIOUS
<1> USE DEF Types, Announced, gamepad
<1>1. CASE StartThread
  BY <1>1, GotoFacts DEF StartThread, Labels
<1>2. CASE CheckStopping
  BY <1>2, GotoFacts DEF CheckStopping, Labels
<1>3. CASE WaitForReport
  BY <1>3, GotoFacts DEF WaitForReport, Labels
<1>4. CASE LoadReport
  BY <1>4 DEF LoadReport
<1>5. CASE PlayNothing
  BY <1>5, GotoFacts DEF PlayNothing, Labels
<1>6. CASE BeginRound
  BY <1>6, GotoFacts DEF BeginRound, Labels
<1>7. CASE Interrupted
  BY <1>7, GotoFacts DEF Interrupted, Labels
<1>8. CASE DelayEnds
  BY <1>8, GotoFacts DEF DelayEnds, Labels
<1>9. CASE PlayMotors
  BY <1>9 DEF PlayMotors, ThreadType
<1>10. CASE RoundEnds
  BY <1>10 DEF RoundEnds, ThreadType
<1> QED
  BY <1>1, <1>2, <1>3, <1>4, <1>5, <1>6, <1>7, <1>8, <1>9, <1>10 DEF ThreadStep

LEMMA StepAnnounced == Types /\ Announced /\ [Next]_vars => Announced'
<1> SUFFICES ASSUME Types, Announced, [Next]_vars PROVE Announced'
  OBVIOUS
<1> USE DEF Announced, Ending, player
<1>1. CASE StoreReport
  BY <1>1 DEF StoreReport
<1>2. CASE SignalReport
  BY <1>2 DEF SignalReport, Types, TypeOK
<1>3. CASE ThreadStep
  BY <1>3, ThreadAnnounced
<1>4. CASE TimerExpires
  BY <1>4 DEF TimerExpires, gamepad
<1>5. CASE StartDevice
  BY <1>5 DEF StartDevice
<1>6. CASE Destroy
  BY <1>6 DEF Destroy
<1>7. CASE DestroySignals
  BY <1>7 DEF DestroySignals
<1>8. CASE DestroyJoins
  BY <1>8 DEF DestroyJoins
<1>9. CASE DestroyDevice
  BY <1>9 DEF DestroyDevice
<1>10. CASE Destroyed \/ UNCHANGED vars
  BY <1>10 DEF Destroyed, vars, gamepad
<1> QED
  BY <1>1, <1>2, <1>3, <1>4, <1>5, <1>6, <1>7, <1>8, <1>9, <1>10 DEF Next

LEMMA AnnouncedAlways == Spec => [](Types /\ Announced)
<1>1. Init => Announced
  BY DEF Init, Announced, Ending
<1>2. Types /\ Announced /\ [Next]_vars => (Types /\ Announced)'
  BY StepTypes, StepAnnounced
<1> QED
  BY <1>1, <1>2, InitTypes, PTL DEF Spec

\* A report that is stored while another plays is not missed, as it is signalled
\* after the lock is released and the event is reset under it.
THEOREM ReportsNotMissed == Spec => []ReportNotMissed
<1>1. Types /\ Announced => ReportNotMissed
  BY DEF Announced, ReportNotMissed
<1> QED
  BY <1>1, AnnouncedAlways, PTL

\* The rumble thread does not wait for a report with the motors on.
THEOREM MotorsStop == Spec => []MotorsOffWhenIdle
<1>1. Types /\ Announced => MotorsOffWhenIdle
  BY DEF Announced, MotorsOffWhenIdle
<1> QED
  BY <1>1, AnnouncedAlways, PTL

-----------------------------------------------------------------------------
(* The length of an effect                                                 *)

\* How long the motors were on, by the rounds that were played.  Rounds without
\* a delay are played as one.
RoundsOK ==
    LET report == thread.report IN
    /\ thread.pc \in {"effect", "delay", "play"} =>
          /\ thread.repeat = report.Repeat
          /\ thread.round <= report.Repeat
          /\ thread.on = report.Duration * thread.round
          /\ report.Delay = 0 => thread.round = 0
    /\ thread.pc = "on" =>
          IF report.Delay = 0
          THEN /\ thread.repeat = 0 /\ thread.round = 0 /\ thread.on = 0
               /\ thread.due = report.Duration * (report.Repeat + 1)
          ELSE /\ thread.repeat = report.Repeat
               /\ thread.round <= report.Repeat
               /\ thread.on = report.Duration * thread.round
               /\ thread.due = report.Duration

LEMMA ThreadRounds == Types /\ RoundsOK /\ ThreadStep => RoundsOK'
<1> SUFFICES ASSUME Types, RoundsOK, ThreadStep PROVE RoundsOK'
  OBVIOUS
<1> DEFINE report == thread.report
<1>1. /\ report.Duration \in Nat /\ report.Delay \in Nat /\ report.Repeat \in Nat
      /\ thread.round \in Nat /\ thread.repeat \in Nat
  BY ReportFields DEF Types, ThreadType
<1>2. CASE StartThread \/ CheckStopping \/ WaitForReport \/ PlayNothing \/ Interrupted
  <2>1. \E label \in {"check", "exited", "wait", "load"} : Goto(label)
    BY <1>2 DEF StartThread, CheckStopping, WaitForReport, PlayNothing, Interrupted
  <2> QED
    BY <2>1, GotoFacts DEF RoundsOK, Types, Labels
<1>3. CASE LoadReport
  <2>1. RumbleState.Duration \in Nat /\ RumbleState.Repeat \in Nat
    BY ReportFields DEF Types, TypeOK
  <2>2. RumbleState.Duration * 0 = 0
    BY <2>1
  <2> QED
    BY <1>3, <2>1, <2>2 DEF LoadReport, RoundsOK
<1>4. CASE BeginRound
  <2>1. /\ thread.pc = "effect"
        /\ Goto("play") \/ Goto("delay")
    BY <1>4 DEF BeginRound
  <2> QED
    BY <2>1, GotoFacts DEF RoundsOK, Types, Labels
<1>5. CASE DelayEnds
  BY <1>5, GotoFacts DEF DelayEnds, RoundsOK, Types, Labels
<1>6. CASE PlayMotors
  <2>1. /\ thread.pc = "play" /\ thread.repeat = report.Repeat
        /\ thread.round <= report.Repeat
        /\ thread.on = report.Duration * thread.round
        /\ report.Delay = 0 => thread.round = 0
    BY <1>6 DEF PlayMotors, RoundsOK
  <2>2. CASE report.Delay = 0
    <3>1. thread.on = 0
      BY <1>1, <2>1, <2>2
    <3>2. thread' = [thread EXCEPT !.pc = "on", !.repeat = 0,
                        !.due = report.Duration * (report.Repeat + 1)]
      BY <1>6, <2>1, <2>2 DEF PlayMotors
    <3> QED
      BY <2>1, <2>2, <3>1, <3>2 DEF RoundsOK, Types, ThreadType
  <2>3. CASE report.Delay # 0
    <3>1. thread' = [thread EXCEPT !.pc = "on", !.due = report.Duration]
      BY <1>6, <2>3 DEF PlayMotors
    <3> QED
      BY <2>1, <2>3, <3>1 DEF RoundsOK, Types, ThreadType
  <2> QED
    BY <2>2, <2>3
<1>7. CASE RoundEnds
  <2>1. CASE thread.round < thread.repeat
    <3>1. /\ report.Delay # 0 /\ thread.repeat = report.Repeat
          /\ thread.on = report.Duration * thread.round
          /\ thread.due = report.Duration
      BY <1>1, <1>7, <2>1 DEF RoundEnds, RoundsOK
    <3>2. thread' = [thread EXCEPT !.pc = "effect", !.round = thread.round + 1,
                                   !.due = 0, !.on = thread.on + thread.due]
      BY <1>7, <2>1 DEF RoundEnds
    <3>3. thread.on + thread.due = report.Duration * (thread.round + 1)
      BY <1>1, <3>1
    <3>4. thread.round + 1 <= report.Repeat
      BY <1>1, <2>1, <3>1
    <3> QED
      BY <3>1, <3>2, <3>3, <3>4 DEF RoundsOK, Types, ThreadType
  <2>2. CASE ~(thread.round < thread.repeat)
    BY <1>7, <2>2 DEF RoundEnds, RoundsOK, Types, ThreadType
  <2> QED
    BY <2>1, <2>2
<1> QED
  BY <1>2, <1>3, <1>4, <1>5, <1>6, <1>7 DEF ThreadStep

LEMMA RoundsAlways == Spec => [](Types /\ RoundsOK)
<1>1. Init => RoundsOK
  BY DEF Init, RoundsOK
<1>2. Types /\ RoundsOK /\ [Next]_vars => (Types /\ RoundsOK)'
  <2>1. UNCHANGED thread /\ RoundsOK => RoundsOK'
    BY DEF RoundsOK
  <2>2. [Next]_vars => ThreadStep \/ UNCHANGED thread
    BY DEF Next, vars, gamepad, player, StoreReport, SignalReport, TimerExpires,
       StartDevice, Destroy, DestroySignals, DestroyJoins, DestroyDevice, Destroyed
  <2> QED
    BY <2>1, <2>2, StepTypes, ThreadRounds
<1> QED
  BY <1>1, <1>2, InitTypes, PTL DEF Spec

\* Whatever Duration, Delay and Repeat a report has, the rounds keep the motors
\* on as long as it asks, consolidated or not.
THEOREM EffectsLast == Spec => []EffectLength
<1>1. Types /\ RoundsOK => EffectLength
  <2> SUFFICES ASSUME Types, RoundsOK, thread.pc = "on"
               PROVE  LET played == thread.on + thread.due
                          total == thread.report.Duration * (thread.report.Repeat + 1)
                      IN  /\ played <= total
                          /\ thread.round = thread.repeat => played = total
    BY DEF EffectLength
  <2> DEFINE report == thread.report
             total == report.Duration * (report.Repeat + 1)
  <2>1. report.Duration \in Nat /\ report.Repeat \in Nat /\ thread.round \in Nat
    BY ReportFields DEF Types, ThreadType
  <2>2. total \in Nat
    BY <2>1
  <2>3. CASE report.Delay = 0
    <3>1. thread.on = 0 /\ thread.due = total
      BY <2>3 DEF RoundsOK
    <3>2. thread.on + thread.due = total
      BY <2>2, <3>1
    <3> QED
      BY <2>2, <3>2
  <2>4. CASE report.Delay # 0
    <3>1. /\ thread.repeat = report.Repeat /\ thread.round <= report.Repeat
          /\ thread.on = report.Duration * thread.round
          /\ thread.due = report.Duration
      BY <2>4 DEF RoundsOK
    <3>2. thread.on + thread.due = report.Duration * (thread.round + 1)
      BY <2>1, <3>1
    <3>3. PICK rest \in Nat : report.Repeat = thread.round + rest
      <4>1. report.Repeat - thread.round \in Nat
        BY <2>1, <3>1
      <4> QED
        BY <2>1, <4>1
    <3>4. total = report.Duration * (thread.round + 1) + report.Duration * rest
      BY <2>1, <3>3
    <3>5. /\ report.Duration * rest \in Nat
          /\ report.Duration * (thread.round + 1) \in Nat
      BY <2>1
    <3>6. thread.on + thread.due <= total
      BY <3>2, <3>4, <3>5
    <3>7. thread.round = thread.repeat => thread.on + thread.due = total
      BY <3>1, <3>2
    <3> QED
      BY <3>6, <3>7
  <2> QED
    BY <2>3, <2>4
<1> QED
  BY <1>1, RoundsAlways, PTL

=============================================================================
