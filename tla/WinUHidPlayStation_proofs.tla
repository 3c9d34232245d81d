----------------------- MODULE WinUHidPlayStation_proofs -----------------------
(***************************************************************************)
(* Proofs about the PS4 and PS5 presets, for any callers, output reports,  *)
(* colors and settings: what the caller is told of the outputs is up to    *)
(* date, and what the HID client reads never goes back.                    *)
(***************************************************************************)
EXTENDS WinUHidPlayStation, TLAPS

-----------------------------------------------------------------------------
(* PS5: the outputs                                                        *)

\* What the preset remembers of an output is what was written, and told; of a
\* motor, told as one kind of vibration or the other.
RememberedOutput(o) ==
    /\ Last[o] = written[o]
    /\ IF o \in Motors
       THEN \E legacy \in BOOLEAN : told[o] = Amplitude(written[o], legacy)
       ELSE told[o] = written[o]

Remembered == \A o \in Outputs : RememberedOutput(o)

LEMMA OutputPS5Remembered ==
    ASSUME Remembered, NEW report \in OutputReports, NEW legacy \in BOOLEAN,
           HandleOutputPS5(report, legacy)
    PROVE  Remembered'
<1> SUFFICES ASSUME NEW o \in Outputs
             PROVE  RememberedOutput(o)'
  BY DEF Remembered
<1>1. /\ Last'[o] = IF o \in Told(report) THEN report[o] ELSE Last[o]
      /\ told'[o] = IF o \notin Told(report) THEN told[o]
                    ELSE IF o \in Motors THEN Amplitude(report[o], legacy)
                    ELSE report[o]
      /\ written'[o] = IF o \in DOMAIN report THEN report[o] ELSE written[o]
  BY DEF HandleOutputPS5
<1>2. o \in Told(report) => o \in DOMAIN report
  BY DEF Told, Changes
<1>3. o \in DOMAIN report /\ o \notin Told(report) => report[o] = Last[o]
  BY DEF Told, Changes, Outputs
<1>4. RememberedOutput(o)
  BY DEF Remembered
<1>5. CASE o \in Told(report)
  BY <1>1, <1>2, <1>5 DEF RememberedOutput, Amplitude
<1>6. CASE o \notin Told(report)
  BY <1>1, <1>3, <1>4, <1>6 DEF RememberedOutput, Amplitude
<1> QED
  BY <1>5, <1>6

LEMMA StepRemembered == Remembered /\ [Next]_vars => Remembered'
<1> SUFFICES ASSUME Remembered, [Next]_vars PROVE Remembered'
  OBVIOUS
<1>1. CASE UNCHANGED ps5
  BY <1>1 DEF ps5, Remembered, RememberedOutput
<1>2. CASE NextPS5
  <2>1. CASE UNCHANGED ps5
    BY <1>1, <2>1
  <2>2. CASE \E report \in OutputReports, legacy \in BOOLEAN :
                 HandleOutputPS5(report, legacy)
    BY <2>2, OutputPS5Remembered
  <2> QED
    BY <1>2, <2>1, <2>2
    DEF NextPS5, PS5Next, HandleFeaturePS5, RefuseOutputPS5, DestroyPS5
<1> QED
  BY <1>1, <1>2 DEF Next, NextPS4, Destroyed, vars

\* The caller of a PS5 gamepad knows every light and trigger effect as it was
\* written last, and the last setting of the motors as one kind of vibration
\* or the other.
THEOREM OutputsAreTold == Spec => []OutputsTold
<1>1. Init => Remembered
  <2> SUFFICES ASSUME Init, NEW o \in Outputs PROVE RememberedOutput(o)
    BY DEF Remembered
  <2>1. Last[o] = 0 /\ told[o] = 0 /\ written[o] = 0
    BY DEF Init, InitPS5
  <2>2. 0 = Amplitude(0, FALSE)
    BY DEF Amplitude
  <2> QED
    BY <2>1, <2>2 DEF RememberedOutput
<1>2. Remembered => OutputsTold
  BY DEF Remembered, RememberedOutput, OutputsTold, Outputs, Lights, Triggers,
         Motors
<1> QED
  BY <1>1, <1>2, StepRemembered, PTL DEF Spec

-----------------------------------------------------------------------------
(* PS4: the light bar                                                      *)

\* No output report has changed LedState without having signalled since.
Quiet == LedUpdatedEvent = "reset" /\ event.pc # "signal"

\* The LED thread has the state it is to show, or shows it.
LedOK ==
    /\ led = [pc |-> led.pc, state |-> led.state]
    /\ event = [pc |-> event.pc, report |-> event.report]
    /\ eventThread = "idle" <=> event.pc = "idle"
    /\ Quiet => /\ led.pc = "show" => led.state = LedState
                /\ led.pc \in {"wait", "on"} \/ (led.pc = "check" /\ ~Stopping)
                   => led.state = LedState /\ shown = LedState.color
                /\ led.pc = "off" => led.state = LedState /\ shown = Off

\* The steps of the callback.
LEMMA EventLedOK ==
    ASSUME LedOK,
           \/ HandleFeature \/ RefuseOutput
           \/ \E report \in LedReports : HandleOutput(report)
           \/ StoreLed \/ SignalLed \/ CompleteOutput
    PROVE  LedOK'
<1>1. CASE HandleFeature \/ RefuseOutput
  BY <1>1 DEF HandleFeature, RefuseOutput, ps4, LedOK, Quiet
<1>2. CASE \E report \in LedReports : HandleOutput(report)
  BY <1>2 DEF HandleOutput, Handling, LedOK, Quiet
<1>3. CASE StoreLed
  BY <1>3 DEF StoreLed, gamepad, Handling, LedOK, Quiet
<1>4. CASE SignalLed
  BY <1>4 DEF SignalLed, gamepad, LedOK, Quiet
<1>5. CASE CompleteOutput
  BY <1>5 DEF CompleteOutput, LedOK, Quiet
<1> QED
  BY <1>1, <1>2, <1>3, <1>4, <1>5

\* The steps of the LED thread.
LEMMA ThreadLedOK == LedOK /\ LedThread => LedOK'
<1> SUFFICES ASSUME LedOK, LedThread PROVE LedOK'
  OBVIOUS
<1>1. CASE CheckStopping
  BY <1>1 DEF CheckStopping, gamepad, LedOK, Quiet
<1>2. CASE WaitForLed
  BY <1>2 DEF WaitForLed, gamepad, LedOK, Quiet
<1>3. CASE LoadLed
  BY <1>3 DEF LoadLed, gamepad, LedOK, Quiet
<1>4. CASE ShowLed
  BY <1>4 DEF ShowLed, gamepad, LedOK, Quiet
<1>5. CASE Blink
  BY <1>5 DEF Blink, gamepad, LedOK, Quiet
<1>6. CASE BlinkInterrupted
  BY <1>6 DEF BlinkInterrupted, gamepad, LedOK, Quiet
<1> QED
  BY <1>1, <1>2, <1>3, <1>4, <1>5, <1>6 DEF LedThread

\* The destruction of the LED thread.
LEMMA OwnerLedOK == LedOK /\ PS4Owner => LedOK'
<1> SUFFICES ASSUME LedOK, PS4Owner PROVE LedOK'
  OBVIOUS
<1>1. CASE StopLedThread
  BY <1>1 DEF StopLedThread, gamepad, LedOK, Quiet
<1>2. CASE JoinLedThread
  BY <1>2 DEF JoinLedThread, LedOK, Quiet
<1> QED
  BY <1>1, <1>2 DEF PS4Owner

LEMMA GamepadLeavesEvents == GamepadNext => UNCHANGED eventThread
  BY DEF GamepadNext, CreateGamepad, CreateGamepadFails, DestroyGamepad,
         StopDevice, FreeGamepad, HostAsks, StoreReport, SubmitReport,
         FinishSubmit, HandleReadReport, CopyReport, CompleteReadReport

LEMMA UnchangedLedOK ==
    LedOK /\ UNCHANGED ps4 /\ UNCHANGED eventThread => LedOK'
  BY DEF ps4, LedOK, Quiet

PS4LedOK == preset = "PS4" => LedOK

LEMMA StepLedOK == PS4LedOK /\ [Next]_vars => PS4LedOK'
<1> SUFFICES ASSUME PS4LedOK, [Next]_vars, preset' = "PS4" PROVE LedOK'
  BY DEF PS4LedOK
<1>1. UNCHANGED preset
  BY DEF Next, NextPS4, NextPS5, Destroyed, vars
<1>2. LedOK
  BY <1>1 DEF PS4LedOK
<1>3. CASE UNCHANGED vars
  BY <1>2, <1>3, UnchangedLedOK DEF vars, gamepad
<1>4. CASE NextPS4
  <2>1. CASE GamepadNext /\ UNCHANGED ps4
    BY <1>2, <2>1, GamepadLeavesEvents, UnchangedLedOK
  <2>2. CASE LedThread
    BY <1>2, <2>2, ThreadLedOK
  <2>3. CASE PS4Owner
    BY <1>2, <2>3, OwnerLedOK
  <2> QED
    BY <1>2, <1>4, <2>1, <2>2, <2>3, EventLedOK
    DEF NextPS4, PS4Next, LedThread, PS4Owner
<1> QED
  BY <1>1, <1>3, <1>4 DEF Next, NextPS5, Destroyed

\* An LED thread that has nothing to wake up for shows what all the output
\* reports so far make of the light bar.
THEOREM LightIsUpToDate == Spec => []LedUpToDate
<1>1. Init => PS4LedOK
  BY DEF Init, InitGamepad, InitPS4, InitialLed, Handling, PS4LedOK, LedOK, Quiet
<1>2. PS4LedOK => LedUpToDate
  BY DEF PS4LedOK, LedOK, Quiet, LedUpToDate
<1> QED
  BY <1>1, <1>2, StepLedOK, PTL DEF Spec

-----------------------------------------------------------------------------
(* Input reports                                                           *)

\* One thread at a time holds the ready-for-read event, and what it copies
\* is no older than what the HID client has read.
InputOK ==
    /\ LastInputReport \in Nat
    /\ user \in [Users -> [pc : {"idle", "submit", "copy"}, copied : Nat]]
    /\ reader \in [pc : {"idle", "unlocked", "copy"}, copied : Nat]
    /\ host \in Nat \X Nat
    /\ host[1] <= LastInputReport /\ host[2] <= LastInputReport
    /\ reader.pc # "idle" => ready = "held"
    /\ reader.pc = "copy" => reader.copied \in host[1]..LastInputReport
    /\ \A u \in Users : user[u].pc = "copy" =>
           /\ ready = "held"
           /\ reader.pc = "idle"
           /\ user[u].copied \in host[1]..LastInputReport
           /\ \A v \in Users : user[v].pc = "copy" => u = v

NoStepBack == \A half \in {1, 2} : host'[half] \in host[half]..LastInputReport

LEMMA HostUnchanged == InputOK /\ UNCHANGED host => NoStepBack
<1> SUFFICES ASSUME InputOK, UNCHANGED host PROVE NoStepBack
  OBVIOUS
<1>1. /\ host[1] \in Nat /\ host[2] \in Nat /\ LastInputReport \in Nat
      /\ host[1] <= LastInputReport /\ host[2] <= LastInputReport
  BY DEF InputOK
<1> QED
  BY <1>1 DEF NoStepBack

LEMMA StoreReportOK ==
    ASSUME InputOK, NEW u \in Users, StoreReport(u)
    PROVE  InputOK' /\ NoStepBack
<1>1. /\ LastInputReport' = LastInputReport + 1
      /\ user' = [user EXCEPT ![u] = [pc |-> "submit", copied |-> LastInputReport + 1]]
      /\ UNCHANGED <<ready, reader, host>>
  BY DEF StoreReport
<1>2. user' \in [Users -> [pc : {"idle", "submit", "copy"}, copied : Nat]]
  BY <1>1 DEF InputOK
<1>3. \A v \in Users : user'[v].pc = "copy" => user'[v] = user[v]
  BY <1>1 DEF InputOK
<1>4. InputOK'
  BY <1>1, <1>2, <1>3 DEF InputOK
<1> QED
  BY <1>1, <1>4, HostUnchanged

LEMMA SubmitReportOK ==
    ASSUME InputOK, NEW u \in Users, SubmitReport(u)
    PROVE  InputOK' /\ NoStepBack
<1>1. UNCHANGED <<LastInputReport, reader, host>>
  BY DEF SubmitReport
<1>2. CASE ready = "pending"
  <2>1. /\ ready' = "held"
        /\ user' = [user EXCEPT ![u] = [pc |-> "copy", copied |-> LastInputReport]]
    BY <1>2 DEF SubmitReport
  <2>2. user' \in [Users -> [pc : {"idle", "submit", "copy"}, copied : Nat]]
    BY <2>1 DEF InputOK
  <2>3. /\ reader.pc = "idle"
        /\ \A v \in Users : user[v].pc # "copy"
    BY <1>2 DEF InputOK
  <2>4. \A v \in Users : user'[v].pc = "copy" => v = u /\ user'[v].copied = LastInputReport
    BY <2>1, <2>3 DEF InputOK
  <2>5. LastInputReport \in host[1]..LastInputReport
    BY DEF InputOK
  <2>6. InputOK'
    BY <1>1, <2>1, <2>2, <2>3, <2>4, <2>5 DEF InputOK
  <2> QED
    BY <1>1, <2>6, HostUnchanged
<1>3. CASE ready # "pending"
  <2>1. /\ user' = [user EXCEPT ![u] = Idle]
        /\ UNCHANGED ready
    BY <1>3 DEF SubmitReport
  <2>2. user' \in [Users -> [pc : {"idle", "submit", "copy"}, copied : Nat]]
    BY <2>1 DEF InputOK, Idle
  <2>3. \A v \in Users : user'[v].pc = "copy" => user'[v] = user[v]
    BY <2>1 DEF InputOK, Idle
  <2>4. InputOK'
    BY <1>1, <2>1, <2>2, <2>3 DEF InputOK
  <2> QED
    BY <1>1, <2>4, HostUnchanged
<1> QED
  BY <1>2, <1>3

\* A thread whose pc says so has the event alone.
LEMMA FinishSubmitOK ==
    ASSUME InputOK, NEW u \in Users, FinishSubmit(u)
    PROVE  InputOK' /\ NoStepBack
<1>1. user[u].pc = "copy"
  BY DEF InputOK, FinishSubmit
<1>2. /\ host' = <<user[u].copied, LastInputReport>>
      /\ ready' = "nobody"
      /\ user' = [user EXCEPT ![u] = Idle]
      /\ UNCHANGED <<LastInputReport, reader>>
  BY <1>1 DEF FinishSubmit
<1>3. /\ user[u].copied \in host[1]..LastInputReport
      /\ user[u].copied \in Nat
      /\ reader.pc = "idle"
      /\ \A v \in Users : user[v].pc = "copy" => v = u
  BY <1>1 DEF InputOK
<1>4. NoStepBack
  <2>1. host'[1] = user[u].copied /\ host'[2] = LastInputReport
    BY <1>2
  <2>2. /\ host[2] \in Nat /\ LastInputReport \in Nat
        /\ host[2] <= LastInputReport
    BY DEF InputOK
  <2> QED
    BY <1>3, <2>1, <2>2 DEF NoStepBack
<1>5. user' \in [Users -> [pc : {"idle", "submit", "copy"}, copied : Nat]]
  BY <1>2 DEF InputOK, Idle
<1>6. \A v \in Users : user'[v].pc # "copy"
  BY <1>2, <1>3 DEF InputOK, Idle
<1>7. InputOK'
  BY <1>2, <1>3, <1>5, <1>6 DEF InputOK
<1> QED
  BY <1>4, <1>7

\* The steps of the read thread.
LEMMA ReadThreadOK ==
    ASSUME InputOK, ReadThread
    PROVE  InputOK' /\ NoStepBack
<1>1. CASE HandleReadReport
  <2>1. /\ ready = "pending" /\ ready' = "held"
        /\ reader' = [reader EXCEPT !.pc = "unlocked"]
        /\ UNCHANGED <<LastInputReport, user, host>>
    BY <1>1 DEF HandleReadReport
  <2>2. /\ reader' \in [pc : {"idle", "unlocked", "copy"}, copied : Nat]
        /\ reader'.pc = "unlocked"
    BY <2>1 DEF InputOK
  <2>3. InputOK'
    BY <2>1, <2>2 DEF InputOK
  <2> QED
    BY <2>1, <2>3, HostUnchanged
<1>2. CASE CopyReport
  <2>1. /\ reader.pc = "unlocked"
        /\ reader' = [pc |-> "copy", copied |-> LastInputReport]
        /\ UNCHANGED <<LastInputReport, ready, user, host>>
    BY <1>2 DEF CopyReport
  <2>2. /\ reader' \in [pc : {"idle", "unlocked", "copy"}, copied : Nat]
        /\ reader'.copied \in host[1]..LastInputReport
    BY <2>1 DEF InputOK
  <2>3. InputOK'
    BY <2>1, <2>2 DEF InputOK
  <2> QED
    BY <2>1, <2>3, HostUnchanged
<1>3. CASE CompleteReadReport
  <2>1. /\ reader.pc = "copy"
        /\ host' = <<reader.copied, LastInputReport>>
        /\ ready' = "nobody"
        /\ reader' = Idle
        /\ UNCHANGED <<LastInputReport, user>>
    BY <1>3 DEF CompleteReadReport
  <2>2. /\ reader.copied \in host[1]..LastInputReport
        /\ reader.copied \in Nat
        /\ \A u \in Users : user[u].pc # "copy"
    BY <2>1 DEF InputOK
  <2>3. host'[1] = reader.copied /\ host'[2] = LastInputReport
    BY <2>1
  <2>4. NoStepBack
    BY <2>2, <2>3 DEF NoStepBack, InputOK
  <2>5. InputOK'
    BY <2>1, <2>2 DEF InputOK, Idle
  <2> QED
    BY <2>4, <2>5
<1> QED
  BY <1>1, <1>2, <1>3 DEF ReadThread

\* VHF asks; the steps that leave the input alone.
LEMMA OtherInputOK ==
    ASSUME InputOK, HostAsks \/ UNCHANGED input
    PROVE  InputOK' /\ NoStepBack
<1>1. UNCHANGED host
  BY DEF HostAsks, input
<1>2. CASE HostAsks
  BY <1>1, <1>2, HostUnchanged DEF HostAsks, InputOK
<1>3. CASE UNCHANGED input
  BY <1>1, <1>3, HostUnchanged DEF input, InputOK
<1> QED
  BY <1>2, <1>3

LEMMA StepInputOK == InputOK /\ [Next]_vars => InputOK' /\ NoStepBack
<1> SUFFICES ASSUME InputOK, [Next]_vars PROVE InputOK' /\ NoStepBack
  OBVIOUS
<1>1. GamepadNext \/ UNCHANGED input
  <2>1. CASE NextPS4
    BY <2>1 DEF NextPS4, PS4Next, HandleFeature, RefuseOutput, HandleOutput,
                StoreLed, SignalLed, CompleteOutput, CheckStopping, WaitForLed,
                LoadLed, ShowLed, Blink, BlinkInterrupted, StopLedThread,
                JoinLedThread, gamepad, input
  <2>2. CASE NextPS5
    BY <2>2 DEF NextPS5, PS5Next, HandleFeaturePS5, RefuseOutputPS5,
                HandleOutputPS5, DestroyPS5, input
  <2>3. CASE UNCHANGED vars
    BY <2>3 DEF vars, gamepad, input
  <2> QED
    BY <2>1, <2>2, <2>3 DEF Next, Destroyed
<1>2. CASE UNCHANGED input
  BY <1>2, OtherInputOK
<1>3. CASE CreateGamepad \/ CreateGamepadFails \/ DestroyGamepad \/ StopDevice
           \/ FreeGamepad
  BY <1>2, <1>3
  DEF CreateGamepad, CreateGamepadFails, DestroyGamepad, StopDevice, FreeGamepad
<1>4. CASE \E u \in Users : StoreReport(u) \/ SubmitReport(u) \/ FinishSubmit(u)
  BY <1>4, StoreReportOK, SubmitReportOK, FinishSubmitOK
<1> QED
  BY <1>1, <1>2, <1>3, <1>4, OtherInputOK, ReadThreadOK
  DEF GamepadNext, ReadThread

\* The HID client never reads half a report that is older than one it had.
THEOREM InputNeverGoesBack == Spec => NoReportGoesBack
<1>1. Init => InputOK
  BY DEF Init, InitGamepad, Idle, InputOK
<1>2. InputOK /\ [Next]_vars
      => [\A half \in {1, 2} : host'[half] \in host[half]..LastInputReport]_vars
  BY StepInputOK DEF NoStepBack
<1> QED
  BY <1>1, <1>2, StepInputOK, PTL DEF Spec, NoReportGoesBack

=============================================================================
