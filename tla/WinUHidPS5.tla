------------------------------ MODULE WinUHidPS5 ------------------------------
(***************************************************************************)
(* The PS5 preset: the callback on the event thread tells the caller of    *)
(* what an output report changes: it remembers the last light bar, player  *)
(* light, motors, trigger effects and microphone light and skips a         *)
(* callback for what is the same.                                          *)
(***************************************************************************)
EXTENDS WinUHidGamepad

CONSTANTS
    Settings, \* settings of an output: 0, as the gamepad starts, and others
    UCharMax,
    OutputReports \* output reports a HID client may write

Lights   == {"LedState", "PlayerLeds", "MuteButtonLed"}
Triggers == {"LeftTriggerEffect", "RightTriggerEffect"}
Motors   == {"MotorState"}
Outputs  == Lights \cup Triggers \cup Motors

\* A report has settings for the outputs it says are valid.
ASSUME PS5Assumption ==
    /\ UCharMax \in Nat
    /\ Settings \subseteq 0..UCharMax
    /\ 0 \in Settings
    /\ OutputReports \subseteq UNION {[valid -> Settings] : valid \in SUBSET Outputs}

VARIABLES
    Last,   \* the setting of each output the preset remembers
    told,   \* what the caller's callback was told of it
    written \* history: the setting in the last report that has the output

ps5 == <<Last, told, written>>

InitPS5 ==
    /\ Last = [o \in Outputs |-> 0]
    /\ told = [o \in Outputs |-> 0]
    /\ written = [o \in Outputs |-> 0]

\* Feature reports the preset does not know succeed too, with zeros, and so
\* does setting one.
HandleFeaturePS5 ==
    /\ started
    /\ eventThread = "idle"
    /\ answer' = "success"
    /\ UNCHANGED <<owner, started, input, eventThread, ps5>>

RefuseOutputPS5 ==
    /\ started
    /\ eventThread = "idle"
    /\ answer' = "failed"
    /\ UNCHANGED <<owner, started, input, eventThread, ps5>>

Changes(report, o) == o \in DOMAIN report /\ report[o] # Last[o]

\* Mutant: both effects of the triggers are taken for told when one is.
ToldTriggersOnce(report) ==
    {o \in Lights \cup Motors : Changes(report, o)}
    \cup (IF Changes(report, "RightTriggerEffect")
          THEN Triggers \cap DOMAIN report ELSE {})

\* The outputs a callback is made for.  The callback for the triggers has
\* the effects of all the triggers in the report when one of them changes.
Told(report) ==
    {o \in Lights \cup Motors : Changes(report, o)}
    \cup (IF \E o \in Triggers : Changes(report, o)
          THEN Triggers \cap DOMAIN report ELSE {})

\* Legacy vibration is doubled, in a UCHAR.
Amplitude(setting, legacy) ==
    IF legacy THEN (2 * setting) % (UCharMax + 1) ELSE setting

\* The callback is the event thread's alone, and no other thread uses what
\* it remembers, so that it is one step.
HandleOutputPS5(report, legacy) ==
    /\ started
    /\ eventThread = "idle"
    /\ Last' = [o \in Outputs |-> IF o \in Told(report) THEN report[o] ELSE Last[o]]
    /\ told' = [o \in Outputs |->
                   IF o \notin Told(report) THEN told[o]
                   ELSE IF o \in Motors THEN Amplitude(report[o], legacy)
                   ELSE report[o]]
    /\ written' = [o \in Outputs |->
                      IF o \in DOMAIN report THEN report[o] ELSE written[o]]
    /\ answer' = "success"
    /\ UNCHANGED <<owner, started, input, eventThread>>

\* WinUHidPS5Destroy has no thread of its own to stop.
DestroyPS5 ==
    /\ owner = "stopping"
    /\ owner' = "destroyDevice"
    /\ UNCHANGED <<started, input, eventThread, answer, ps5>>

PS5Next ==
    \/ GamepadNext /\ UNCHANGED ps5
    \/ HandleFeaturePS5
    \/ RefuseOutputPS5
    \/ \E report \in OutputReports, legacy \in BOOLEAN :
           HandleOutputPS5(report, legacy)
    \/ DestroyPS5

=============================================================================
