----------------------------- MODULE WinUHidMouse -----------------------------
(***************************************************************************)
(* The mouse preset (WinUHidDevs/WinUHidMouse.cpp): the buttons that every *)
(* report repeats, and the wheels, whose movements the caller gives in     *)
(* 1/120 of a detent while the HID client may only take whole detents.     *)
(*                                                                         *)
(* One thread uses the mouse, as its functions take no lock.  The HID      *)
(* client sets the resolution through the callback on the event thread; a  *)
(* call reads the resolution once, so each call is one action.             *)
(***************************************************************************)
EXTENDS Integers

CONSTANT ScrollValues  \* wheel movements the caller reports: 16-bit integers

ASSUME MouseAssumption == ScrollValues \subseteq -32768..32767

WHEEL_DELTA == 120
ButtonCount == 5
Axes == {"vertical", "horizontal"}

VARIABLES
    Buttons,               \* the buttons that are down
    ResolutionMultiplier,  \* the wheels whose reports are in 1/120 detents
    AccumulatedScroll,     \* an unsigned byte for each wheel
    delivered,             \* the last report was accepted by the device
    hostButtons,           \* the buttons the HID client saw last
    owed                   \* movement the reports have not told of yet

vars == <<Buttons, ResolutionMultiplier, AccumulatedScroll, delivered,
          hostButtons, owed>>

\* A new mouse has sent an empty report.
Init ==
    /\ Buttons = {}
    /\ ResolutionMultiplier = {}
    /\ AccumulatedScroll = [axis \in Axes |-> 0]
    /\ delivered = TRUE
    /\ hostButtons = {}
    /\ owed = [axis \in Axes |-> 0]

\* WinUHidSubmitInputReport of a report that shows some buttons.
Submit(shown) ==
    /\ delivered' \in BOOLEAN
    /\ hostButtons' = IF delivered' THEN shown ELSE hostButtons

\* Division and remainder in C round towards zero.
Quotient(n, d)  == IF n >= 0 THEN n \div d ELSE -((-n) \div d)
Remainder(n, d) == n - d * Quotient(n, d)

-----------------------------------------------------------------------------

\* SET_FEATURE 18 in WinUHidMouseCallback.
SetResolution ==
    /\ ResolutionMultiplier' \in SUBSET Axes
    /\ UNCHANGED <<Buttons, AccumulatedScroll, delivered, hostButtons, owed>>

\* Mutant: a motion report shows no buttons.
ReportMotionNoButtons ==
    /\ Submit({})
    /\ UNCHANGED <<Buttons, ResolutionMultiplier, AccumulatedScroll, owed>>

ReportMotion ==
    /\ Submit(Buttons)
    /\ UNCHANGED <<Buttons, ResolutionMultiplier, AccumulatedScroll, owed>>

\* An index beyond the last button is refused.
ReportButton ==
    /\ \E index \in 0..(ButtonCount - 1), down \in BOOLEAN :
          Buttons' = IF down THEN Buttons \cup {index} ELSE Buttons \ {index}
    /\ Submit(Buttons')
    /\ UNCHANGED <<ResolutionMultiplier, AccumulatedScroll, owed>>

\* Mutant: a high-resolution report also uses up the remainder.
ReportScrollForgets(axis, value) ==
    LET total == value + AccumulatedScroll[axis]
        told  == IF axis \in ResolutionMultiplier THEN value
                 ELSE WHEEL_DELTA * Quotient(total, WHEEL_DELTA) IN
    /\ AccumulatedScroll' = [AccumulatedScroll EXCEPT ![axis] =
           IF axis \in ResolutionMultiplier THEN 0
           ELSE Remainder(total, WHEEL_DELTA) % 256]
    /\ owed' = [owed EXCEPT ![axis] = @ + value - told]
    /\ Submit(Buttons)
    /\ UNCHANGED <<Buttons, ResolutionMultiplier>>

\* In high resolution the report has the value; else it has the whole detents
\* of the value and the remainder so far, and the new remainder is stored in a
\* UCHAR, whether or not the report is accepted.
ReportScroll(axis, value) ==
    LET total == value + AccumulatedScroll[axis]
        told  == IF axis \in ResolutionMultiplier THEN value
                 ELSE WHEEL_DELTA * Quotient(total, WHEEL_DELTA) IN
    /\ AccumulatedScroll' = [AccumulatedScroll EXCEPT ![axis] =
           IF axis \in ResolutionMultiplier THEN @
           ELSE Remainder(total, WHEEL_DELTA) % 256]
    /\ owed' = [owed EXCEPT ![axis] = @ + value - told]
    /\ Submit(Buttons)
    /\ UNCHANGED <<Buttons, ResolutionMultiplier>>

Next ==
    \/ SetResolution
    \/ ReportMotion
    \/ ReportButton
    \/ \E axis \in Axes, value \in ScrollValues : ReportScroll(axis, value)

Spec == Init /\ [][Next]_vars

-----------------------------------------------------------------------------
(* Properties                                                              *)

\* Every variable has its type.
TypeOK ==
    /\ Buttons \subseteq 0..(ButtonCount - 1)
    /\ ResolutionMultiplier \subseteq Axes
    /\ AccumulatedScroll \in [Axes -> 0..255]
    /\ delivered \in BOOLEAN
    /\ hostButtons \subseteq 0..(ButtonCount - 1)
    /\ owed \in [Axes -> Int]

\* "We handle accumulating of whole ticks on behalf of the caller"
\* (WinUHidMouse.cpp:238): what the reports have not told of the wheel's
\* movement is always less than a detent, also when the resolution changes on
\* the way.
TicksAccumulated ==
    \A axis \in Axes : -WHEEL_DELTA < owed[axis] /\ owed[axis] < WHEEL_DELTA

\* The HID client sees the buttons as they are, unless the last report failed:
\* no report of a motion or of a wheel releases a button that is held.
HostSeesButtons == delivered => hostButtons = Buttons

=============================================================================
