------------------------- MODULE WinUHidMouse_proofs -------------------------
(***************************************************************************)
(* Proofs about the mouse preset, for any set of wheel movements: types,   *)
(* the buttons the HID client sees, and, when the wheels only move         *)
(* forward, that whole detents are reported as soon as they add up.        *)
(***************************************************************************)
EXTENDS WinUHidMouse, TLAPS

\* C division of a number that is not negative is the usual one.
LEMMA ForwardDivision ==
    ASSUME NEW n \in Nat
    PROVE  /\ Quotient(n, WHEEL_DELTA) \in Int
           /\ n % WHEEL_DELTA \in 0..(WHEEL_DELTA - 1)
           /\ n - WHEEL_DELTA * Quotient(n, WHEEL_DELTA) = n % WHEEL_DELTA
           /\ Remainder(n, WHEEL_DELTA) = n % WHEEL_DELTA
<1>1. Quotient(n, 120) = n \div 120
  BY DEF Quotient
<1>2. n \div 120 \in Int /\ n % 120 \in 0..119
  OBVIOUS
<1>3. n - 120 * (n \div 120) = n % 120
  OBVIOUS
<1>4. Quotient(n, 120) \in Int /\ n - 120 * Quotient(n, 120) = n % 120
  BY <1>1, <1>2, <1>3
<1>5. Remainder(n, 120) = n % 120
  BY <1>4 DEF Remainder
<1> QED
  BY <1>2, <1>4, <1>5 DEF WHEEL_DELTA

\* C division stays among the integers, and what a UCHAR keeps of it is a byte.
LEMMA DivisionTypes ==
    ASSUME NEW n \in Int
    PROVE  /\ Quotient(n, WHEEL_DELTA) \in Int
           /\ Remainder(n, WHEEL_DELTA) % 256 \in 0..255
<1>1. Quotient(n, 120) \in Int
  BY DEF Quotient
<1>2. Remainder(n, 120) \in Int
  BY <1>1 DEF Remainder
<1>3. Remainder(n, 120) % 256 \in 0..255
  BY <1>2
<1> QED
  BY <1>1, <1>3 DEF WHEEL_DELTA

-----------------------------------------------------------------------------

\* A report shows its buttons to the HID client, or fails.
LEMMA SubmitFacts ==
    ASSUME NEW shown, Submit(shown)
    PROVE  /\ delivered' \in BOOLEAN
           /\ delivered' => hostButtons' = shown
           /\ hostButtons' = shown \/ hostButtons' = hostButtons
  BY DEF Submit

LEMMA ReportScrollTypes ==
    ASSUME TypeOK, NEW axis \in Axes, NEW value \in ScrollValues,
           ReportScroll(axis, value)
    PROVE  TypeOK'
<1> DEFINE total == value + AccumulatedScroll[axis]
           told  == IF axis \in ResolutionMultiplier THEN value
                    ELSE WHEEL_DELTA * Quotient(total, WHEEL_DELTA)
<1>1. total \in Int /\ value \in Int
  <2>1. value \in Int
    BY MouseAssumption
  <2>2. AccumulatedScroll[axis] \in 0..255
    BY DEF TypeOK
  <2> QED
    BY <2>1, <2>2
<1>2. told \in Int
  BY <1>1, DivisionTypes DEF WHEEL_DELTA
<1>3. owed' = [owed EXCEPT ![axis] = @ + value - told]
  BY DEF ReportScroll
<1>4. owed' \in [Axes -> Int]
  BY <1>1, <1>2, <1>3 DEF TypeOK
<1>5. AccumulatedScroll' \in [Axes -> 0..255]
  <2>1. Remainder(total, WHEEL_DELTA) % 256 \in 0..255
    BY <1>1, DivisionTypes
  <2> QED
    BY <2>1 DEF ReportScroll, TypeOK
<1> QED
  BY <1>4, <1>5, SubmitFacts DEF ReportScroll, TypeOK

LEMMA ReportButtonTypes == TypeOK /\ ReportButton => TypeOK'
<1> SUFFICES ASSUME TypeOK, ReportButton PROVE TypeOK'
  OBVIOUS
<1>1. Buttons' \subseteq 0..(ButtonCount - 1)
  BY DEF ReportButton, TypeOK
<1> QED
  BY <1>1, SubmitFacts DEF ReportButton, TypeOK

\* Every variable has its type, whichever way the wheels move.
THEOREM MouseTypeCorrect == Spec => []TypeOK
<1>1. Init => TypeOK
  BY DEF Init, TypeOK, ButtonCount
<1>2. TypeOK /\ [Next]_vars => TypeOK'
  <2> SUFFICES ASSUME TypeOK, [Next]_vars PROVE TypeOK'
    OBVIOUS
  <2>1. CASE SetResolution
    BY <2>1 DEF SetResolution, TypeOK
  <2>2. CASE ReportMotion
    BY <2>2, SubmitFacts DEF ReportMotion, TypeOK
  <2>3. CASE ReportButton
    BY <2>3, ReportButtonTypes
  <2>4. CASE \E axis \in Axes, value \in ScrollValues : ReportScroll(axis, value)
    BY <2>4, ReportScrollTypes
  <2>5. CASE UNCHANGED vars
    BY <2>5 DEF vars, TypeOK
  <2> QED
    BY <2>1, <2>2, <2>3, <2>4, <2>5 DEF Next
<1> QED
  BY <1>1, <1>2, PTL DEF Spec

\* No report hides a button that is held from the HID client.
THEOREM ButtonsShown == Spec => []HostSeesButtons
<1>1. Init => HostSeesButtons
  BY DEF Init, HostSeesButtons
<1>2. HostSeesButtons /\ [Next]_vars => HostSeesButtons'
  <2> SUFFICES ASSUME HostSeesButtons, [Next]_vars PROVE HostSeesButtons'
    OBVIOUS
  <2>1. CASE SetResolution \/ UNCHANGED vars
    BY <2>1 DEF SetResolution, vars, HostSeesButtons
  <2>2. CASE ReportMotion
    BY <2>2, SubmitFacts DEF ReportMotion, HostSeesButtons
  <2>3. CASE ReportButton
    BY <2>3, SubmitFacts DEF ReportButton, HostSeesButtons
  <2>4. ASSUME NEW axis \in Axes, NEW value \in ScrollValues,
               ReportScroll(axis, value)
        PROVE  HostSeesButtons'
    BY <2>4, SubmitFacts DEF ReportScroll, HostSeesButtons
  <2> QED
    BY <2>1, <2>2, <2>3, <2>4 DEF Next
<1> QED
  BY <1>1, <1>2, PTL DEF Spec

-----------------------------------------------------------------------------
(* Wheels that move forward                                                *)

\* What is owed is the remainder the mouse keeps, less than a detent.
RemainderOwed ==
    /\ AccumulatedScroll \in [Axes -> 0..(WHEEL_DELTA - 1)]
    /\ owed = AccumulatedScroll

\* Of what is owed and what is new, all that is not told stays owed.
LEMMA StillOwed ==
    ASSUME NEW o \in Int, NEW v \in Int, NEW t \in Int, NEW q \in Int,
           NEW r \in Int, o + v = t, t - q = r
    PROVE  o + v - q = r
  OBVIOUS

LEMMA ForwardScroll ==
    ASSUME ScrollValues \subseteq Nat, RemainderOwed, NEW axis \in Axes,
           NEW value \in ScrollValues, ReportScroll(axis, value)
    PROVE  RemainderOwed'
<1> DEFINE total == value + AccumulatedScroll[axis]
           rest  == total % WHEEL_DELTA
           told  == WHEEL_DELTA * Quotient(total, WHEEL_DELTA)
<1>1. /\ value \in Nat
      /\ AccumulatedScroll[axis] \in 0..(WHEEL_DELTA - 1)
      /\ total \in Nat
  BY DEF RemainderOwed, WHEEL_DELTA
<1>2. /\ rest \in 0..(WHEEL_DELTA - 1)
      /\ Remainder(total, WHEEL_DELTA) % 256 = rest
      /\ told \in Int /\ total - told = rest
  <2>1. /\ rest \in 0..(WHEEL_DELTA - 1)
        /\ Remainder(total, WHEEL_DELTA) = rest
        /\ Quotient(total, WHEEL_DELTA) \in Int
        /\ total - WHEEL_DELTA * Quotient(total, WHEEL_DELTA) = rest
    BY <1>1, ForwardDivision
  <2>2. ASSUME NEW r \in 0..119 PROVE r % 256 = r
    OBVIOUS
  <2> QED
    BY <2>1, <2>2 DEF WHEEL_DELTA
<1>3. CASE axis \in ResolutionMultiplier
  <2>1. /\ AccumulatedScroll' = AccumulatedScroll
        /\ owed' = [owed EXCEPT ![axis] = @ + value - value]
    BY <1>3 DEF ReportScroll, RemainderOwed
  <2> QED
    BY <2>1, <1>1 DEF RemainderOwed
<1>4. CASE axis \notin ResolutionMultiplier
  <2>1. AccumulatedScroll' = [AccumulatedScroll EXCEPT ![axis] = rest]
    BY <1>2, <1>4 DEF ReportScroll
  <2>2. owed' = [owed EXCEPT ![axis] =
                   owed[axis] + value - told]
    BY <1>4 DEF ReportScroll
  <2>3. owed[axis] \in Int /\ owed[axis] + value = total
    BY <1>1 DEF RemainderOwed
  <2>4. owed[axis] + value - told = rest
    <3>1. /\ value \in Int /\ total \in Int /\ told \in Int /\ rest \in Int
          /\ total - told = rest
      BY <1>1, <1>2
    <3> HIDE DEF total, told, rest
    <3> QED
      BY <2>3, <3>1, StillOwed
  <2> QED
    BY <1>2, <2>1, <2>2, <2>4 DEF RemainderOwed
<1> QED
  BY <1>3, <1>4

\* As long as the wheels move forward, the mouse reports whole detents as soon
\* as they add up.
THEOREM ForwardTicksAccumulate ==
    ASSUME ScrollValues \subseteq Nat
    PROVE  Spec => []TicksAccumulated
<1>1. Init => RemainderOwed
  BY DEF Init, RemainderOwed, WHEEL_DELTA
<1>2. RemainderOwed /\ [Next]_vars => RemainderOwed'
  <2> SUFFICES ASSUME RemainderOwed, [Next]_vars PROVE RemainderOwed'
    OBVIOUS
  <2>1. CASE SetResolution \/ ReportMotion \/ ReportButton \/ UNCHANGED vars
    BY <2>1 DEF SetResolution, ReportMotion, ReportButton, vars, RemainderOwed
  <2>2. CASE \E axis \in Axes, value \in ScrollValues : ReportScroll(axis, value)
    BY <2>2, ForwardScroll
  <2> QED
    BY <2>1, <2>2 DEF Next
<1>3. RemainderOwed => TicksAccumulated
  BY DEF RemainderOwed, TicksAccumulated, WHEEL_DELTA
<1> QED
  BY <1>1, <1>2, <1>3, PTL DEF Spec

=============================================================================
