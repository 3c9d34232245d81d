------------------------- MODULE MCWinUHidPlayStation -------------------------
(* One color and one setting besides off; output reports with either or      *)
(* both triggers, and with all outputs.                                      *)
EXTENDS WinUHidPlayStation

CONSTANTS u1, u2, red, off

MCUsers == {u1, u2}
MCColors == {red}
MCLedReports ==
    {[color |-> red, blink |-> NotValid], [color |-> NotValid, blink |-> "blink"],
     [color |-> off, blink |-> "steady"], NoReport}
MCSettings == {0, 1}
MCOutputReports ==
    UNION {[valid -> MCSettings] :
              valid \in {{"LeftTriggerEffect"}, {"RightTriggerEffect"},
                         Triggers}}
    \cup {[o \in Outputs |-> n] : n \in MCSettings}

=============================================================================
