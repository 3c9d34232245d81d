---------------------------- MODULE MCWinUHidXOne ----------------------------
(* The output reports of TLC's runs of WinUHidXOne: one that stops the motors *)
(* and effects with and without a delay and repeats.                          *)
EXTENDS WinUHidXOne

CONSTANTS weak, strong

MCAmplitudes == {weak, strong}

MCReports ==
    {[motors |-> m, Duration |-> d, Delay |-> 0, Repeat |-> r] :
         m \in {weak, Zero}, d \in {0, 1}, r \in {2}}
    \cup {[motors |-> strong, Duration |-> 2, Delay |-> 1, Repeat |-> r] :
             r \in {0, 2}}

=============================================================================
