---------------------------- MODULE MCWinUHidMouse ----------------------------
(* Wheel movements for TLC: below, at and above a detent.                     *)
EXTENDS WinUHidMouse

MCForward  == {40, 120, 160}
MCBackward == {-60}

=============================================================================
