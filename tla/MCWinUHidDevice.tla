--------------------------- MODULE MCWinUHidDevice ---------------------------
(* Model values and symmetry for TLC's runs of WinUHidDevice. *)
EXTENDS WinUHidDevice, TLC

Symmetry == Permutations(Pollers) \cup Permutations(Submitters)

=============================================================================
