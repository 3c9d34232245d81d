--------------------------- MODULE MCWinUHidDriver ---------------------------
(* Small instances of WinUHidDriver.                                       *)
EXTENDS WinUHidDriver, TLC

\* Polls, client threads and pseudo-request objects are interchangeable.
Symmetry == Permutations(Polls) \cup Permutations(Clients)
            \cup Permutations(ReadyOps)

=============================================================================
