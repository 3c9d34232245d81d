--------------------------- MODULE MCWinUHidSetup ---------------------------
(* Small integers and descriptors for TLC's runs of WinUHidSetup: a size of  *)
(* 3 bits rounds up, one of 8 overflows when 4 are counted, and report id 9  *)
(* does not fit.  Hardware ids of up to 5 characters with their nulls fit:  *)
(* there are lists of no id, of one, behind which the memory goes on, of the *)
(* longest and of one too long, and of two ids, where the memory behind them *)
(* has no null, has one where MultiSzWcsLen happens to look, or elsewhere.   *)
EXTENDS WinUHidSetup

MCItems ==
    {[type |-> "main", tag |-> tag] : tag \in {"Input", "Collection"}}
    \cup {[type |-> "global", tag |-> "ReportSize", data |-> n] : n \in {3, 8}}
    \cup {[type |-> "global", tag |-> "ReportCount", data |-> 4],
          [type |-> "global", tag |-> "Push"], [type |-> "global", tag |-> "Pop"],
          [type |-> "skipped"], [type |-> "truncated"]}
    \cup {[type |-> "global", tag |-> "ReportId", data |-> id] : id \in {1, 9}}

MCEvents == {{"READ_REPORT", "WRITE_REPORT"}, {"GET_FEATURE", "EVENT_OF_A_LATER_VERSION"}}

MCReportIds == {0, 1}

MCTwoIds == {{1, 3, 4}, {1, 3, 4, 6}, {1, 3, 4, 7}}

MCLists == {{0, 1}, {1, 2, 4}, {3, 4}, {4, 5}} \cup MCTwoIds

=============================================================================
