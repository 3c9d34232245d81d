---------------------------- MODULE MCWebManager ----------------------------
(* One device, of any kind: devices share only the lock of the map.          *)
EXTENDS WebManager

CONSTANTS d1, r1, r2, s1

MCDevices   == {d1}
MCRequests  == {r1, r2}
MCSockets   == {s1}
MCReportIds == {0, 1}

=============================================================================
