---------------------------- MODULE WinUHidGamepad ----------------------------
(***************************************************************************)
(* What the PS4 and PS5 presets share: the life of the gamepad and its     *)
(* input reports.  A caller's report is stored under the lock and then     *)
(* submitted; if the HID client has not asked for one, the read thread of  *)
(* the device calls the preset when it does, which sends the latest report *)
(* again.  Both read LastInputReport after they have released the lock.    *)
(*                                                                         *)
(* Reports are numbered in the order they are stored.  Their timestamps    *)
(* and sequence numbers, which each submission brings up to date, are left *)
(* out.  Copying takes two steps, one for each half of the report.         *)
(***************************************************************************)
EXTENDS Naturals

CONSTANTS
    Users,     \* the threads that report input
    MaxReports \* a bound on the reports they store

ASSUME GamepadAssumption == MaxReports \in Nat

VARIABLES
    owner,           \* the thread that creates and destroys the gamepad
    started,         \* the device hands out events
    LastInputReport,
    ready,           \* VHF's ready-for-read event: "nobody", "pending", "held"
    user,            \* ReportInput of each caller
    reader,          \* the preset's callback on the read thread
    host,            \* the halves of the report the HID client read last
    eventThread,     \* the preset's callback on the event thread
    answer           \* it completed the last event: "success", "failed"

input   == <<LastInputReport, ready, user, reader, host>>
gamepad == <<owner, started, input, eventThread, answer>>

Idle == [pc |-> "idle", copied |-> 0]

InitGamepad ==
    /\ owner = "create"
    /\ started = FALSE
    /\ LastInputReport = 0
    /\ ready = "nobody"
    /\ user = [u \in Users |-> Idle]
    /\ reader = Idle
    /\ host = <<0, 0>>
    /\ eventThread = "idle"
    /\ answer = "success"

-----------------------------------------------------------------------------
(* Life of the gamepad                                                     *)

\* The device is created and started.
CreateGamepad ==
    /\ owner = "create"
    /\ owner' = "run"
    /\ started' = TRUE
    /\ UNCHANGED <<input, eventThread, answer>>

\* A step of the creation fails, the neutral report after the start too,
\* and what there is is destroyed.
CreateGamepadFails ==
    /\ owner = "create"
    /\ owner' = "stopping"
    /\ started' \in BOOLEAN
    /\ UNCHANGED <<input, eventThread, answer>>

\* The caller destroys the gamepad when it is in no other function of it.
DestroyGamepad ==
    /\ owner = "run"
    /\ \A u \in Users : user[u].pc = "idle"
    /\ owner' = "stopping"
    /\ UNCHANGED <<started, input, eventThread, answer>>

\* WinUHidDestroyDevice stops the events,
StopDevice ==
    /\ owner = "destroyDevice"
    /\ started
    /\ started' = FALSE
    /\ UNCHANGED <<owner, input, eventThread, answer>>

\* waits for the threads that hand them out, and the gamepad is freed.
FreeGamepad ==
    /\ owner = "destroyDevice"
    /\ ~started
    /\ reader.pc = "idle"
    /\ eventThread = "idle"
    /\ owner' = "gone"
    /\ UNCHANGED <<started, input, eventThread, answer>>

-----------------------------------------------------------------------------
(* Input reports                                                           *)

\* VHF asks for a report when the last one it asked for was given.
HostAsks ==
    /\ started
    /\ ready = "nobody"
    /\ ready' = "pending"
    /\ UNCHANGED <<owner, started, LastInputReport, user, reader, host,
                   eventThread, answer>>

\* ReportInput, under the lock.
StoreReport(u) ==
    /\ owner = "run"
    /\ user[u].pc = "idle"
    /\ LastInputReport < MaxReports
    /\ LastInputReport' = LastInputReport + 1
    /\ user' = [user EXCEPT ![u] = [pc |-> "submit", copied |-> LastInputReport + 1]]
    /\ UNCHANGED <<owner, started, ready, reader, host, eventThread, answer>>

\* Mutant: the caller submits its own copy of the report.
SubmitOwnReport(u) ==
    /\ user[u].pc = "submit"
    /\ IF ready = "pending"
       THEN /\ ready' = "held"
            /\ user' = [user EXCEPT ![u].pc = "own"]
       ELSE /\ user' = [user EXCEPT ![u] = Idle]
            /\ UNCHANGED ready
    /\ UNCHANGED <<owner, started, LastInputReport, reader, host, eventThread,
                   answer>>

\* WinUHidSubmitInputReport takes the ready-for-read event and copies the
\* first half of the report, or fails with ERROR_NOT_READY.
SubmitReport(u) ==
    /\ user[u].pc = "submit"
    /\ IF ready = "pending"
       THEN /\ ready' = "held"
            /\ user' = [user EXCEPT ![u] = [pc |-> "copy", copied |-> LastInputReport]]
       ELSE /\ user' = [user EXCEPT ![u] = Idle]
            /\ UNCHANGED ready
    /\ UNCHANGED <<owner, started, LastInputReport, reader, host, eventThread,
                   answer>>

\* The second half, and the event is completed.
FinishSubmit(u) ==
    /\ user[u].pc \in {"copy", "own"}
    /\ host' = <<user[u].copied,
                 IF user[u].pc = "own" THEN user[u].copied ELSE LastInputReport>>
    /\ ready' = "nobody"
    /\ user' = [user EXCEPT ![u] = Idle]
    /\ UNCHANGED <<owner, started, LastInputReport, reader, eventThread, answer>>

\* Mutant: the event is failed, as if there were nothing to report.
HandleReadReportFails ==
    /\ started
    /\ reader.pc = "idle"
    /\ ready = "pending"
    /\ ready' = "nobody"
    /\ UNCHANGED <<owner, started, LastInputReport, user, reader, host,
                   eventThread, answer>>

\* The callback with WINUHID_EVENT_READ_REPORT, under the lock.
HandleReadReport ==
    /\ started
    /\ reader.pc = "idle"
    /\ ready = "pending"
    /\ ready' = "held"
    /\ reader' = [reader EXCEPT !.pc = "unlocked"]
    /\ UNCHANGED <<owner, started, LastInputReport, user, host, eventThread,
                   answer>>

\* WinUHidCompleteReadEvent copies the report, half by half.
CopyReport ==
    /\ reader.pc = "unlocked"
    /\ reader' = [pc |-> "copy", copied |-> LastInputReport]
    /\ UNCHANGED <<owner, started, LastInputReport, ready, user, host,
                   eventThread, answer>>

CompleteReadReport ==
    /\ reader.pc = "copy"
    /\ host' = <<reader.copied, LastInputReport>>
    /\ ready' = "nobody"
    /\ reader' = Idle
    /\ UNCHANGED <<owner, started, LastInputReport, user, eventThread, answer>>

GamepadNext ==
    \/ CreateGamepad
    \/ CreateGamepadFails
    \/ DestroyGamepad
    \/ StopDevice
    \/ FreeGamepad
    \/ HostAsks
    \/ \E u \in Users : StoreReport(u) \/ SubmitReport(u) \/ FinishSubmit(u)
    \/ HandleReadReport
    \/ CopyReport
    \/ CompleteReadReport

=============================================================================
