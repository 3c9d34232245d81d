-------------------------- MODULE WinUHidPlayStation --------------------------
(* One gamepad, of the PS4 or of the PS5 preset, with all its threads.       *)
EXTENDS WinUHidPS4, WinUHidPS5

VARIABLE preset

vars == <<preset, gamepad, ps4, ps5>>

Init ==
    /\ preset \in {"PS4", "PS5"}
    /\ InitGamepad
    /\ InitPS4
    /\ InitPS5

NextPS4 == preset = "PS4" /\ PS4Next /\ UNCHANGED <<preset, ps5>>
NextPS5 == preset = "PS5" /\ PS5Next /\ UNCHANGED <<preset, ps4>>

\* A destroyed gamepad is not used again.
Destroyed == owner = "gone" /\ UNCHANGED vars

Next == NextPS4 \/ NextPS5 \/ Destroyed

\* A thread that is inside the presets or the SDK goes on; nothing is
\* assumed of when callers report or HID clients ask and write.
OfPS4(thread) == preset = "PS4" /\ thread /\ UNCHANGED <<preset, ps5>>
OfPS5(thread) == preset = "PS5" /\ thread /\ UNCHANGED <<preset, ps4>>

Callers(u) == SubmitReport(u) \/ FinishSubmit(u)
ReadThread == HandleReadReport \/ CopyReport \/ CompleteReadReport
Destruction == StopDevice \/ FreeGamepad

InBoth(thread) == thread /\ UNCHANGED <<preset, ps4, ps5>>

Spec ==
    /\ Init
    /\ [][Next]_vars
    /\ \A u \in Users : WF_vars(InBoth(Callers(u)))
    /\ WF_vars(InBoth(ReadThread))
    /\ WF_vars(InBoth(Destruction))
    /\ WF_vars(OfPS4(EventThread))
    /\ WF_vars(OfPS4(LedThread))
    /\ WF_vars(OfPS4(PS4Owner))
    /\ WF_vars(OfPS5(DestroyPS5))

-----------------------------------------------------------------------------
(* Properties                                                              *)

\* Each half of what the HID client reads is from a report that was stored,
\* and never from an older one than it had read before, though callers and
\* the read thread race for the events and copy without the lock.
NoReportGoesBack ==
    [][\A half \in {1, 2} : host'[half] \in host[half]..LastInputReport]_vars

\* "our callback function will report this input once the caller is ready
\* for it": a HID client that asks again and again has the latest report,
\* whole, when the callers have no more to report (there are MaxReports),
\* though no submission may have found it ready.
ReportReachesHost ==
    []<>(ready # "nobody")
    => []<>(host = <<LastInputReport, LastInputReport>> \/ owner # "run")

\* PS4: when the LED thread waits, or blinks and is not about to be
\* interrupted, it shows the merged state of all output reports, unless one
\* has yet to signal it.
LedUpToDate ==
    /\ preset = "PS4"
    /\ led.pc \in {"wait", "on", "off"}
    /\ LedUpdatedEvent = "reset"
    /\ event.pc # "signal"
    => /\ led.state = LedState
       /\ shown = IF led.pc = "off" THEN Off ELSE LedState.color

\* PS5: the caller knows every light and trigger effect as it was last
\* written, though a callback is skipped for what has not changed and the
\* triggers share one.  Of the motors it knows the setting written last, but
\* perhaps as vibration of the other kind, legacy or not: the change of the
\* kind alone is not told.
OutputsTold ==
    /\ \A o \in Lights \cup Triggers : told[o] = written[o]
    /\ \A o \in Motors :
           \E legacy \in BOOLEAN : told[o] = Amplitude(written[o], legacy)

\* The destruction returns: the LED thread ends whatever it shows, and no
\* callback holds the device up.
DestroyReturns == owner = "stopping" ~> owner = "gone"

=============================================================================
