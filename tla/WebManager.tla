------------------------------ MODULE WebManager ------------------------------
(***************************************************************************)
(* The web server's device manager: requests and WebSockets on tokio's     *)
(* threads share the devices of a map, each behind an Arc; whoever lets go *)
(* of the last clone runs Drop, which destroys the SDK's device.  The      *)
(* SDK's threads call back with HID events, answer reads from a cache of   *)
(* what was submitted, and send to the device's broadcast channel, from    *)
(* which its WebSockets are fed.                                           *)
(*                                                                         *)
(* Reports are numbered as their requests find the device; the layout of   *)
(* reports and events is left out.  A request's handler does not await, so *)
(* that it is not dropped half way.                                        *)
(***************************************************************************)
EXTENDS Naturals

CONSTANTS
    Devices,                 \* devices that may be created
    Requests,                \* tasks that serve HTTP requests
    Sockets,                 \* tasks that feed WebSockets
    Main,                    \* the thread that shuts the server down
    ReportIds,               \* first bytes of reports
    Zeros, Nothing,          \* what a read gets if not a report
    EVENT_CHANNEL_CAPACITY,
    MaxReports, MaxEvents    \* bounds on reports, and on events of a device

DeviceKind == {"Generic", "Mouse", "Gamepad"}
Threads == Requests \cup {Main}

Reports == [device : Devices, id : ReportIds, n : Nat]

ASSUME WebAssumption ==
    /\ Main \notin Requests
    /\ 0 \in ReportIds
    /\ Zeros \notin Reports /\ Nothing \notin Reports
    /\ EVENT_CHANNEL_CAPACITY \in Nat \ {0}
    /\ MaxReports \in Nat /\ MaxEvents \in Nat

VARIABLES
    kind,     \* what each device is made as
    device,   \* "none", "created", "listed", "removed", "stopping", "gone"
    callback, \* the SDK's thread of each device: "idle" or "send"
    request,  \* what each thread does, with which device and report
    current_inputs, last_report_id, \* of GenericCtx
    channel,  \* of each device: events sent, and whether a sender is left
    socket,
    given,    \* the report the device was given last
    shown,    \* the report of its last InputSnapshot
    reports,  \* history: how many reports there were,
    returned, \* those whose requests have succeeded,
    overtaken \* and those of them a later one with their id has replaced

context == <<current_inputs, last_report_id>>
history == <<reports, returned, overtaken>>
vars == <<kind, device, callback, request, context, channel, socket, given, shown, history>>

NoReport == [device |-> Main, id |-> 0, n |-> 0]

Idle == [pc |-> "idle"]
Holding(pc, d) == [pc |-> pc, device |-> d]

Init ==
    /\ kind \in [Devices -> DeviceKind]
    /\ device = [d \in Devices |-> "none"]
    /\ callback = [d \in Devices |-> "idle"]
    /\ request = [r \in Threads |-> Idle]
    /\ current_inputs = [d \in Devices |-> [id \in {} |-> NoReport]]
    /\ last_report_id = [d \in Devices |-> {}]
    /\ channel = [d \in Devices |-> [sent |-> 0, open |-> TRUE]]
    /\ socket = [s \in Sockets |-> Idle]
    /\ given = [d \in Devices |-> NoReport]
    /\ shown = [d \in Devices |-> NoReport]
    /\ reports = 0
    /\ returned = {}
    /\ overtaken = {}

-----------------------------------------------------------------------------
(* The map of devices                                                      *)

\* destroy_all keeps the lock of the map while it drops the devices.
MapFree == request[Main].pc \in {"idle", "runtime"}

\* No request begins once the runtime is dropped.
Serving(r) ==
    /\ r \in Requests
    /\ request[r] = Idle
    /\ request[Main].pc # "runtime"

HoldsClone(r, d) == "device" \in DOMAIN request[r] /\ request[r].device = d

Goes(r, pc) == request' = [request EXCEPT ![r].pc = pc]

\* The SDK's device is created and started, or the creation fails and undoes
\* what it did.
Create(r, d) ==
    /\ Serving(r)
    /\ device[d] = "none"
    /\ \/ /\ device' = [device EXCEPT ![d] = "created"]
          /\ request' = [request EXCEPT ![r] = Holding("insert", d)]
          /\ UNCHANGED channel
       \/ /\ device' = [device EXCEPT ![d] = "gone"]
          /\ channel' = [channel EXCEPT ![d].open = FALSE]
          /\ UNCHANGED request
    /\ UNCHANGED <<kind, callback, context, socket, given, shown, history>>

\* The clone that insert returns is let go.
Insert(r) ==
    /\ request[r].pc = "insert"
    /\ MapFree
    /\ device' = [device EXCEPT ![request[r].device] = "listed"]
    /\ Goes(r, "release")
    /\ UNCHANGED <<kind, callback, context, channel, socket, given, shown, history>>

\* get, for a report with its first byte; hex that is malformed or empty, and
\* a device of another kind, end the request.
GetForReport(r, d, id) ==
    /\ Serving(r)
    /\ MapFree
    /\ device[d] = "listed"
    /\ kind[d] # "Mouse"
    /\ reports < MaxReports
    /\ reports' = reports + 1
    /\ request' = [request EXCEPT ![r] =
                      [pc |-> IF kind[d] = "Generic" THEN "submit" ELSE "lock",
                       device |-> d,
                       report |-> [device |-> d, id |-> id, n |-> reports + 1],
                       past |-> returned]]
    /\ UNCHANGED <<kind, device, callback, context, channel, socket, given, shown,
                   returned, overtaken>>

GetFor(r, d, pc) ==
    /\ Serving(r)
    /\ MapFree
    /\ device[d] = "listed"
    /\ request' = [request EXCEPT ![r] = Holding(pc, d)]
    /\ UNCHANGED <<kind, device, callback, context, channel, socket, given, shown, history>>

\* Mutant: the SDK's device is destroyed although others use it.
DestroyNow(r, d) ==
    /\ Serving(r)
    /\ MapFree
    /\ device[d] = "listed"
    /\ device' = [device EXCEPT ![d] = "stopping"]
    /\ request' = [request EXCEPT ![r] = Holding("stop", d)]
    /\ UNCHANGED <<kind, callback, context, channel, socket, given, shown, history>>

Destroy(r, d) ==
    /\ Serving(r)
    /\ MapFree
    /\ device[d] = "listed"
    /\ device' = [device EXCEPT ![d] = "removed"]
    /\ request' = [request EXCEPT ![r] = Holding("release", d)]
    /\ UNCHANGED <<kind, callback, context, channel, socket, given, shown, history>>

-----------------------------------------------------------------------------
(* Drop                                                                    *)

Done(r) == request' = [request EXCEPT ![r] = IF r = Main THEN [pc |-> "clear"] ELSE Idle]

\* An Arc goes out of scope; the map holds one while the device is listed.
Release(r) ==
    /\ request[r].pc = "release"
    /\ LET d == request[r].device
       IN  IF device[d] = "removed" /\ \A q \in Threads \ {r} : ~HoldsClone(q, d)
           THEN /\ device' = [device EXCEPT ![d] = "stopping"]
                /\ Goes(r, "stop")
           ELSE /\ Done(r)
                /\ UNCHANGED device
    /\ UNCHANGED <<kind, callback, context, channel, socket, given, shown, history>>

\* Mutant: the callback's context, with its sender, is never freed.
DropDeviceLeaks(r) ==
    /\ request[r].pc = "stop"
    /\ callback[request[r].device] = "idle"
    /\ device' = [device EXCEPT ![request[r].device] = "gone"]
    /\ Done(r)
    /\ UNCHANGED <<kind, callback, context, channel, socket, given, shown, history>>

\* WinUHidStopDevice and the functions that destroy return when no callback
\* runs and none will; the context and the device's sender go.
DropDevice(r) ==
    /\ request[r].pc = "stop"
    /\ LET d == request[r].device
       IN  /\ callback[d] = "idle"
           /\ device' = [device EXCEPT ![d] = "gone"]
           /\ channel' = [channel EXCEPT ![d].open = FALSE]
    /\ Done(r)
    /\ UNCHANGED <<kind, callback, context, socket, given, shown, history>>

-----------------------------------------------------------------------------
(* Input                                                                   *)

Send(d) == channel' = [channel EXCEPT ![d].sent = @ + 1]

\* WinUHidSubmitInputReport
SubmitGenericInput(r) ==
    /\ request[r].pc = "submit"
    /\ \/ /\ given' = [given EXCEPT ![request[r].device] = request[r].report]
          /\ Goes(r, "cache")
       \/ /\ Goes(r, "release")
          /\ UNCHANGED given
    /\ UNCHANGED <<kind, device, callback, context, channel, socket, shown, history>>

\* Mutant: only the first report of an id is cached.
CacheInputOnce(r) ==
    /\ request[r].pc = "cache"
    /\ LET d == request[r].device
           report == request[r].report
       IN  current_inputs' = [current_inputs EXCEPT
               ![d] = [id \in DOMAIN @ \cup {report.id} |->
                          IF id \in DOMAIN @ THEN @[id] ELSE report]]
    /\ Goes(r, "last")
    /\ UNCHANGED <<kind, device, callback, last_report_id, channel, socket, given,
                   shown, history>>

\* Two locks, one after the other.
CacheInput(r) ==
    /\ request[r].pc = "cache"
    /\ LET d == request[r].device
           report == request[r].report
       IN  current_inputs' = [current_inputs EXCEPT
               ![d] = [id \in DOMAIN @ \cup {report.id} |->
                          IF id = report.id THEN report ELSE @[id]]]
    /\ Goes(r, "last")
    /\ UNCHANGED <<kind, device, callback, last_report_id, channel, socket, given,
                   shown, history>>

SetLastReportId(r) ==
    /\ request[r].pc = "last"
    /\ last_report_id' = [last_report_id EXCEPT
                              ![request[r].device] = {request[r].report.id}]
    /\ Goes(r, "snapshot")
    /\ UNCHANGED <<kind, device, callback, current_inputs, channel, socket, given,
                   shown, history>>

\* The gamepad's report is locked while the SDK has it and the snapshot is
\* sent.
Locks(r) == request[r].pc \in {"report", "snapshot"}

ReportLocked(d) == \E r \in Threads : HoldsClone(r, d) /\ Locks(r)

LockReport(r) ==
    /\ request[r].pc = "lock"
    /\ ~ReportLocked(request[r].device)
    /\ Goes(r, "report")
    /\ UNCHANGED <<kind, device, callback, context, channel, socket, given, shown, history>>

\* WinUHidPS4ReportInput, and those of the other gamepads.
ReportInput(r) ==
    /\ request[r].pc = "report"
    /\ given' = [given EXCEPT ![request[r].device] = request[r].report]
    /\ Goes(r, "snapshot")
    /\ UNCHANGED <<kind, device, callback, context, channel, socket, shown, history>>

\* The InputSnapshot is sent and the request succeeds.
SendSnapshot(r) ==
    /\ request[r].pc = "snapshot"
    /\ Send(request[r].device)
    /\ shown' = [shown EXCEPT ![request[r].device] = request[r].report]
    /\ returned' = returned \cup {request[r].report}
    /\ overtaken' = overtaken \cup
                        {p \in request[r].past : /\ p.device = request[r].device
                                                 /\ p.id = request[r].report.id}
    /\ Goes(r, "release")
    /\ UNCHANGED <<kind, device, callback, context, socket, given, reports>>

\* WinUHidMouseReportMotion, Button or Scroll.
UseMouse(r) ==
    /\ request[r].pc = "mouse"
    /\ Goes(r, "release")
    /\ UNCHANGED <<kind, device, callback, context, channel, socket, given, shown, history>>

-----------------------------------------------------------------------------
(* Callbacks                                                               *)

\* What a read of an id and length gets: the report cached for it, for id 0
\* the last one, or zeros of that length.  The cache is locked all the while.
pick_read_snapshot(d, id, length) ==
    LET ids == IF id # 0 THEN {id} ELSE last_report_id[d]
        found == ids \cap DOMAIN current_inputs[d]
    IN  IF found # {} THEN current_inputs[d][CHOOSE i \in found : TRUE]
        ELSE IF length > 0 THEN Zeros ELSE Nothing

\* generic_event_callback completes the event first, a read with what
\* pick_read_snapshot gets; a gamepad's callbacks only send.
CallBack(d) ==
    /\ kind[d] # "Mouse"
    /\ device[d] \in {"created", "listed", "removed"}
    /\ callback[d] = "idle"
    /\ channel[d].sent < MaxEvents
    /\ callback' = [callback EXCEPT ![d] = "send"]
    /\ UNCHANGED <<kind, device, request, context, channel, socket, given, shown,
                   history>>

SendEvent(d) ==
    /\ callback[d] = "send"
    /\ callback' = [callback EXCEPT ![d] = "idle"]
    /\ Send(d)
    /\ UNCHANGED <<kind, device, request, context, socket, given, shown, history>>

-----------------------------------------------------------------------------
(* WebSockets                                                              *)

\* ws_events subscribes, lets the device go, and the socket is upgraded.
Subscribe(r, s) ==
    /\ request[r].pc = "subscribe"
    /\ socket[s] = Idle
    /\ socket' = [socket EXCEPT ![s] =
                     [pc |-> "open", device |-> request[r].device,
                      next |-> channel[request[r].device].sent + 1]]
    /\ Goes(r, "release")
    /\ UNCHANGED <<kind, device, callback, context, channel, given, shown, history>>

\* The client has gone, or no task is left for it.
UpgradeFails(r) ==
    /\ request[r].pc = "subscribe"
    /\ Goes(r, "release")
    /\ UNCHANGED <<kind, device, callback, context, channel, socket, given, shown, history>>

\* The oldest events a channel keeps: recv of an older one is Lagged, and the
\* next round of the loop goes on with the oldest.
Oldest(d) ==
    IF channel[d].sent > EVENT_CHANNEL_CAPACITY
    THEN channel[d].sent - EVENT_CHANNEL_CAPACITY + 1 ELSE 1

Lagged(s) ==
    /\ socket[s].pc = "open"
    /\ socket[s].next < Oldest(socket[s].device)
    /\ socket' = [socket EXCEPT ![s].next = Oldest(socket[s].device)]
    /\ UNCHANGED <<kind, device, callback, request, context, channel, given, shown, history>>

\* recv of an event, which is sent without looking at the client.
Forward(s) ==
    /\ socket[s].pc = "open"
    /\ socket[s].next \in Oldest(socket[s].device)..channel[socket[s].device].sent
    /\ socket' = [socket EXCEPT ![s].pc = "sending", ![s].next = @ + 1]
    /\ UNCHANGED <<kind, device, callback, request, context, channel, given, shown, history>>

Sent(s) ==
    /\ socket[s].pc = "sending"
    /\ socket' = [socket EXCEPT ![s].pc = "open"]
    /\ UNCHANGED <<kind, device, callback, request, context, channel, given, shown, history>>

\* All senders are gone and nothing is left to receive.
Closed(s) ==
    /\ socket[s].pc = "open"
    /\ ~channel[socket[s].device].open
    /\ socket[s].next > channel[socket[s].device].sent
    /\ socket' = [socket EXCEPT ![s].pc = "closed"]
    /\ UNCHANGED <<kind, device, callback, request, context, channel, given, shown, history>>

\* The client closes or the connection fails; or the runtime is dropped.
Disconnects(s) ==
    /\ socket[s].pc \in {"open", "sending"}
    /\ socket' = [socket EXCEPT ![s].pc = "left"]
    /\ UNCHANGED <<kind, device, callback, request, context, channel, given, shown, history>>

-----------------------------------------------------------------------------
(* Shutdown                                                                *)

Shutdown ==
    /\ request[Main] = Idle
    /\ request' = [request EXCEPT ![Main] = [pc |-> "clear"]]
    /\ UNCHANGED <<kind, device, callback, context, channel, socket, given, shown, history>>

\* destroy_all, and later the map itself, drop one device after another.
ClearOne ==
    /\ request[Main].pc = "clear"
    /\ \E d \in Devices :
          /\ device[d] = "listed"
          /\ device' = [device EXCEPT ![d] = "removed"]
          /\ request' = [request EXCEPT ![Main] = Holding("release", d)]
    /\ UNCHANGED <<kind, callback, context, channel, socket, given, shown, history>>

Cleared ==
    /\ request[Main].pc = "clear"
    /\ \A d \in Devices : device[d] # "listed"
    /\ Goes(Main, "runtime")
    /\ UNCHANGED <<kind, device, callback, context, channel, socket, given, shown, history>>

\* The last request lets the manager go, and with it a device that was
\* inserted behind destroy_all.
DropManager ==
    /\ request[Main].pc = "runtime"
    /\ \A r \in Requests : request[r] = Idle
    /\ \E d \in Devices : device[d] = "listed"
    /\ Goes(Main, "clear")
    /\ UNCHANGED <<kind, device, callback, context, channel, socket, given, shown, history>>

-----------------------------------------------------------------------------
Handler(r) ==
    \/ Insert(r)
    \/ Release(r)
    \/ DropDevice(r)
    \/ SubmitGenericInput(r)
    \/ CacheInput(r)
    \/ SetLastReportId(r)
    \/ LockReport(r)
    \/ ReportInput(r)
    \/ SendSnapshot(r)
    \/ UseMouse(r)
    \/ \E s \in Sockets : Subscribe(r, s)
    \/ UpgradeFails(r)

MainThread == Shutdown \/ ClearOne \/ Cleared \/ DropManager

Feed(s) == Lagged(s) \/ Forward(s) \/ Sent(s) \/ Closed(s)

Next ==
    \/ \E r \in Threads : Handler(r)
    \/ \E r \in Requests, d \in Devices : Create(r, d) \/ Destroy(r, d)
    \/ \E r \in Requests, d \in Devices, id \in ReportIds : GetForReport(r, d, id)
    \/ \E r \in Requests, d \in Devices :
          \E pc \in {"subscribe", "release"}
                    \cup IF kind[d] = "Mouse" THEN {"mouse"} ELSE {} : GetFor(r, d, pc)
    \/ \E d \in Devices : CallBack(d) \/ SendEvent(d)
    \/ \E s \in Sockets : Feed(s) \/ Disconnects(s)
    \/ MainThread

\* Handlers, the drop of a map and callbacks run on; tokio polls a task that
\* can go on, and a client takes what it is sent or is lost.
Spec ==
    /\ Init
    /\ [][Next]_vars
    /\ \A r \in Threads : WF_vars(Handler(r))
    /\ \A d \in Devices : WF_vars(SendEvent(d))
    /\ \A s \in Sockets : WF_vars(Feed(s))
    /\ WF_vars(ClearOne \/ Cleared \/ DropManager)

-----------------------------------------------------------------------------
(* Properties                                                              *)

\* The SDK's device is in no thread's hand, and in no callback's, once it is
\* being destroyed, though requests may have found it before it was removed;
\* and one thread destroys it.
DestroyedAlone ==
    \A d \in Devices :
        device[d] \in {"stopping", "gone"} =>
            /\ {request[r].pc : r \in {r \in Threads : HoldsClone(r, d)}} \subseteq {"stop"}
            /\ \A q, r \in Threads : HoldsClone(q, d) /\ HoldsClone(r, d) => q = r
            /\ device[d] = "gone" => callback[d] = "idle"

\* What is seen of the input is up to date.  A read is not answered with a
\* report that a later request of its id had replaced, nor with zeros or
\* nothing once a request has succeeded (which submissions that fail, and
\* those that overlap, could spoil); and the last InputSnapshot of a gamepad
\* is of the report it has, whenever no request is about to send one.
SeenIsCurrent ==
    \A d \in Devices :
        /\ kind[d] = "Generic" => \A id \in ReportIds :
              LET found == pick_read_snapshot(d, id, 1)
                  succeeded == {p \in returned : p.device = d /\ id \in {0, p.id}}
              IN  /\ id # 0 => found \notin overtaken
                  /\ found = Zeros => succeeded = {}
        /\ kind[d] = "Gamepad" => ReportLocked(d) \/ shown[d] = given[d]

\* A device that was removed is destroyed whatever requests, reads and feeds
\* are under way, and its feeds end.
DestroyEnds ==
    \A d \in Devices :
        device[d] = "removed" ~>
            /\ device[d] = "gone"
            /\ \A s \in Sockets :
                   "device" \in DOMAIN socket[s] /\ socket[s].device = d
                   => socket[s].pc \in {"closed", "left"}

=============================================================================
