---------------------------- MODULE WinUHidDriver ----------------------------
(***************************************************************************)
(* The request machinery of the UMDF driver (WinUHid Driver/WinUHid.c) for *)
(* one open file object, i.e. one virtual HID device.                      *)
(*                                                                         *)
(* VHF calls the driver back once per HID operation, on threads of its     *)
(* own; DispatchAsyncOperation wraps the operation in an object and puts   *)
(* it in WaitingRequests.  The client (WinUHid.dll) fetches operations     *)
(* with IOCTL_WINUHID_GET_NEXT_EVENT, which moves them to                  *)
(* OutstandingRequests, and answers them with                              *)
(* IOCTL_WINUHID_COMPLETE_{READ,WRITE}_EVENT.  The default queue is        *)
(* parallel and nothing but RequestLock serialises these handlers, so a    *)
(* handler is split into one action per stretch of code between two        *)
(* points where another thread can observe or change shared state.         *)
(***************************************************************************)
EXTENDS Integers, Sequences, FiniteSets

CONSTANTS
    ReadOps,        \* VHF operations that read: GET_FEATURE, GET_INPUT_REPORT
    WriteOps,       \* VHF operations that write: SET_FEATURE, WRITE_REPORT
    ReadyOps,       \* objects of "ready for next read report" pseudo-requests
    Polls,          \* GET_NEXT_EVENT requests the client may have in flight
    Clients,        \* client threads issuing COMPLETE_* and write requests
    MSB,            \* 0x80000000, the bit that marks the ID of a real request
    UnknownReports, \* real operations whose report ID has no known size
    AllocMayFail,   \* TRUE iff WDF object and collection allocations may fail
    Repeats,        \* TRUE iff a client may answer the same event twice
    None            \* the NULL pointer

RealOps == ReadOps \cup WriteOps
Ops     == RealOps \cup ReadyOps

ASSUME DriverAssumption ==
    /\ IsFiniteSet(RealOps)
    /\ MSB \in Nat
    /\ Cardinality(RealOps) < MSB  \* no file sees 2^31 operations
    /\ ReadOps \cap WriteOps = {}
    /\ RealOps \cap ReadyOps = {}
    /\ UnknownReports \subseteq RealOps
    /\ AllocMayFail \in BOOLEAN
    /\ Repeats \in BOOLEAN
    /\ None \notin Ops \cup Polls \cup Clients

VARIABLES
    file,           \* the file object: "open", "cleanup", "rundown", "closed"
    vhf,            \* the VHF device: "none", "created", "started", "deleted"
    VhfHandle,      \* TRUE iff FILE_CONTEXT.VhfHandle is not NULL
    NextRequestId,  \* FILE_CONTEXT.NextRequestId, as an unsigned integer
    RequestId,      \* OPERATION_CONTEXT.RequestId of each operation object
    WaitingRequests,      \* queued operations, oldest first
    OutstandingRequests,  \* operations handed to the client
    callback,       \* callback[o]: the DispatchAsyncOperation call for o
    request,        \* request[p]: the GET_NEXT_EVENT request p
    client,         \* client[c]: the COMPLETE_* handler running for c
    operation,      \* operation[o]: VHF's view of the real operation o
    ready,          \* VHF's view of "ready for next read report", and whether
                    \* the client promised a report or dropped the request
    seen            \* operations whose event the client has received

driverVars == <<VhfHandle, NextRequestId, RequestId, WaitingRequests,
                OutstandingRequests>>
vars == <<file, vhf, driverVars, callback, request, client, operation, ready,
          seen>>

IdleCallback == [pc |-> "idle", poll |-> None, caller |-> None]
IdleRequest  == [pc |-> "idle", room |-> FALSE, cancelled |-> FALSE]
IdleClient   == [pc |-> "idle", op |-> None, event |-> None, status |-> "fail"]

\* How the client completes an event: by COMPLETE_READ_EVENT with data, with a
\* zero-length success or with a failure, or by COMPLETE_WRITE_EVENT.  Nothing
\* ties the IOCTL to the type of the event.
Statuses == {"data", "empty", "fail", "write"}

\* What VHF has been told about an operation.  "twice" is VHF's view of a
\* handle that was completed when it was not pending.
Replies == {"answered", "failed", "refused", "too_late", "cancelled"}

Init ==
    /\ file = "open"
    /\ vhf = "none"
    /\ VhfHandle = FALSE
    /\ NextRequestId = 0
    /\ RequestId = [o \in Ops |-> 0]
    /\ WaitingRequests = <<>>
    /\ OutstandingRequests = {}
    /\ callback = [o \in Ops |-> IdleCallback]
    /\ request = [p \in Polls |-> IdleRequest]
    /\ client = [c \in Clients |-> IdleClient]
    /\ operation = [o \in RealOps |-> "new"]
    /\ ready = "satisfied"
    /\ seen = {}

-----------------------------------------------------------------------------
(* Helpers                                                                 *)

\* VhfAsyncOperationComplete(Handle, reply): VHF accepts one completion.  A
\* pseudo-request has no handle, so there is nothing to complete.
VhfAsyncOperationComplete(o, reply) ==
    operation' = IF o \in RealOps
                 THEN [operation EXCEPT ![o] = IF @ = "pending" THEN reply
                                               ELSE "twice"]
                 ELSE operation

\* The DispatchAsyncOperation call for o returns.
Return(o) == callback' = [callback EXCEPT ![o] = IdleCallback]

Goto(o, label) == callback' = [callback EXCEPT ![o].pc = label]

Queued(o) == \E i \in DOMAIN WaitingRequests : WaitingRequests[i] = o

\* No driver thread or collection refers to the object o.
Unused(o) ==
    /\ callback[o].pc = "idle"
    /\ ~Queued(o)
    /\ o \notin OutstandingRequests
    /\ \A c \in Clients : client[c].op # o

\* A poll that has been given to neither a queue nor a callback.
Pended == {p \in Polls : request[p].pc = "queued"}

-----------------------------------------------------------------------------
(* Device creation                                                         *)

\* IOCTL_WINUHID_CREATE_DEVICE, with the configuration already set.
CreateDevice ==
    /\ file = "open"
    /\ ~VhfHandle
    /\ VhfHandle' = TRUE
    /\ vhf' = "created"
    /\ UNCHANGED <<file, NextRequestId, RequestId, WaitingRequests,
                   OutstandingRequests, callback, request, client, operation,
                   ready, seen>>

\* IOCTL_WINUHID_START_DEVICE: VHF may call back from now on.
StartDevice ==
    /\ file = "open"
    /\ VhfHandle
    /\ vhf = "created"
    /\ vhf' = "started"
    /\ UNCHANGED <<file, driverVars, callback, request, client, operation,
                   ready, seen>>

-----------------------------------------------------------------------------
(* VHF callbacks and DispatchAsyncOperation                                *)

\* EvtVhfAsyncOperation{Get,Set}Feature, WriteReport, GetInputReport: VHF has
\* an operation for the driver.
VhfAsyncOperation(o) ==
    /\ vhf = "started"
    /\ operation[o] = "new"
    /\ operation' = [operation EXCEPT ![o] = "pending"]
    /\ Goto(o, "create")
    /\ UNCHANGED <<file, vhf, driverVars, request, client, ready, seen>>

\* EvtVhfReadyForNextReadReport: VHF asks for one more input report, once
\* per report it consumed.
VhfReadyForNextReadReport(o) ==
    /\ vhf = "started"
    /\ ready = "satisfied"
    /\ Unused(o)
    /\ ready' = "wanted"
    /\ Goto(o, "create")
    /\ UNCHANGED <<file, vhf, driverVars, request, client, operation, seen>>

\* WdfObjectCreate fails: a real operation is failed, a pseudo-request is
\* dropped without a trace.
CreateOperationFails(o) ==
    /\ callback[o].pc = "create"
    /\ AllocMayFail
    /\ VhfAsyncOperationComplete(o, "failed")
    /\ Return(o)
    /\ UNCHANGED <<file, vhf, driverVars, request, client, ready, seen>>

\* The object of a pseudo-request gets the fixed ID 0.
CreatePseudoOperation(o) ==
    /\ o \in ReadyOps
    /\ callback[o].pc = "create"
    /\ RequestId' = [RequestId EXCEPT ![o] = 0]
    /\ Goto(o, "lock")
    /\ UNCHANGED <<file, vhf, VhfHandle, NextRequestId, WaitingRequests,
                   OutstandingRequests, request, client, operation, ready,
                   seen>>

\* Mutant: InterlockedDecrement for InterlockedIncrement.
CreateRealOperationDecrements(o) ==
    /\ o \in RealOps
    /\ callback[o].pc = "create"
    /\ NextRequestId' = NextRequestId - 1
    /\ RequestId' = [RequestId EXCEPT ![o] = MSB + (NextRequestId' % MSB)]
    /\ Goto(o, "lock")
    /\ UNCHANGED <<file, vhf, VhfHandle, WaitingRequests, OutstandingRequests,
                   request, client, operation, ready, seen>>

\* Mutant: the ID of the previous operation is used again.
CreateRealOperationSameId(o) ==
    /\ o \in RealOps
    /\ callback[o].pc = "create"
    /\ RequestId' = [RequestId EXCEPT ![o] = MSB + (NextRequestId % MSB)]
    /\ Goto(o, "lock")
    /\ UNCHANGED <<file, vhf, VhfHandle, NextRequestId, WaitingRequests,
                   OutstandingRequests, request, client, operation, ready,
                   seen>>

\* A real operation gets the next ID with the MSB set; it is failed here when
\* no report of the descriptor has its report ID.
CreateRealOperation(o) ==
    /\ o \in RealOps
    /\ callback[o].pc = "create"
    /\ NextRequestId' = (NextRequestId + 1) % (2 * MSB)
    /\ RequestId' = [RequestId EXCEPT ![o] = MSB + (NextRequestId' % MSB)]
    /\ IF o \in UnknownReports
       THEN VhfAsyncOperationComplete(o, "failed") /\ Return(o)
       ELSE Goto(o, "lock") /\ UNCHANGED operation
    /\ UNCHANGED <<file, vhf, VhfHandle, WaitingRequests, OutstandingRequests,
                   request, client, ready, seen>>

\* Mutant: VhfHandle is not checked again under RequestLock.
QueueOperationUnchecked(o) ==
    /\ callback[o].pc = "lock"
    /\ WaitingRequests' = Append(WaitingRequests, o)
    /\ Goto(o, "retrieve")
    /\ UNCHANGED <<file, vhf, VhfHandle, NextRequestId, RequestId,
                   OutstandingRequests, request, client, operation, ready,
                   seen>>

\* Under RequestLock: queue the operation, unless the file is being closed or
\* the collection cannot grow.
QueueOperation(o) ==
    /\ callback[o].pc = "lock"
    /\ \/ /\ VhfHandle
          /\ WaitingRequests' = Append(WaitingRequests, o)
          /\ Goto(o, "retrieve")
          /\ UNCHANGED operation
       \/ /\ ~VhfHandle
          /\ VhfAsyncOperationComplete(o, "too_late")
          /\ Return(o)
          /\ UNCHANGED WaitingRequests
       \/ /\ VhfHandle
          /\ AllocMayFail
          /\ VhfAsyncOperationComplete(o, "failed")
          /\ Return(o)
          /\ UNCHANGED WaitingRequests
    /\ UNCHANGED <<file, vhf, VhfHandle, NextRequestId, RequestId,
                   OutstandingRequests, request, client, ready, seen>>

\* WdfIoQueueRetrieveRequestByFileObject, after RequestLock was released: take
\* a pended poll of this file, if there is one.
RetrievePendedPoll(o) ==
    /\ callback[o].pc = "retrieve"
    /\ \/ /\ Pended = {}
          /\ Return(o)
          /\ UNCHANGED request
       \/ \E p \in Pended :
             /\ request' = [request EXCEPT ![p].pc = "held"]
             /\ callback' = [callback EXCEPT ![o].pc = "serve", ![o].poll = p]
    /\ UNCHANGED <<file, vhf, driverVars, client, operation, ready, seen>>

\* Mutant: the operation leaves WaitingRequests before the buffer is checked.
TryCompleteGetNextEventTooSmall(p, room) ==
    LET o == Head(WaitingRequests) IN
    /\ WaitingRequests # <<>>
    /\ request' = [request EXCEPT ![p] = IdleRequest]
    /\ WaitingRequests' = Tail(WaitingRequests)
    /\ \/ /\ room \/ o \notin WriteOps
          /\ OutstandingRequests' = OutstandingRequests \cup {o}
          /\ seen' = seen \cup {o}
       \/ /\ ~room
          /\ o \in WriteOps
          /\ UNCHANGED <<OutstandingRequests, seen>>

\* TryCompleteGetNextEvent, under RequestLock, when an operation is waiting:
\* the oldest one goes out through poll p, or p fails and the operation stays
\* because the buffer of p has no room for its data or a collection cannot
\* grow.  Either way p is completed.
TryCompleteGetNextEvent(p, room) ==
    LET o == Head(WaitingRequests) IN
    /\ WaitingRequests # <<>>
    /\ request' = [request EXCEPT ![p] = IdleRequest]
    /\ \/ /\ room \/ o \notin WriteOps
          /\ WaitingRequests' = Tail(WaitingRequests)
          /\ OutstandingRequests' = OutstandingRequests \cup {o}
          /\ seen' = seen \cup {o}
       \/ /\ AllocMayFail \/ (~room /\ o \in WriteOps)
          /\ UNCHANGED <<WaitingRequests, OutstandingRequests, seen>>

\* The callback serves the poll it retrieved, or finds that another poll took
\* the operation in the meantime.
ServePendedPoll(o) ==
    LET p == callback[o].poll IN
    /\ callback[o].pc = "serve"
    /\ \/ TryCompleteGetNextEvent(p, request[p].room) /\ Return(o)
       \/ /\ WaitingRequests = <<>>
          /\ Goto(o, "requeue")
          /\ UNCHANGED <<WaitingRequests, OutstandingRequests, request, seen>>
    /\ UNCHANGED <<file, vhf, VhfHandle, NextRequestId, RequestId, client,
                   operation, ready>>

\* A poll enters GetNextEventIoctlQueue, which completes it at once if it was
\* cancelled while a driver thread held it.
EnterPollQueue(p) ==
    request' = [request EXCEPT ![p] =
                   IF @.cancelled THEN IdleRequest ELSE [@ EXCEPT !.pc = "queued"]]

\* WdfRequestRequeue of the poll this callback could not serve.
RequeuePoll(o) ==
    /\ callback[o].pc = "requeue"
    /\ EnterPollQueue(callback[o].poll)
    /\ Return(o)
    /\ UNCHANGED <<file, vhf, driverVars, client, operation, ready, seen>>

-----------------------------------------------------------------------------
(* IOCTL_WINUHID_GET_NEXT_EVENT                                            *)

\* The handler tries to complete the poll; if nothing is waiting it goes on,
\* without RequestLock, to queue it.
GetNextEvent(p) ==
    /\ file = "open"
    /\ VhfHandle
    /\ request[p].pc = "idle"
    /\ \E room \in BOOLEAN :
          \/ TryCompleteGetNextEvent(p, room)
          \/ /\ WaitingRequests = <<>>
             /\ request' = [request EXCEPT ![p] =
                               [pc |-> "forward", room |-> room, cancelled |-> FALSE]]
             /\ UNCHANGED <<WaitingRequests, OutstandingRequests, seen>>
    /\ UNCHANGED <<file, vhf, VhfHandle, NextRequestId, RequestId, callback,
                   client, operation, ready>>

\* WdfRequestForwardToIoQueue of a poll that found nothing waiting.
ForwardPoll(p) ==
    /\ request[p].pc = "forward"
    /\ EnterPollQueue(p)
    /\ UNCHANGED <<file, vhf, driverVars, callback, client, operation, ready,
                   seen>>

\* What cancelling does to one poll: a pended one completes, one that a driver
\* thread holds completes when it enters the queue (unless it is served).
CancelledPoll(r) ==
    IF r.pc = "idle" THEN r
    ELSE IF r.pc = "queued" THEN IdleRequest
    ELSE [r EXCEPT !.cancelled = TRUE]

\* CancelIoEx from the client: a poll timed out or the device was stopped.
CancelPoll(p) ==
    /\ file = "open"
    /\ request[p].pc # "idle"
    /\ ~request[p].cancelled
    /\ request' = [request EXCEPT ![p] = CancelledPoll(@)]
    /\ UNCHANGED <<file, vhf, driverVars, callback, client, operation, ready,
                   seen>>

-----------------------------------------------------------------------------
(* IOCTL_WINUHID_COMPLETE_READ_EVENT, ..._COMPLETE_WRITE_EVENT, writes     *)

\* The outstanding operations that carry the request ID of event e.
Matching(e) == {t \in OutstandingRequests : RequestId[t] = RequestId[e]}

\* Mutant: the request is found but stays in OutstandingRequests.
TakeOutstandingRequestLeavesIt(c) ==
    /\ file = "open"
    /\ VhfHandle
    /\ client[c].pc = "idle"
    /\ \E e \in seen, s \in Statuses :
          \E t \in Matching(e) :
              client' = [client EXCEPT ![c] =
                            [pc |-> "taken", op |-> t, event |-> e, status |-> s]]
    /\ UNCHANGED <<file, vhf, driverVars, callback, request, operation, ready,
                   seen>>

\* TakeOutstandingRequestById, under RequestLock, for an event the client was
\* given.  STATUS_NOT_FOUND ends the request.
TakeOutstandingRequest(c) ==
    /\ file = "open"
    /\ VhfHandle
    /\ client[c].pc = "idle"
    /\ \E e \in seen, s \in Statuses :
          /\ seen' = IF Repeats THEN seen ELSE seen \ {e}
          /\ \/ /\ Matching(e) = {}
                /\ UNCHANGED <<OutstandingRequests, client>>
             \/ \E t \in Matching(e) :
                   /\ OutstandingRequests' = OutstandingRequests \ {t}
                   /\ client' = [client EXCEPT ![c] =
                         [pc |-> "taken", op |-> t, event |-> e, status |-> s]]
    /\ UNCHANGED <<file, vhf, VhfHandle, NextRequestId, RequestId,
                   WaitingRequests, callback, request, operation, ready>>

\* The rest of either handler for a real operation: complete it to VHF, with
\* the client's status.
CompleteRealOperation(c) ==
    /\ client[c].pc = "taken"
    /\ client[c].op \in RealOps
    /\ \/ /\ client[c].status # "fail"
          /\ VhfAsyncOperationComplete(client[c].op, "answered")
       \/ /\ client[c].status \in {"fail", "write"}
          /\ VhfAsyncOperationComplete(client[c].op, "refused")
    /\ client' = [client EXCEPT ![c] = IdleClient]
    /\ UNCHANGED <<file, vhf, driverVars, callback, request, ready, seen>>

\* What becomes of a wanted report.
NoLongerWanted(state) == IF ready = "wanted" THEN state ELSE ready

\* Mutant: a failed pseudo-request is not asked for again.
CompletePseudoOperationDropsFailure(c) ==
    /\ client[c].pc = "taken"
    /\ client[c].op \in ReadyOps
    /\ ready' = IF client[c].status = "data" THEN "satisfied"
                ELSE IF client[c].status = "empty" THEN NoLongerWanted("acknowledged")
                ELSE IF client[c].status = "write" THEN NoLongerWanted("dropped")
                ELSE ready
    /\ client' = [client EXCEPT ![c] = IdleClient]
    /\ UNCHANGED <<file, vhf, driverVars, callback, request, operation, seen>>

\* COMPLETE_READ_EVENT of a pseudo-request, with data: VHF takes the report, or
\* refuses it and the request is gone with the object.
SubmitReadReport(c) ==
    /\ client[c].status = "data"
    /\ ready' \in {"satisfied", NoLongerWanted("dropped")}
    /\ client' = [client EXCEPT ![c] = IdleClient]
    /\ UNCHANGED callback

\* With a zero-length success, which promises a later write, or with
\* COMPLETE_WRITE_EVENT, which completes no handle: the object goes.
EndPseudoOperation(c) ==
    /\ client[c].status \in {"empty", "write"}
    /\ ready' = NoLongerWanted(IF client[c].status = "empty" THEN "acknowledged"
                               ELSE "dropped")
    /\ client' = [client EXCEPT ![c] = IdleClient]
    /\ UNCHANGED callback

\* With a failure: the driver calls its own ready-for-read callback, which wraps
\* the request in a new object r.  The old object is inert by then and may
\* stand for the new one.
ReissuePseudoOperation(c) ==
    /\ client[c].status = "fail"
    /\ \E r \in ReadyOps :
          /\ callback[r].pc = "idle"
          /\ r = client[c].op \/ Unused(r)
          /\ callback' = [callback EXCEPT ![r] =
                [pc |-> "create", poll |-> None, caller |-> c]]
    /\ client' = [client EXCEPT ![c] = [IdleClient EXCEPT !.pc = "reissue"]]
    /\ UNCHANGED ready

\* The rest of either handler for a pseudo-request.
CompletePseudoOperation(c) ==
    /\ client[c].pc = "taken"
    /\ client[c].op \in ReadyOps
    /\ SubmitReadReport(c) \/ EndPseudoOperation(c) \/ ReissuePseudoOperation(c)
    /\ UNCHANGED <<file, vhf, driverVars, request, operation, seen>>

\* The synthetic callback has returned into the COMPLETE_READ_EVENT handler.
FinishReissue(c) ==
    /\ client[c].pc = "reissue"
    /\ \A o \in ReadyOps : callback[o].caller # c
    /\ client' = [client EXCEPT ![c] = IdleClient]
    /\ UNCHANGED <<file, vhf, driverVars, callback, request, operation, ready,
                   seen>>

\* WinUHidEvtIoWrite: an input report for VHF, whether or not it asked.
EvtIoWrite ==
    /\ file = "open"
    /\ VhfHandle
    /\ ready # "satisfied"
    /\ ready' = "satisfied"
    /\ UNCHANGED <<file, vhf, driverVars, callback, request, client, operation,
                   seen>>

-----------------------------------------------------------------------------
(* Closing the file                                                        *)

\* The client closes its handle (or dies): the framework cancels its polls.
CloseHandle ==
    /\ file = "open"
    /\ file' = "cleanup"
    /\ request' = [p \in Polls |-> CancelledPoll(request[p])]
    /\ UNCHANGED <<vhf, driverVars, callback, client, operation, ready, seen>>

\* Mutant: only the waiting operations are cancelled.
FileCloseRundownWaitingOnly ==
    /\ file = "cleanup"
    /\ \A p \in Polls : request[p].pc = "idle"
    /\ \A c \in Clients : client[c].pc = "idle"
    /\ file' = "rundown"
    /\ VhfHandle' = FALSE
    /\ operation' = [o \in RealOps |->
                        IF Queued(o) THEN "cancelled" ELSE operation[o]]
    /\ WaitingRequests' = <<>>
    /\ OutstandingRequests' = {}
    /\ UNCHANGED <<vhf, NextRequestId, RequestId, callback, request, client,
                   ready, seen>>

\* WinUHidEvtDeviceFileClose up to the release of RequestLock.  It runs when no
\* request of the file is left.
FileCloseRundown ==
    /\ file = "cleanup"
    /\ \A p \in Polls : request[p].pc = "idle"
    /\ \A c \in Clients : client[c].pc = "idle"
    /\ file' = "rundown"
    /\ VhfHandle' = FALSE
    /\ operation' = [o \in RealOps |->
                        IF Queued(o) \/ o \in OutstandingRequests
                        THEN IF operation[o] = "pending" THEN "cancelled" ELSE "twice"
                        ELSE operation[o]]
    /\ WaitingRequests' = <<>>
    /\ OutstandingRequests' = {}
    /\ UNCHANGED <<vhf, NextRequestId, RequestId, callback, request, client,
                   ready, seen>>

\* VhfDelete(vhfHandle, TRUE): VHF lets the driver go once its callbacks have
\* returned and every operation it handed over is completed.
VhfDelete ==
    /\ file = "rundown"
    /\ \A o \in Ops : callback[o].pc = "idle"
    /\ \A o \in RealOps : operation[o] # "pending"
    /\ file' = "closed"
    /\ vhf' = "deleted"
    /\ UNCHANGED <<driverVars, callback, request, client, operation, ready,
                   seen>>

\* Nothing happens to a closed file.
Closed == file = "closed" /\ UNCHANGED vars

-----------------------------------------------------------------------------

\* The steps of the callback thread that runs DispatchAsyncOperation for o.
DispatchAsyncOperation(o) ==
    \/ CreateOperationFails(o)
    \/ CreatePseudoOperation(o)
    \/ CreateRealOperation(o)
    \/ QueueOperation(o)
    \/ RetrievePendedPoll(o)
    \/ ServePendedPoll(o)
    \/ RequeuePoll(o)

\* The steps of a COMPLETE_* handler after it took an operation.
FinishComplete(c) ==
    \/ CompleteRealOperation(c)
    \/ CompletePseudoOperation(c)
    \/ FinishReissue(c)

Next ==
    \/ CreateDevice
    \/ StartDevice
    \/ \E o \in RealOps : VhfAsyncOperation(o)
    \/ \E o \in ReadyOps : VhfReadyForNextReadReport(o)
    \/ \E o \in Ops : DispatchAsyncOperation(o)
    \/ \E p \in Polls : GetNextEvent(p) \/ ForwardPoll(p) \/ CancelPoll(p)
    \/ \E c \in Clients : TakeOutstandingRequest(c) \/ FinishComplete(c)
    \/ EvtIoWrite
    \/ CloseHandle
    \/ FileCloseRundown
    \/ VhfDelete
    \/ Closed

\* A thread inside the driver runs on, and so does a close that has begun.
\* Nothing is assumed of VHF or of the client.
Fairness ==
    /\ \A o \in Ops : WF_vars(DispatchAsyncOperation(o))
    /\ \A p \in Polls : WF_vars(ForwardPoll(p))
    /\ \A c \in Clients : WF_vars(FinishComplete(c))
    /\ WF_vars(FileCloseRundown)
    /\ WF_vars(VhfDelete)

Spec == Init /\ [][Next]_vars /\ Fairness

-----------------------------------------------------------------------------
(* Properties                                                              *)

CallbackState ==
    [pc : {"idle", "create", "lock", "retrieve", "serve", "requeue"},
     poll : Polls \cup {None}, caller : Clients \cup {None}]

RequestState ==
    [pc : {"idle", "forward", "queued", "held"},
     room : BOOLEAN, cancelled : BOOLEAN]

ClientState ==
    [pc : {"idle", "taken", "reissue"}, op : Ops \cup {None},
     event : Ops \cup {None}, status : Statuses]

\* Every variable has its type.
TypeOK ==
    /\ file \in {"open", "cleanup", "rundown", "closed"}
    /\ vhf \in {"none", "created", "started", "deleted"}
    /\ VhfHandle \in BOOLEAN
    /\ NextRequestId \in Nat
    /\ RequestId \in [Ops -> Nat]
    /\ WaitingRequests \in Seq(Ops)
    /\ OutstandingRequests \subseteq Ops
    /\ callback \in [Ops -> CallbackState]
    /\ request \in [Polls -> RequestState]
    /\ client \in [Clients -> ClientState]
    /\ operation \in [RealOps -> Replies \cup {"new", "pending", "twice"}]
    /\ ready \in {"satisfied", "wanted", "acknowledged", "dropped"}
    /\ seen \subseteq Ops

\* The callback for o still holds it: VHF asked, nothing is queued yet.
InCallback(o) == callback[o].pc \in {"create", "lock"}

\* A COMPLETE_* handler holds o, after TakeOutstandingRequestById.
Taken(o) == \E c \in Clients : client[c].op = o

\* VHF waits for an operation exactly as long as something in the driver is
\* responsible for it: its callback, one of the collections, or a COMPLETE_*
\* handler.  An operation that falls between two of them hangs its HID client,
\* and hangs VhfDelete when the file is closed.
NoOperationLost ==
    \A o \in RealOps :
        operation[o] = "pending" <=>
            (InCallback(o) \/ Queued(o) \/ o \in OutstandingRequests \/ Taken(o))

\* No operation object is in two hands: two collections, twice in one, a
\* collection and a handler, or two handlers (each deletes the object).
NotQueuedTwice ==
    \A i, j \in DOMAIN WaitingRequests :
        WaitingRequests[i] = WaitingRequests[j] => i = j

OneHand(o) ==
    /\ InCallback(o) => ~Queued(o)
    /\ o \in OutstandingRequests => ~InCallback(o) /\ ~Queued(o)
    /\ Taken(o) => ~InCallback(o) /\ ~Queued(o) /\ o \notin OutstandingRequests

OneOwner ==
    /\ NotQueuedTwice
    /\ \A o \in Ops : OneHand(o)
    /\ \A c, d \in Clients :
          client[c].op = client[d].op /\ client[c].op # None => c = d

\* VHF gets one completion per operation, whichever of the client's answer,
\* the failure paths of the callback and the rundown at close come first.
AnsweredAtMostOnce == \A o \in RealOps : operation[o] # "twice"

\* An answer reaches the operation whose event the client was given: request
\* IDs tell the real operations of a file apart, from each other and from the
\* pseudo-requests, also when an event is answered twice.
EventAnswersItsOperation ==
    \A c \in Clients :
        client[c].op \in RealOps => client[c].op = client[c].event

\* Once the rundown has run nothing is queued any more, whatever callbacks were
\* in flight: nobody would ever complete what is left in a collection.
NothingQueuedAfterRundown ==
    file \in {"rundown", "closed"} =>
        WaitingRequests = <<>> /\ OutstandingRequests = {}

\* While the file is open, a report VHF asked for is still being asked of the
\* client: the request exists in the callback, in a collection or in a
\* COMPLETE_* handler, also when requests of reports submitted in between are
\* still about.  It is lost for good otherwise, as VHF does not ask twice.  Only
\* the client ends it: with a promise, with COMPLETE_WRITE_EVENT, or with a
\* report VHF refuses.
ReadyRequestNotForgotten ==
    ready = "wanted" /\ file \in {"open", "cleanup"} =>
        \E o \in ReadyOps : \/ InCallback(o) \/ Queued(o)
                            \/ o \in OutstandingRequests \/ Taken(o)

\* A file that is being closed gets closed: no callback, poll or completion
\* keeps the rundown or VhfDelete waiting.
CloseTerminates == (file = "cleanup") ~> (file = "closed")

\* Public.h:71 says that GET_NEXT_EVENT "pends inside WinUHid until an event is
\* ready": no poll stays pended next to a waiting operation unless some callback
\* is still on its way to look for one.
PollPendsOnlyUntilReady ==
    (WaitingRequests # <<>> /\ Pended # {}) =>
        \E o \in Ops : callback[o].pc \in {"retrieve", "serve"}

-----------------------------------------------------------------------------
(* The operations as HID clients see them                                  *)

OperationState(o) ==
    CASE operation[o] = "pending" ->
             IF o \in OutstandingRequests \/ Taken(o) THEN "offered" ELSE "asked"
      [] operation[o] \in {"answered", "refused"} -> "answered"
      [] operation[o] \in {"failed", "too_late"} -> "refused"
      [] OTHER -> operation[o]

HidOps == INSTANCE HidOperations WITH
              Requests <- RealOps,
              state <- [o \in RealOps |-> OperationState(o)],
              open <- file \in {"open", "cleanup"}

\* The callbacks, polls, completions and the rundown together keep the promise
\* of HidOperations: one offer, one outcome, nothing on offer after the close.
OperationsKeepTheirPromise == HidOps!Spec

=============================================================================
