------------------------ MODULE WinUHidDriver_proofs -------------------------
(***************************************************************************)
(* Proofs about the driver's request machinery, for any number of          *)
(* operations, polls and client threads.  The first theorem is type        *)
(* correctness.  The second is that IInv below is an invariant; the        *)
(* properties of WinUHidDriver that the runs check follow from it.         *)
(***************************************************************************)
EXTENDS WinUHidDriver, FiniteSetTheorems, TLAPS

\* Real operations and pseudo-requests are the operations, and they differ.
LEMMA OpKinds == /\ RealOps \subseteq Ops
                 /\ ReadyOps \subseteq Ops
                 /\ RealOps \cap ReadyOps = {}
                 /\ Ops = RealOps \cup ReadyOps
                 /\ None \notin Ops
                 /\ None \notin Clients
                 /\ None \notin Polls
  BY DriverAssumption DEF Ops

-----------------------------------------------------------------------------
(* Type correctness                                                        *)

Labels == {"create", "lock", "retrieve", "serve", "requeue"}
Outcomes == Replies \cup {"new", "pending", "twice"}

\* The parts of TypeOK, for steps that need one of them only.
LEMMA TypeParts ==
    ASSUME TypeOK
    PROVE  /\ callback \in [Ops -> CallbackState]
           /\ request \in [Polls -> RequestState]
           /\ client \in [Clients -> ClientState]
           /\ operation \in [RealOps -> Outcomes]
           /\ WaitingRequests \in Seq(Ops)
           /\ OutstandingRequests \subseteq Ops
           /\ seen \subseteq Ops
  BY DEF TypeOK, Outcomes

\* A callback that moves on changes its own label only.
LEMMA GotoFacts ==
    ASSUME callback \in [Ops -> CallbackState], NEW o \in Ops, NEW l \in Labels,
           Goto(o, l)
    PROVE  /\ callback' \in [Ops -> CallbackState]
           /\ \A x \in Ops : callback'[x].pc = IF x = o THEN l ELSE callback[x].pc
  BY DEF CallbackState, Goto, Labels

LEMMA ReturnFacts ==
    ASSUME callback \in [Ops -> CallbackState], NEW o \in Ops, Return(o)
    PROVE  /\ callback' \in [Ops -> CallbackState]
           /\ \A x \in Ops : callback'[x].pc = IF x = o THEN "idle" ELSE callback[x].pc
  BY DEF CallbackState, Return, IdleCallback

\* Completing an operation to VHF changes nothing but VHF's view of it.
LEMMA OperationFacts ==
    ASSUME operation \in [RealOps -> Outcomes], NEW o \in Ops,
           NEW r \in Replies, VhfAsyncOperationComplete(o, r)
    PROVE  /\ operation' \in [RealOps -> Outcomes]
           /\ \A x \in RealOps : x # o => operation'[x] = operation[x]
           /\ o \in RealOps => operation'[o] = IF operation[o] = "pending" THEN r
                                               ELSE "twice"
  BY DEF Outcomes, VhfAsyncOperationComplete

LEMMA RequestRecords ==
    /\ IdleRequest \in RequestState
    /\ \A r \in RequestState : [r EXCEPT !.pc = "queued"] \in RequestState
    /\ \A r \in RequestState : [r EXCEPT !.pc = "held"] \in RequestState
  BY DEF IdleRequest, RequestState

LEMMA EnterPollQueueType ==
    ASSUME request \in [Polls -> RequestState], NEW p, EnterPollQueue(p)
    PROVE  request' \in [Polls -> RequestState]
  BY RequestRecords DEF EnterPollQueue

LEMMA TryCompleteTypes ==
    ASSUME request \in [Polls -> RequestState], WaitingRequests \in Seq(Ops),
           OutstandingRequests \subseteq Ops, seen \subseteq Ops,
           NEW p, NEW room, TryCompleteGetNextEvent(p, room)
    PROVE  /\ request' \in [Polls -> RequestState]
           /\ WaitingRequests' \in Seq(Ops)
           /\ OutstandingRequests' \subseteq Ops
           /\ seen' \subseteq Ops
<1>1. request' \in [Polls -> RequestState]
  BY RequestRecords DEF TryCompleteGetNextEvent
<1>2. Head(WaitingRequests) \in Ops /\ Tail(WaitingRequests) \in Seq(Ops)
  BY DEF TryCompleteGetNextEvent
<1> QED
  BY <1>1, <1>2 DEF TryCompleteGetNextEvent

LEMMA AppendType ==
    ASSUME WaitingRequests \in Seq(Ops), NEW o \in Ops,
           \/ WaitingRequests' = WaitingRequests
           \/ WaitingRequests' = Append(WaitingRequests, o)
    PROVE  WaitingRequests' \in Seq(Ops)
  OBVIOUS

LEMMA CancelledPollType ==
    ASSUME NEW r \in RequestState PROVE CancelledPoll(r) \in RequestState
  BY DEF CancelledPoll, RequestState, IdleRequest

LEMMA IdleClientType == IdleClient \in ClientState
  BY DEF IdleClient, ClientState, Statuses

\* A completed pseudo-request ends, and the report is not wanted after it, or
\* it goes on in a new object.
LEMMA PseudoFacts ==
    ASSUME NEW c \in Clients, CompletePseudoOperation(c)
    PROVE  /\ client[c].pc = "taken" /\ client[c].op \in ReadyOps
           /\ UNCHANGED <<file, vhf, driverVars, request, operation, seen>>
           /\ \/ /\ client' = [client EXCEPT ![c] = IdleClient]
                 /\ UNCHANGED callback
                 /\ ready' # "wanted"
                 /\ ready' \in {ready, "satisfied", "acknowledged", "dropped"}
              \/ /\ client' = [client EXCEPT ![c] = [IdleClient EXCEPT !.pc = "reissue"]]
                 /\ \E r \in ReadyOps :
                       /\ callback[r].pc = "idle"
                       /\ r = client[c].op \/ Unused(r)
                       /\ callback' = [callback EXCEPT ![r] =
                             [pc |-> "create", poll |-> None, caller |-> c]]
                 /\ UNCHANGED ready
<1>1. CASE SubmitReadReport(c)
  BY <1>1 DEF CompletePseudoOperation, SubmitReadReport, NoLongerWanted
<1>2. CASE EndPseudoOperation(c)
  BY <1>2 DEF CompletePseudoOperation, EndPseudoOperation, NoLongerWanted
<1>3. CASE ReissuePseudoOperation(c)
  BY <1>3 DEF CompletePseudoOperation, ReissuePseudoOperation
<1> QED
  BY <1>1, <1>2, <1>3 DEF CompletePseudoOperation

LEMMA TypeInit == Init => TypeOK
<1> SUFFICES ASSUME Init PROVE TypeOK
  OBVIOUS
<1>1. callback \in [Ops -> CallbackState]
  BY DEF Init, IdleCallback, CallbackState
<1>2. request \in [Polls -> RequestState]
  BY DEF Init, IdleRequest, RequestState
<1>3. client \in [Clients -> ClientState]
  BY IdleClientType DEF Init
<1>4. operation \in [RealOps -> Outcomes] /\ WaitingRequests \in Seq(Ops)
  BY DEF Init, Outcomes
<1> QED
  BY <1>1, <1>2, <1>3, <1>4 DEF Init, TypeOK, Outcomes

LEMMA TypeStep == TypeOK /\ [Next]_vars => TypeOK'
<1> SUFFICES ASSUME TypeOK, [Next]_vars PROVE TypeOK'
  OBVIOUS
<1> USE OpKinds, TypeParts
<1>1. CASE CreateDevice
  BY <1>1 DEF TypeOK, CreateDevice
<1>2. CASE StartDevice
  BY <1>2 DEF TypeOK, StartDevice, driverVars
<1>3. ASSUME NEW o \in RealOps, VhfAsyncOperation(o) PROVE TypeOK'
  <2>1. callback' \in [Ops -> CallbackState]
    BY <1>3, GotoFacts DEF VhfAsyncOperation, Labels
  <2> QED
    BY <1>3, <2>1 DEF TypeOK, VhfAsyncOperation, driverVars
<1>4. ASSUME NEW o \in ReadyOps, VhfReadyForNextReadReport(o) PROVE TypeOK'
  <2>1. callback' \in [Ops -> CallbackState]
    BY <1>4, GotoFacts DEF VhfReadyForNextReadReport, Labels
  <2> QED
    BY <1>4, <2>1 DEF TypeOK, VhfReadyForNextReadReport, driverVars
<1>5. ASSUME NEW o \in Ops, DispatchAsyncOperation(o) PROVE TypeOK'
  <2>1. CASE CreateOperationFails(o)
    <3>1. callback' \in [Ops -> CallbackState]
      BY <2>1, ReturnFacts DEF CreateOperationFails
    <3>2. operation' \in [RealOps -> Outcomes]
      BY <2>1, OperationFacts DEF CreateOperationFails, Replies
    <3> QED
      BY <2>1, <3>1, <3>2 DEF TypeOK, CreateOperationFails, driverVars, Outcomes
  <2>2. CASE CreatePseudoOperation(o)
    <3>1. callback' \in [Ops -> CallbackState]
      BY <2>2, GotoFacts DEF CreatePseudoOperation, Labels
    <3> QED
      BY <2>2, <3>1 DEF TypeOK, CreatePseudoOperation
  <2>3. CASE CreateRealOperation(o)
    <3>1. NextRequestId' \in Nat /\ MSB + (NextRequestId' % MSB) \in Nat
      <4>1. MSB \in Nat /\ MSB > 0 /\ NextRequestId \in Nat
        BY DriverAssumption, FS_CardinalityType DEF TypeOK
      <4> QED
        BY <2>3, <4>1 DEF CreateRealOperation
    <3>2. RequestId' \in [Ops -> Nat]
      BY <2>3, <3>1 DEF TypeOK, CreateRealOperation
    <3>3. callback' \in [Ops -> CallbackState]
      BY <2>3, GotoFacts, ReturnFacts DEF CreateRealOperation, Labels
    <3>4. operation' \in [RealOps -> Outcomes]
      BY <2>3, OperationFacts DEF CreateRealOperation, Replies
    <3> QED
      BY <2>3, <3>1, <3>2, <3>3, <3>4 DEF TypeOK, CreateRealOperation, Outcomes
  <2>4. CASE QueueOperation(o)
    <3>1. callback' \in [Ops -> CallbackState]
      BY <2>4, GotoFacts, ReturnFacts DEF QueueOperation, Labels
    <3>2. operation' \in [RealOps -> Outcomes]
      BY <2>4, OperationFacts DEF QueueOperation, Replies
    <3>3. WaitingRequests' \in Seq(Ops)
      <4>1. \/ WaitingRequests' = WaitingRequests
            \/ WaitingRequests' = Append(WaitingRequests, o)
        BY <2>4 DEF QueueOperation
      <4> QED
        BY <4>1, AppendType
    <3> QED
      BY <2>4, <3>1, <3>2, <3>3 DEF TypeOK, QueueOperation, Outcomes
  <2>5. CASE RetrievePendedPoll(o)
    <3>1. CASE Return(o) /\ UNCHANGED request
      <4>1. callback' \in [Ops -> CallbackState]
        BY <3>1, ReturnFacts
      <4> QED
        BY <2>5, <3>1, <4>1 DEF TypeOK, RetrievePendedPoll, driverVars
    <3>2. CASE \E p \in Pended :
                  /\ request' = [request EXCEPT ![p].pc = "held"]
                  /\ callback' = [callback EXCEPT ![o].pc = "serve", ![o].poll = p]
      <4>1. PICK p \in Polls :
                  /\ request' = [request EXCEPT ![p].pc = "held"]
                  /\ callback' = [callback EXCEPT ![o].pc = "serve", ![o].poll = p]
        BY <3>2 DEF Pended
      <4>2. callback' \in [Ops -> CallbackState]
        BY <4>1 DEF CallbackState
      <4>3. request' \in [Polls -> RequestState]
        BY <4>1, RequestRecords
      <4> QED
        BY <2>5, <4>2, <4>3 DEF TypeOK, RetrievePendedPoll, driverVars
    <3> QED
      BY <2>5, <3>1, <3>2 DEF RetrievePendedPoll
  <2>6. CASE ServePendedPoll(o)
    <3>1. callback' \in [Ops -> CallbackState]
      BY <2>6, GotoFacts, ReturnFacts DEF ServePendedPoll, Labels
    <3>2. /\ request' \in [Polls -> RequestState]
          /\ WaitingRequests' \in Seq(Ops)
          /\ OutstandingRequests' \subseteq Ops
          /\ seen' \subseteq Ops
      BY <2>6, TryCompleteTypes DEF ServePendedPoll
    <3> QED
      BY <2>6, <3>1, <3>2 DEF TypeOK, ServePendedPoll
  <2>7. CASE RequeuePoll(o)
    <3>1. callback' \in [Ops -> CallbackState]
      BY <2>7, ReturnFacts DEF RequeuePoll
    <3>2. request' \in [Polls -> RequestState]
      BY <2>7, EnterPollQueueType DEF RequeuePoll
    <3> QED
      BY <2>7, <3>1, <3>2 DEF TypeOK, RequeuePoll, driverVars
  <2> QED
    BY <1>5, <2>1, <2>2, <2>3, <2>4, <2>5, <2>6, <2>7
       DEF DispatchAsyncOperation
<1>6. ASSUME NEW p \in Polls, GetNextEvent(p) PROVE TypeOK'
  <2>1. PICK room \in BOOLEAN :
          \/ TryCompleteGetNextEvent(p, room)
          \/ /\ WaitingRequests = <<>>
             /\ request' = [request EXCEPT ![p] =
                               [pc |-> "forward", room |-> room, cancelled |-> FALSE]]
             /\ UNCHANGED <<WaitingRequests, OutstandingRequests, seen>>
    BY <1>6 DEF GetNextEvent
  <2>2. [pc |-> "forward", room |-> room, cancelled |-> FALSE] \in RequestState
    BY DEF RequestState
  <2>3. /\ request' \in [Polls -> RequestState]
        /\ WaitingRequests' \in Seq(Ops)
        /\ OutstandingRequests' \subseteq Ops
        /\ seen' \subseteq Ops
    BY <2>1, <2>2, TryCompleteTypes
  <2> QED
    BY <1>6, <2>3 DEF TypeOK, GetNextEvent
<1>7. ASSUME NEW p \in Polls, ForwardPoll(p) PROVE TypeOK'
  <2>1. request' \in [Polls -> RequestState]
    BY <1>7, EnterPollQueueType DEF ForwardPoll
  <2> QED
    BY <1>7, <2>1 DEF TypeOK, ForwardPoll, driverVars
<1>8. ASSUME NEW p \in Polls, CancelPoll(p) PROVE TypeOK'
  <2>1. request' \in [Polls -> RequestState]
    BY <1>8, CancelledPollType DEF CancelPoll
  <2> QED
    BY <1>8, <2>1 DEF TypeOK, CancelPoll, driverVars
<1>9. ASSUME NEW c \in Clients, TakeOutstandingRequest(c) PROVE TypeOK'
  <2>1. \A e \in seen, t \in OutstandingRequests, s \in Statuses :
           [pc |-> "taken", op |-> t, event |-> e, status |-> s] \in ClientState
    BY DEF ClientState
  <2>2. client' \in [Clients -> ClientState]
    BY <1>9, <2>1 DEF TakeOutstandingRequest, Matching
  <2>3. OutstandingRequests' \subseteq Ops /\ seen' \subseteq Ops
    BY <1>9 DEF TakeOutstandingRequest
  <2> QED
    BY <1>9, <2>2, <2>3 DEF TypeOK, TakeOutstandingRequest
<1>10. ASSUME NEW c \in Clients, FinishComplete(c) PROVE TypeOK'
  <2>1. CASE CompleteRealOperation(c)
    <3>1. client' \in [Clients -> ClientState]
      BY <2>1, IdleClientType DEF CompleteRealOperation
    <3>2. operation' \in [RealOps -> Outcomes]
      BY <2>1, OperationFacts DEF CompleteRealOperation, Replies
    <3> QED
      BY <2>1, <3>1, <3>2 DEF TypeOK, CompleteRealOperation, driverVars, Outcomes
  <2>2. CASE CompletePseudoOperation(c)
    <3>1. client' \in [Clients -> ClientState]
      <4>1. [IdleClient EXCEPT !.pc = "reissue"] \in ClientState
        BY DEF IdleClient, ClientState, Statuses
      <4> QED
        BY <2>2, <4>1, IdleClientType, PseudoFacts
    <3>2. callback' \in [Ops -> CallbackState]
      <4>1. [pc |-> "create", poll |-> None, caller |-> c] \in CallbackState
        BY DEF CallbackState
      <4> QED
        BY <2>2, <4>1, PseudoFacts
    <3>3. ready' \in {"satisfied", "wanted", "acknowledged", "dropped"}
      BY <2>2, PseudoFacts DEF TypeOK
    <3> QED
      BY <2>2, <3>1, <3>2, <3>3 DEF TypeOK, CompletePseudoOperation, driverVars
  <2>3. CASE FinishReissue(c)
    <3>1. client' \in [Clients -> ClientState]
      BY <2>3, IdleClientType DEF FinishReissue
    <3> QED
      BY <2>3, <3>1 DEF TypeOK, FinishReissue, driverVars
  <2> QED
    BY <1>10, <2>1, <2>2, <2>3 DEF FinishComplete
<1>11. CASE EvtIoWrite
  BY <1>11 DEF TypeOK, EvtIoWrite, driverVars
<1>12. CASE CloseHandle
  <2>1. request' \in [Polls -> RequestState]
    BY <1>12, CancelledPollType DEF CloseHandle
  <2> QED
    BY <1>12, <2>1 DEF TypeOK, CloseHandle, driverVars
<1>13. CASE FileCloseRundown
  <2>1. operation' \in [RealOps -> Outcomes]
    BY <1>13 DEF FileCloseRundown, Outcomes, Replies
  <2>2. WaitingRequests' \in Seq(Ops) /\ OutstandingRequests' \subseteq Ops
    BY <1>13 DEF FileCloseRundown
  <2> QED
    BY <1>13, <2>1, <2>2 DEF TypeOK, FileCloseRundown, Outcomes
<1>14. CASE VhfDelete
  BY <1>14 DEF TypeOK, VhfDelete, driverVars
<1>15. CASE Closed \/ UNCHANGED vars
  BY <1>15 DEF TypeOK, Closed, vars, driverVars
<1> QED
  BY <1>1, <1>2, <1>3, <1>4, <1>5, <1>6, <1>7, <1>8, <1>9, <1>10, <1>11,
     <1>12, <1>13, <1>14, <1>15 DEF Next

\* Type correctness of the driver's state, for every value of the constants.
THEOREM TypeCorrect == Spec => []TypeOK
  BY TypeInit, TypeStep, PTL DEF Spec

-----------------------------------------------------------------------------
(* Ownership of operations                                                 *)

\* A COMPLETE_* handler holds an operation exactly between taking it and
\* completing it.
ClientHoldsWhileTaken ==
    \A c \in Clients : client[c].pc = "taken" <=> client[c].op # None

\* The rundown clears the handle and both collections, and nothing refills
\* them.
EmptyAfterRundown ==
    file \in {"rundown", "closed"} =>
        ~VhfHandle /\ WaitingRequests = <<>> /\ OutstandingRequests = {}

\* The inductive invariant.  That no completion comes twice needs to know that
\* whatever a thread holds is still pending (NoOperationLost), which needs to
\* know that no other thread can complete it meanwhile (OneOwner).
Ownership ==
    /\ ClientHoldsWhileTaken
    /\ OneOwner
    /\ NoOperationLost
    /\ AnsweredAtMostOnce

IInv == TypeOK /\ EmptyAfterRundown /\ Ownership

\* Queueing at the end of WaitingRequests, and taking the oldest from it.
LEMMA AppendQueued ==
    ASSUME WaitingRequests \in Seq(Ops), NEW o \in Ops,
           WaitingRequests' = Append(WaitingRequests, o)
    PROVE  /\ \A x \in Ops : Queued(x)' <=> Queued(x) \/ x = o
           /\ NotQueuedTwice /\ ~Queued(o) => NotQueuedTwice'
  BY DEF Queued, NotQueuedTwice

LEMMA TailQueued ==
    ASSUME WaitingRequests \in Seq(Ops), WaitingRequests # <<>>, NotQueuedTwice,
           WaitingRequests' = Tail(WaitingRequests)
    PROVE  /\ Head(WaitingRequests) \in Ops
           /\ Queued(Head(WaitingRequests))
           /\ \A x \in Ops : Queued(x)' <=> Queued(x) /\ x # Head(WaitingRequests)
           /\ NotQueuedTwice'
<1> DEFINE W == WaitingRequests
<1>1. Len(W) \in Nat /\ Len(W) > 0 /\ Head(W) = W[1] /\ 1 \in DOMAIN W
  OBVIOUS
<1>2. /\ DOMAIN W = 1..Len(W)
      /\ DOMAIN Tail(W) = 1..(Len(W) - 1)
      /\ \A i \in 1..(Len(W) - 1) : Tail(W)[i] = W[i + 1]
  BY <1>1
<1>3. Head(W) \in Ops /\ Queued(Head(W))
  BY <1>1 DEF Queued
<1>4. NotQueuedTwice'
  <2> SUFFICES ASSUME NEW i \in 1..(Len(W) - 1), NEW j \in 1..(Len(W) - 1),
                      Tail(W)[i] = Tail(W)[j]
               PROVE  i = j
    BY <1>2 DEF NotQueuedTwice
  <2>1. i + 1 \in DOMAIN W /\ j + 1 \in DOMAIN W /\ W[i + 1] = W[j + 1]
    BY <1>1, <1>2
  <2> QED
    BY <2>1 DEF NotQueuedTwice
<1>5. ASSUME NEW x \in Ops, Queued(x)' PROVE Queued(x) /\ x # Head(W)
  <2>1. PICK i \in 1..(Len(W) - 1) : Tail(W)[i] = x
    BY <1>2, <1>5 DEF Queued
  <2>2. i + 1 \in DOMAIN W /\ W[i + 1] = x /\ i + 1 # 1
    BY <1>1, <1>2, <2>1
  <2> QED
    BY <1>1, <2>2 DEF Queued, NotQueuedTwice
<1>6. ASSUME NEW x \in Ops, Queued(x), x # Head(W) PROVE Queued(x)'
  <2>1. PICK i \in DOMAIN W : W[i] = x
    BY <1>6 DEF Queued
  <2>2. i - 1 \in 1..(Len(W) - 1) /\ Tail(W)[i - 1] = x
    BY <1>1, <1>2, <1>6, <2>1
  <2> QED
    BY <1>2, <2>2 DEF Queued
<1> QED
  BY <1>3, <1>4, <1>5, <1>6

\* Ownership is about five variables only.
LEMMA OwnershipUnmoved ==
    ASSUME Ownership,
           UNCHANGED <<WaitingRequests, OutstandingRequests, callback, client,
                       operation>>
    PROVE  Ownership'
  BY DEF Ownership, ClientHoldsWhileTaken, OneOwner, NotQueuedTwice, OneHand,
     NoOperationLost, AnsweredAtMostOnce, InCallback, Queued, Taken

\* How each owner reads after a step that leaves its variable alone, or that
\* moves a callback.
LEMMA QueuedUnmoved ==
    ASSUME UNCHANGED WaitingRequests
    PROVE  /\ \A x \in Ops : Queued(x)' <=> Queued(x)
           /\ NotQueuedTwice' <=> NotQueuedTwice
  BY DEF Queued, NotQueuedTwice

LEMMA TakenUnmoved ==
    ASSUME UNCHANGED client
    PROVE  /\ \A x \in Ops : Taken(x)' <=> Taken(x)
           /\ ClientHoldsWhileTaken' <=> ClientHoldsWhileTaken
  BY DEF Taken, ClientHoldsWhileTaken

LEMMA InCallbackMoved ==
    ASSUME callback \in [Ops -> CallbackState], NEW o \in Ops
    PROVE  /\ UNCHANGED callback => \A x \in Ops : InCallback(x)' <=> InCallback(x)
           /\ \A l \in {"create", "lock"} : Goto(o, l) =>
                 \A x \in Ops : InCallback(x)' <=> InCallback(x) \/ x = o
           /\ \A l \in {"retrieve", "serve", "requeue"} : Goto(o, l) =>
                 \A x \in Ops : InCallback(x)' <=> InCallback(x) /\ x # o
           /\ Return(o) => \A x \in Ops : InCallback(x)' <=> InCallback(x) /\ x # o
<1>1. UNCHANGED callback => \A x \in Ops : InCallback(x)' <=> InCallback(x)
  BY DEF InCallback
<1>2. ASSUME NEW l \in {"create", "lock"}, Goto(o, l)
      PROVE  \A x \in Ops : InCallback(x)' <=> InCallback(x) \/ x = o
  BY <1>2, GotoFacts DEF Labels, InCallback
<1>3. ASSUME NEW l \in {"retrieve", "serve", "requeue"}, Goto(o, l)
      PROVE  \A x \in Ops : InCallback(x)' <=> InCallback(x) /\ x # o
  BY <1>3, GotoFacts DEF Labels, InCallback
<1>4. ASSUME Return(o)
      PROVE  \A x \in Ops : InCallback(x)' <=> InCallback(x) /\ x # o
  BY <1>4, ReturnFacts DEF InCallback
<1> QED
  BY <1>1, <1>2, <1>3, <1>4

\* A thread that holds a real operation knows that it is pending.
LEMMA OwnedIsPending ==
    ASSUME Ownership, NEW o \in RealOps,
           InCallback(o) \/ Queued(o) \/ o \in OutstandingRequests \/ Taken(o)
    PROVE  operation[o] = "pending"
  BY DEF Ownership, NoOperationLost

\* Ownership from what a step did to each kind of owner, when no operation
\* changes hands between client threads.
LEMMA OwnershipFromParts ==
    ASSUME NotQueuedTwice', ClientHoldsWhileTaken',
           \A x \in Ops : OneHand(x)',
           \A c, d \in Clients :
              client'[c].op = client'[d].op /\ client'[c].op # None => c = d,
           \A x \in RealOps :
              /\ operation'[x] # "twice"
              /\ operation'[x] = "pending" <=>
                    (InCallback(x)' \/ Queued(x)' \/ x \in OutstandingRequests'
                     \/ Taken(x)')
    PROVE  Ownership'
  BY DEF Ownership, OneOwner, NoOperationLost, AnsweredAtMostOnce

-----------------------------------------------------------------------------

LEMMA IInvInit == Init => IInv
<1> SUFFICES ASSUME Init PROVE IInv
  OBVIOUS
<1>1. TypeOK
  BY TypeInit
<1>2. /\ \A x \in Ops : ~InCallback(x) /\ ~Queued(x) /\ ~Taken(x)
      /\ OutstandingRequests = {}
  BY OpKinds DEF Init, InCallback, Queued, Taken, IdleCallback, IdleClient
<1>3. ClientHoldsWhileTaken /\ NotQueuedTwice
  BY DEF Init, ClientHoldsWhileTaken, IdleClient, NotQueuedTwice
<1>4. \A c, d \in Clients :
         client[c].op = client[d].op /\ client[c].op # None => c = d
  BY DEF Init, IdleClient
<1>5. \A x \in RealOps : operation[x] = "new"
  BY DEF Init
<1>6. Ownership
  BY OpKinds, <1>2, <1>3, <1>4, <1>5 DEF Ownership, OneOwner, OneHand,
     NoOperationLost, AnsweredAtMostOnce
<1> QED
  BY <1>1, <1>6 DEF IInv, EmptyAfterRundown, Init

\* Handing the oldest operation out moves it from one collection to the other.
LEMMA TryCompleteKeepsOwnership ==
    ASSUME TypeOK, Ownership, NEW p, NEW room, TryCompleteGetNextEvent(p, room),
           \A x \in Ops : InCallback(x)' <=> InCallback(x),
           UNCHANGED <<client, operation>>
    PROVE  Ownership'
<1> USE OpKinds, TypeParts
<1>a. /\ NotQueuedTwice /\ ClientHoldsWhileTaken
      /\ \A x \in Ops : OneHand(x)
      /\ \A c, d \in Clients :
            client[c].op = client[d].op /\ client[c].op # None => c = d
      /\ \A x \in RealOps :
            /\ operation[x] # "twice"
            /\ operation[x] = "pending" <=>
                  (InCallback(x) \/ Queued(x) \/ x \in OutstandingRequests \/ Taken(x))
  BY DEF Ownership, OneOwner, NoOperationLost, AnsweredAtMostOnce
<1>b. \A x \in Ops : Taken(x)' <=> Taken(x)
  BY TakenUnmoved
<1>1. CASE UNCHANGED <<WaitingRequests, OutstandingRequests>>
  <2>1. \A x \in Ops : Queued(x)' <=> Queued(x)
    BY <1>1, QueuedUnmoved
  <2>2. \A x \in Ops : OneHand(x)'
    BY <1>a, <1>b, <1>1, <2>1 DEF OneHand
  <2> QED
    BY <1>a, <1>b, <1>1, <2>1, <2>2, QueuedUnmoved, TakenUnmoved,
       OwnershipFromParts
<1>2. CASE /\ WaitingRequests' = Tail(WaitingRequests)
           /\ OutstandingRequests' =
                 OutstandingRequests \cup {Head(WaitingRequests)}
  <2> DEFINE h == Head(WaitingRequests)
  <2>1. WaitingRequests # <<>>
    BY DEF TryCompleteGetNextEvent
  <2>2. /\ h \in Ops /\ Queued(h)
        /\ \A x \in Ops : Queued(x)' <=> Queued(x) /\ x # h
        /\ NotQueuedTwice'
    BY <1>a, <1>2, <2>1, TailQueued
  <2> HIDE DEF h
  <2>3. OutstandingRequests' = OutstandingRequests \cup {h}
    BY <1>2 DEF h
  <2>4. \A x \in Ops : OneHand(x)'
    BY <1>a, <1>b, <2>2, <2>3 DEF OneHand
  <2> QED
    BY <1>a, <1>b, <2>2, <2>3, <2>4, TakenUnmoved, OwnershipFromParts
<1> QED
  BY <1>1, <1>2 DEF TryCompleteGetNextEvent

\* The callback thread.
LEMMA DispatchKeepsOwnership ==
    ASSUME TypeOK, EmptyAfterRundown, Ownership, NEW o \in Ops,
           DispatchAsyncOperation(o)
    PROVE  Ownership' /\ EmptyAfterRundown'
<1> USE OpKinds, TypeParts
<1>a. /\ NotQueuedTwice /\ ClientHoldsWhileTaken
      /\ \A x \in Ops : OneHand(x)
      /\ \A c, d \in Clients :
            client[c].op = client[d].op /\ client[c].op # None => c = d
      /\ \A x \in RealOps :
            /\ operation[x] # "twice"
            /\ operation[x] = "pending" <=>
                  (InCallback(x) \/ Queued(x) \/ x \in OutstandingRequests \/ Taken(x))
  BY DEF Ownership, OneOwner, NoOperationLost, AnsweredAtMostOnce
\* The callback gives up: the operation is completed and has no owner left.
<1>b. ASSUME Return(o), InCallback(o), NEW r \in Replies,
             VhfAsyncOperationComplete(o, r),
             UNCHANGED <<WaitingRequests, OutstandingRequests, client>>
      PROVE  Ownership'
  <2>1. \A x \in Ops : InCallback(x)' <=> InCallback(x) /\ x # o
    BY <1>b, InCallbackMoved
  <2>2. \A x \in Ops : (Queued(x)' <=> Queued(x)) /\ (Taken(x)' <=> Taken(x))
    BY <1>b, QueuedUnmoved, TakenUnmoved
  <2>3. \A x \in Ops : OneHand(x)'
    BY <1>a, <1>b, <2>1, <2>2 DEF OneHand
  <2>4. o \in RealOps => operation[o] = "pending"
    BY <1>a, <1>b
  <2>5. /\ \A x \in RealOps : x # o => operation'[x] = operation[x]
        /\ o \in RealOps => operation'[o] = r
    BY <1>b, <2>4, OperationFacts
  <2>6. r # "pending" /\ r # "twice"
    BY <1>b DEF Replies
  <2>7. \A x \in RealOps :
           /\ operation'[x] # "twice"
           /\ operation'[x] = "pending" <=>
                 (InCallback(x)' \/ Queued(x)' \/ x \in OutstandingRequests' \/ Taken(x)')
    <3> SUFFICES ASSUME NEW x \in RealOps
                 PROVE  /\ operation'[x] # "twice"
                        /\ operation'[x] = "pending" <=>
                              (InCallback(x)' \/ Queued(x)'
                               \/ x \in OutstandingRequests' \/ Taken(x)')
      OBVIOUS
    <3>1. CASE x = o
      BY <1>a, <1>b, <2>1, <2>2, <2>5, <2>6, <3>1 DEF OneHand
    <3>2. CASE x # o
      BY <1>a, <1>b, <2>1, <2>2, <2>5, <3>2
    <3> QED
      BY <3>1, <3>2
  <2> QED
    BY <1>a, <1>b, <2>3, <2>7, QueuedUnmoved, TakenUnmoved, OwnershipFromParts
\* The callback moves on without touching a collection.
<1>c. ASSUME \A x \in Ops : InCallback(x)' <=> InCallback(x),
             UNCHANGED <<WaitingRequests, OutstandingRequests, client, operation>>
      PROVE  Ownership'
  <2>1. \A x \in Ops : (Queued(x)' <=> Queued(x)) /\ (Taken(x)' <=> Taken(x))
    BY <1>c, QueuedUnmoved, TakenUnmoved
  <2>2. \A x \in Ops : OneHand(x)'
    BY <1>a, <1>c, <2>1 DEF OneHand
  <2> QED
    BY <1>a, <1>c, <2>1, <2>2, QueuedUnmoved, TakenUnmoved, OwnershipFromParts
<1>1. CASE CreateOperationFails(o)
  <2>1. InCallback(o)
    BY <1>1 DEF CreateOperationFails, InCallback
  <2> QED
    BY <1>1, <1>b, <2>1 DEF CreateOperationFails, driverVars, Replies,
       EmptyAfterRundown
<1>2. CASE CreatePseudoOperation(o)
  <2>1. \A x \in Ops : InCallback(x)' <=> InCallback(x)
    BY <1>2, InCallbackMoved DEF CreatePseudoOperation, InCallback
  <2> QED
    BY <1>2, <1>c, <2>1 DEF CreatePseudoOperation, EmptyAfterRundown
<1>3. CASE CreateRealOperation(o)
  <2>1. InCallback(o)
    BY <1>3 DEF CreateRealOperation, InCallback
  <2>2. CASE o \in UnknownReports
    BY <1>3, <1>b, <2>1, <2>2 DEF CreateRealOperation, Replies, EmptyAfterRundown
  <2>3. CASE o \notin UnknownReports
    <3>1. \A x \in Ops : InCallback(x)' <=> InCallback(x)
      BY <1>3, <2>1, <2>3, InCallbackMoved DEF CreateRealOperation
    <3> QED
      BY <1>3, <1>c, <2>3, <3>1 DEF CreateRealOperation, EmptyAfterRundown
  <2> QED
    BY <2>2, <2>3
<1>4. CASE QueueOperation(o)
  <2>1. InCallback(o)
    BY <1>4 DEF QueueOperation, InCallback
  <2>2. CASE /\ VhfHandle
             /\ WaitingRequests' = Append(WaitingRequests, o)
             /\ Goto(o, "retrieve")
             /\ UNCHANGED operation
    <3>1. \A x \in Ops : InCallback(x)' <=> InCallback(x) /\ x # o
      BY <2>2, InCallbackMoved
    <3>2. \A x \in Ops : Queued(x)' <=> Queued(x) \/ x = o
      BY <2>2, AppendQueued
    <3>3. NotQueuedTwice'
      BY <1>a, <2>1, <2>2, AppendQueued DEF OneHand
    <3>4. UNCHANGED <<OutstandingRequests, client>>
      BY <1>4 DEF QueueOperation
    <3>5. \A x \in Ops : Taken(x)' <=> Taken(x)
      BY <3>4, TakenUnmoved
    <3>6. \A x \in Ops : OneHand(x)'
      BY <1>a, <2>1, <3>1, <3>2, <3>4, <3>5 DEF OneHand
    <3>7. Ownership'
      BY <1>a, <2>1, <2>2, <3>1, <3>2, <3>3, <3>4, <3>5, <3>6, TakenUnmoved,
         OwnershipFromParts
    <3> QED
      BY <1>4, <2>2, <3>7 DEF QueueOperation, EmptyAfterRundown
  <2>3. CASE \E r \in Replies : /\ VhfAsyncOperationComplete(o, r)
                                /\ Return(o)
                                /\ UNCHANGED WaitingRequests
    BY <1>4, <1>b, <2>1, <2>3 DEF QueueOperation, EmptyAfterRundown
  <2> QED
    BY <1>4, <2>2, <2>3 DEF QueueOperation, Replies
<1>5. CASE RetrievePendedPoll(o)
  <2>1. \A x \in Ops : InCallback(x)' <=> InCallback(x)
    <3>1. CASE Return(o)
      BY <1>5, <3>1, InCallbackMoved DEF RetrievePendedPoll, InCallback
    <3>2. CASE \E p \in Pended :
             callback' = [callback EXCEPT ![o].pc = "serve", ![o].poll = p]
      BY <1>5, <3>2 DEF RetrievePendedPoll, InCallback, CallbackState
    <3> QED
      BY <1>5, <3>1, <3>2 DEF RetrievePendedPoll
  <2> QED
    BY <1>5, <1>c, <2>1 DEF RetrievePendedPoll, driverVars, EmptyAfterRundown
<1>6. CASE ServePendedPoll(o)
  <2>1. \A x \in Ops : InCallback(x)' <=> InCallback(x)
    BY <1>6, InCallbackMoved DEF ServePendedPoll, InCallback
  <2>2. CASE UNCHANGED <<WaitingRequests, OutstandingRequests>>
    BY <1>6, <1>c, <2>1, <2>2 DEF ServePendedPoll, EmptyAfterRundown
  <2>3. CASE TryCompleteGetNextEvent(callback[o].poll, request[callback[o].poll].room)
    <3>1. Ownership'
      BY <1>6, <2>1, <2>3, TryCompleteKeepsOwnership DEF ServePendedPoll
    <3>2. WaitingRequests # <<>>
      BY <2>3 DEF TryCompleteGetNextEvent
    <3> QED
      BY <1>6, <3>1, <3>2 DEF ServePendedPoll, EmptyAfterRundown
  <2> QED
    BY <1>6, <2>2, <2>3 DEF ServePendedPoll
<1>7. CASE RequeuePoll(o)
  <2>1. \A x \in Ops : InCallback(x)' <=> InCallback(x)
    BY <1>7, InCallbackMoved DEF RequeuePoll, InCallback
  <2> QED
    BY <1>7, <1>c, <2>1 DEF RequeuePoll, driverVars, EmptyAfterRundown
<1> QED
  BY <1>1, <1>2, <1>3, <1>4, <1>5, <1>6, <1>7 DEF DispatchAsyncOperation

\* A client thread that issues or finishes a COMPLETE_* request.
LEMMA ClientKeepsOwnership ==
    ASSUME TypeOK, EmptyAfterRundown, Ownership, NEW c \in Clients,
           TakeOutstandingRequest(c) \/ FinishComplete(c)
    PROVE  Ownership' /\ EmptyAfterRundown'
<1> USE OpKinds, TypeParts
<1>a. /\ NotQueuedTwice /\ ClientHoldsWhileTaken
      /\ \A x \in Ops : OneHand(x)
      /\ \A d, e \in Clients :
            client[d].op = client[e].op /\ client[d].op # None => d = e
      /\ \A x \in RealOps :
            /\ operation[x] # "twice"
            /\ operation[x] = "pending" <=>
                  (InCallback(x) \/ Queued(x) \/ x \in OutstandingRequests \/ Taken(x))
  BY DEF Ownership, OneOwner, NoOperationLost, AnsweredAtMostOnce
\* The handler lets go of what it held, which may have been nothing.
<1>b. ASSUME client' = [client EXCEPT ![c] = IdleClient]
             \/ client' = [client EXCEPT ![c] = [IdleClient EXCEPT !.pc = "reissue"]]
      PROVE  /\ \A x \in Ops : Taken(x)' <=> Taken(x) /\ x # client[c].op
             /\ ClientHoldsWhileTaken'
             /\ \A d, e \in Clients :
                   client'[d].op = client'[e].op /\ client'[d].op # None => d = e
  <2>1. /\ client'[c].op = None /\ client'[c].pc # "taken"
        /\ \A d \in Clients : d # c => client'[d] = client[d]
    BY <1>b DEF IdleClient
  <2> QED
    BY <1>a, <2>1 DEF Taken, ClientHoldsWhileTaken
<1>1. CASE TakeOutstandingRequest(c)
  <2>1. CASE UNCHANGED <<OutstandingRequests, client>>
    <3>1. Ownership'
      BY <1>1, <2>1, OwnershipUnmoved DEF TakeOutstandingRequest
    <3> QED
      BY <1>1, <2>1, <3>1 DEF TakeOutstandingRequest, EmptyAfterRundown
  <2>2. CASE \E e \in seen, s \in Statuses : \E t \in Matching(e) :
                /\ OutstandingRequests' = OutstandingRequests \ {t}
                /\ client' = [client EXCEPT ![c] =
                      [pc |-> "taken", op |-> t, event |-> e, status |-> s]]
    <3>1. PICK e \in seen, s \in Statuses : \E t \in Matching(e) :
                /\ OutstandingRequests' = OutstandingRequests \ {t}
                /\ client' = [client EXCEPT ![c] =
                      [pc |-> "taken", op |-> t, event |-> e, status |-> s]]
      BY <2>2
    <3>2. PICK t \in OutstandingRequests :
                /\ OutstandingRequests' = OutstandingRequests \ {t}
                /\ client' = [client EXCEPT ![c] =
                      [pc |-> "taken", op |-> t, event |-> e, status |-> s]]
      BY <3>1 DEF Matching
    <3>3. /\ client'[c].op = t /\ client'[c].pc = "taken"
          /\ \A d \in Clients : d # c => client'[d] = client[d]
          /\ t \in Ops /\ t # None
      BY <3>2
    <3>4. client[c].op = None
      BY <1>1, <1>a DEF TakeOutstandingRequest, ClientHoldsWhileTaken
    <3>5. \A x \in Ops : Taken(x)' <=> Taken(x) \/ x = t
      BY <3>3, <3>4 DEF Taken
    <3>6. ~Taken(t) /\ ~InCallback(t) /\ ~Queued(t)
      BY <1>a, <3>2, <3>3 DEF OneHand
    <3>7. /\ ClientHoldsWhileTaken'
          /\ \A d, f \in Clients :
                client'[d].op = client'[f].op /\ client'[d].op # None => d = f
      BY <1>a, <3>3, <3>6 DEF ClientHoldsWhileTaken, Taken
    <3>8. UNCHANGED <<WaitingRequests, callback, operation>>
      BY <1>1 DEF TakeOutstandingRequest
    <3>9. \A x \in Ops : (Queued(x)' <=> Queued(x)) /\ (InCallback(x)' <=> InCallback(x))
      BY <3>8, QueuedUnmoved DEF InCallback
    <3>10. \A x \in Ops : OneHand(x)'
      BY <1>a, <3>2, <3>5, <3>6, <3>9 DEF OneHand
    <3>11. Ownership'
      BY <1>a, <3>2, <3>5, <3>7, <3>8, <3>9, <3>10, QueuedUnmoved,
         OwnershipFromParts
    <3> QED
      BY <1>1, <3>2, <3>11 DEF TakeOutstandingRequest, EmptyAfterRundown
  <2> QED
    BY <1>1, <2>1, <2>2 DEF TakeOutstandingRequest
<1>2. CASE CompleteRealOperation(c)
  <2> DEFINE o == client[c].op
  <2>0. PICK r \in {"answered", "refused"} : VhfAsyncOperationComplete(o, r)
    BY <1>2 DEF CompleteRealOperation
  <2>1. /\ o \in RealOps /\ Taken(o)
        /\ VhfAsyncOperationComplete(o, r)
        /\ client' = [client EXCEPT ![c] = IdleClient]
        /\ UNCHANGED <<WaitingRequests, OutstandingRequests, callback>>
    BY <1>2, <2>0 DEF CompleteRealOperation, Taken, driverVars
  <2>2. r \in Replies /\ r # "pending" /\ r # "twice"
    BY DEF Replies
  <2>3. operation[o] = "pending"
    BY <2>1, OwnedIsPending
  <2>4. /\ \A x \in RealOps : x # o => operation'[x] = operation[x]
        /\ operation'[o] = r
    BY <2>1, <2>2, <2>3, OperationFacts
  <2>5. \A x \in Ops : (Queued(x)' <=> Queued(x)) /\ (InCallback(x)' <=> InCallback(x))
    BY <2>1, QueuedUnmoved DEF InCallback
  <2>6. \A x \in Ops : Taken(x)' <=> Taken(x) /\ x # o
    BY <1>b, <2>1
  <2>7. \A x \in Ops : OneHand(x)'
    BY <1>a, <2>1, <2>5, <2>6 DEF OneHand
  <2>8. ~InCallback(o) /\ ~Queued(o) /\ o \notin OutstandingRequests
    BY <1>a, <2>1 DEF OneHand
  <2>9. \A x \in RealOps :
           /\ operation'[x] # "twice"
           /\ operation'[x] = "pending" <=>
                 (InCallback(x)' \/ Queued(x)' \/ x \in OutstandingRequests' \/ Taken(x)')
    BY <1>a, <2>1, <2>2, <2>4, <2>5, <2>6, <2>8
  <2>10. Ownership'
    BY <1>a, <1>b, <2>1, <2>7, <2>9, QueuedUnmoved, OwnershipFromParts
  <2> QED
    BY <1>2, <2>10 DEF CompleteRealOperation, EmptyAfterRundown, driverVars
<1>3. CASE CompletePseudoOperation(c)
  <2> DEFINE o == client[c].op
  <2>1. /\ o \in ReadyOps /\ Taken(o)
        /\ UNCHANGED <<WaitingRequests, OutstandingRequests, operation>>
        /\ \/ client' = [client EXCEPT ![c] = IdleClient]
           \/ client' = [client EXCEPT ![c] = [IdleClient EXCEPT !.pc = "reissue"]]
    BY <1>3, PseudoFacts DEF Taken, driverVars
  <2>2. \A x \in Ops : Queued(x)' <=> Queued(x)
    BY <2>1, QueuedUnmoved
  <2>3. \A x \in Ops : Taken(x)' <=> Taken(x) /\ x # o
    BY <1>b, <2>1
  <2>4. ~InCallback(o) /\ ~Queued(o) /\ o \notin OutstandingRequests
    BY <1>a, <2>1 DEF OneHand
  <2>5. CASE UNCHANGED callback
    <3>1. \A x \in Ops : InCallback(x)' <=> InCallback(x)
      BY <2>5, InCallbackMoved
    <3>2. \A x \in Ops : OneHand(x)'
      BY <1>a, <2>1, <2>2, <2>3, <3>1 DEF OneHand
    <3>3. Ownership'
      BY <1>a, <1>b, <2>1, <2>2, <2>3, <3>1, <3>2, QueuedUnmoved,
         OwnershipFromParts
    <3> QED
      BY <1>3, <3>3 DEF CompletePseudoOperation, EmptyAfterRundown, driverVars
  <2>6. CASE \E r \in ReadyOps :
                /\ r = o \/ Unused(r)
                /\ callback' = [callback EXCEPT ![r] =
                      [pc |-> "create", poll |-> None, caller |-> c]]
    <3>1. PICK r \in ReadyOps :
                /\ r = o \/ Unused(r)
                /\ callback' = [callback EXCEPT ![r] =
                      [pc |-> "create", poll |-> None, caller |-> c]]
      BY <2>6
    <3>2. \A x \in Ops : InCallback(x)' <=> InCallback(x) \/ x = r
      BY <3>1 DEF InCallback
    <3>3. /\ ~Queued(r) /\ r \notin OutstandingRequests
          /\ r = o \/ ~Taken(r)
      BY <2>4, <3>1 DEF Unused, Taken
    <3>4. \A x \in Ops : OneHand(x)'
      BY <1>a, <2>1, <2>2, <2>3, <3>2, <3>3 DEF OneHand
    <3>5. Ownership'
      BY <1>a, <1>b, <2>1, <2>2, <2>3, <3>1, <3>2, <3>4, QueuedUnmoved,
         OwnershipFromParts
    <3> QED
      BY <1>3, <3>5 DEF CompletePseudoOperation, EmptyAfterRundown, driverVars
  <2> QED
    BY <1>3, <2>5, <2>6, PseudoFacts
<1>4. CASE FinishReissue(c)
  <2>1. client[c].op = None
    BY <1>4, <1>a DEF FinishReissue, ClientHoldsWhileTaken
  <2>2. \A x \in Ops : Taken(x)' <=> Taken(x)
    BY <1>4, <1>b, <2>1 DEF FinishReissue
  <2>3. UNCHANGED <<WaitingRequests, OutstandingRequests, callback, operation>>
    BY <1>4 DEF FinishReissue, driverVars
  <2>4. \A x \in Ops : (Queued(x)' <=> Queued(x)) /\ (InCallback(x)' <=> InCallback(x))
    BY <2>3, QueuedUnmoved DEF InCallback
  <2>5. \A x \in Ops : OneHand(x)'
    BY <1>a, <2>2, <2>3, <2>4 DEF OneHand
  <2>6. Ownership'
    BY <1>4, <1>a, <1>b, <2>2, <2>3, <2>4, <2>5, QueuedUnmoved,
       OwnershipFromParts DEF FinishReissue
  <2> QED
    BY <1>4, <2>6 DEF FinishReissue, EmptyAfterRundown, driverVars
<1> QED
  BY <1>1, <1>2, <1>3, <1>4 DEF FinishComplete

\* The rundown cancels what the collections hold; only the callbacks that have
\* not queued their operation yet keep one.
LEMMA RundownKeepsOwnership ==
    ASSUME TypeOK, Ownership, FileCloseRundown
    PROVE  Ownership' /\ EmptyAfterRundown'
<1> USE OpKinds, TypeParts
<1>1. /\ \A x \in Ops : OneHand(x)
      /\ \A x \in RealOps :
            /\ operation[x] # "twice"
            /\ operation[x] = "pending" <=>
                  (InCallback(x) \/ Queued(x) \/ x \in OutstandingRequests \/ Taken(x))
      /\ \A d, e \in Clients :
            client[d].op = client[e].op /\ client[d].op # None => d = e
      /\ ClientHoldsWhileTaken
  BY DEF Ownership, OneOwner, NoOperationLost, AnsweredAtMostOnce
<1>2. /\ \A x \in Ops : ~Queued(x)'
      /\ NotQueuedTwice'
      /\ OutstandingRequests' = {}
  BY DEF FileCloseRundown, Queued, NotQueuedTwice
<1>3. UNCHANGED <<callback, client>>
  BY DEF FileCloseRundown
<1>4. \A x \in Ops : /\ InCallback(x)' <=> InCallback(x)
                     /\ ~Taken(x) /\ ~Taken(x)'
  BY <1>1, <1>3 DEF FileCloseRundown, InCallback, Taken, ClientHoldsWhileTaken
<1>5. \A x \in RealOps :
         operation'[x] = IF Queued(x) \/ x \in OutstandingRequests
                         THEN "cancelled" ELSE operation[x]
  BY <1>1 DEF FileCloseRundown
<1>6. \A x \in RealOps :
         /\ operation'[x] # "twice"
         /\ operation'[x] = "pending" <=>
               (InCallback(x)' \/ Queued(x)' \/ x \in OutstandingRequests' \/ Taken(x)')
  BY <1>1, <1>2, <1>4, <1>5 DEF OneHand
<1>7. \A x \in Ops : OneHand(x)'
  BY <1>2, <1>4 DEF OneHand
<1>8. Ownership'
  BY <1>1, <1>2, <1>3, <1>6, <1>7, TakenUnmoved, OwnershipFromParts
<1> QED
  BY <1>8 DEF FileCloseRundown, EmptyAfterRundown

LEMMA IInvStep == IInv /\ [Next]_vars => IInv'
<1> SUFFICES ASSUME TypeOK, EmptyAfterRundown, Ownership, [Next]_vars
             PROVE  EmptyAfterRundown' /\ Ownership'
  BY TypeStep DEF IInv
<1> USE OpKinds, TypeParts
<1>1. CASE CreateDevice
  BY <1>1, OwnershipUnmoved DEF CreateDevice, EmptyAfterRundown
<1>2. CASE StartDevice
  BY <1>2, OwnershipUnmoved DEF StartDevice, driverVars, EmptyAfterRundown
<1>3. ASSUME NEW o \in RealOps, VhfAsyncOperation(o)
      PROVE  EmptyAfterRundown' /\ Ownership'
  <2>1. /\ NotQueuedTwice /\ ClientHoldsWhileTaken
        /\ \A x \in Ops : OneHand(x)
        /\ \A c, d \in Clients :
              client[c].op = client[d].op /\ client[c].op # None => c = d
        /\ \A x \in RealOps :
              /\ operation[x] # "twice"
              /\ operation[x] = "pending" <=>
                    (InCallback(x) \/ Queued(x) \/ x \in OutstandingRequests \/ Taken(x))
    BY DEF Ownership, OneOwner, NoOperationLost, AnsweredAtMostOnce
  <2>2. ~Queued(o) /\ o \notin OutstandingRequests /\ ~Taken(o)
    BY <1>3, <2>1 DEF VhfAsyncOperation
  <2>3. \A x \in Ops : InCallback(x)' <=> InCallback(x) \/ x = o
    BY <1>3, InCallbackMoved DEF VhfAsyncOperation
  <2>4. UNCHANGED <<WaitingRequests, OutstandingRequests, client>>
    BY <1>3 DEF VhfAsyncOperation, driverVars
  <2>5. \A x \in Ops : (Queued(x)' <=> Queued(x)) /\ (Taken(x)' <=> Taken(x))
    BY <2>4, QueuedUnmoved, TakenUnmoved
  <2>6. \A x \in Ops : OneHand(x)'
    BY <2>1, <2>2, <2>3, <2>4, <2>5 DEF OneHand
  <2>7. \A x \in RealOps : operation'[x] = IF x = o THEN "pending" ELSE operation[x]
    BY <1>3 DEF VhfAsyncOperation
  <2>8. Ownership'
    BY <2>1, <2>3, <2>4, <2>5, <2>6, <2>7, QueuedUnmoved, TakenUnmoved,
       OwnershipFromParts
  <2> QED
    BY <1>3, <2>8 DEF VhfAsyncOperation, driverVars, EmptyAfterRundown
<1>4. ASSUME NEW o \in ReadyOps, VhfReadyForNextReadReport(o)
      PROVE  EmptyAfterRundown' /\ Ownership'
  <2>1. /\ NotQueuedTwice /\ ClientHoldsWhileTaken
        /\ \A x \in Ops : OneHand(x)
        /\ \A c, d \in Clients :
              client[c].op = client[d].op /\ client[c].op # None => c = d
        /\ \A x \in RealOps :
              /\ operation[x] # "twice"
              /\ operation[x] = "pending" <=>
                    (InCallback(x) \/ Queued(x) \/ x \in OutstandingRequests \/ Taken(x))
    BY DEF Ownership, OneOwner, NoOperationLost, AnsweredAtMostOnce
  <2>2. ~Queued(o) /\ o \notin OutstandingRequests /\ ~Taken(o)
    BY <1>4 DEF VhfReadyForNextReadReport, Unused, Taken
  <2>3. \A x \in Ops : InCallback(x)' <=> InCallback(x) \/ x = o
    BY <1>4, InCallbackMoved DEF VhfReadyForNextReadReport
  <2>4. UNCHANGED <<WaitingRequests, OutstandingRequests, client, operation>>
    BY <1>4 DEF VhfReadyForNextReadReport, driverVars
  <2>5. \A x \in Ops : (Queued(x)' <=> Queued(x)) /\ (Taken(x)' <=> Taken(x))
    BY <2>4, QueuedUnmoved, TakenUnmoved
  <2>6. \A x \in Ops : OneHand(x)'
    BY <2>1, <2>2, <2>3, <2>4, <2>5 DEF OneHand
  <2>7. Ownership'
    BY <2>1, <2>3, <2>4, <2>5, <2>6, QueuedUnmoved, TakenUnmoved,
       OwnershipFromParts
  <2> QED
    BY <1>4, <2>7 DEF VhfReadyForNextReadReport, driverVars, EmptyAfterRundown
<1>5. ASSUME NEW o \in Ops, DispatchAsyncOperation(o)
      PROVE  EmptyAfterRundown' /\ Ownership'
  BY <1>5, DispatchKeepsOwnership
<1>6. ASSUME NEW p \in Polls, GetNextEvent(p)
      PROVE  EmptyAfterRundown' /\ Ownership'
  <2>1. \A x \in Ops : InCallback(x)' <=> InCallback(x)
    BY <1>6 DEF GetNextEvent, InCallback
  <2>2. CASE \E room \in BOOLEAN : TryCompleteGetNextEvent(p, room)
    BY <1>6, <2>1, <2>2, TryCompleteKeepsOwnership
       DEF GetNextEvent, EmptyAfterRundown
  <2>3. CASE UNCHANGED <<WaitingRequests, OutstandingRequests>>
    BY <1>6, <2>3, OwnershipUnmoved DEF GetNextEvent, EmptyAfterRundown
  <2> QED
    BY <1>6, <2>2, <2>3 DEF GetNextEvent
<1>7. ASSUME NEW p \in Polls, ForwardPoll(p) \/ CancelPoll(p)
      PROVE  EmptyAfterRundown' /\ Ownership'
  BY <1>7, OwnershipUnmoved
     DEF ForwardPoll, CancelPoll, driverVars, EmptyAfterRundown
<1>8. ASSUME NEW c \in Clients, TakeOutstandingRequest(c) \/ FinishComplete(c)
      PROVE  EmptyAfterRundown' /\ Ownership'
  BY <1>8, ClientKeepsOwnership
<1>9. CASE EvtIoWrite
  BY <1>9, OwnershipUnmoved DEF EvtIoWrite, driverVars, EmptyAfterRundown
<1>10. CASE CloseHandle
  BY <1>10, OwnershipUnmoved DEF CloseHandle, driverVars, EmptyAfterRundown
<1>11. CASE FileCloseRundown
  BY <1>11, RundownKeepsOwnership
<1>12. CASE VhfDelete
  BY <1>12, OwnershipUnmoved DEF VhfDelete, driverVars, EmptyAfterRundown
<1>13. CASE Closed \/ UNCHANGED vars
  BY <1>13, OwnershipUnmoved DEF Closed, vars, driverVars, EmptyAfterRundown
<1> QED
  BY <1>1, <1>2, <1>3, <1>4, <1>5, <1>6, <1>7, <1>8, <1>9, <1>10, <1>11,
     <1>12, <1>13 DEF Next

LEMMA IInvInvariant == Spec => []IInv
  BY IInvInit, IInvStep, PTL DEF Spec

\* No operation VHF waits for falls between the driver's threads and
\* collections.
THEOREM OperationsNotLost == Spec => []NoOperationLost
  BY IInvInvariant, PTL DEF IInv, Ownership

\* No operation object is ever in two hands.
THEOREM OperationsOwnedOnce == Spec => []OneOwner
  BY IInvInvariant, PTL DEF IInv, Ownership

\* No operation is completed to VHF twice.
THEOREM OperationsAnsweredOnce == Spec => []AnsweredAtMostOnce
  BY IInvInvariant, PTL DEF IInv, Ownership

\* Nothing is queued once the rundown of the file has run.
THEOREM RundownIsFinal == Spec => []NothingQueuedAfterRundown
<1>1. EmptyAfterRundown => NothingQueuedAfterRundown
  BY DEF EmptyAfterRundown, NothingQueuedAfterRundown
<1> QED
  BY <1>1, IInvInvariant, PTL DEF IInv

=============================================================================
