--------------------- MODULE WinUHidDriverPromise_proofs ----------------------
(***************************************************************************)
(* More proofs about the driver's request machinery, on top of IInv of     *)
(* WinUHidDriver_proofs: that an answer reaches the operation whose event  *)
(* the client was given, that a report VHF asked for stays asked of the    *)
(* client, and that every step of the driver is a step of HidOperations,   *)
(* or none, under the mapping of WinUHidDriver.                            *)
(***************************************************************************)
EXTENDS WinUHidDriver_proofs

-----------------------------------------------------------------------------
(* Request IDs                                                             *)

\* The operations that were given an ID: real ones only, as their IDs have
\* the MSB set and that of a pseudo-request is 0.
Numbered == {o \in RealOps : RequestId[o] # 0}

\* The counter has counted the numbered operations, which is why it cannot
\* have wrapped, and no two of them have the same ID.
Numbering ==
    /\ NextRequestId = Cardinality(Numbered)
    /\ \A o \in Numbered : RequestId[o] \in (MSB + 1)..(MSB + NextRequestId)
    /\ \A o, p \in Numbered : RequestId[o] = RequestId[p] => o = p
    /\ \A o \in ReadyOps : RequestId[o] = 0

\* An operation has its ID before another thread can see it.
Unnumbered ==
    \A o \in RealOps :
        /\ operation[o] = "new" \/ callback[o].pc = "create" => o \notin Numbered
        /\ \/ callback[o].pc = "lock"
           \/ Queued(o)
           \/ o \in OutstandingRequests \cup seen
           => o \in Numbered

\* The inductive invariant behind EventAnswersItsOperation.
Answers == Numbering /\ Unnumbered /\ EventAnswersItsOperation

LEMMA AnswersInit == Init => Answers
<1> SUFFICES ASSUME Init PROVE Answers
  OBVIOUS
<1> USE OpKinds
<1>1. Numbered = {}
  BY DEF Init, Numbered
<1>2. Numbering
  BY <1>1, FS_EmptySet DEF Init, Numbering
<1>3. Unnumbered
  BY <1>1 DEF Init, Unnumbered, Queued, IdleCallback
<1>4. EventAnswersItsOperation
  BY DEF Init, EventAnswersItsOperation, IdleClient
<1> QED
  BY <1>2, <1>3, <1>4 DEF Answers

\* A step that gives out no ID keeps Answers when it makes no operation new,
\* shows none that was not seen before, and puts no foreign event in a
\* client's hand.
LEMMA AnswersMoves ==
    ASSUME Answers, UNCHANGED <<NextRequestId, RequestId>>,
           \A o \in RealOps :
              /\ operation'[o] = "new" \/ callback'[o].pc = "create" =>
                    operation[o] = "new" \/ callback[o].pc = "create"
              /\ callback'[o].pc = "lock" \/ Queued(o)'
                 \/ o \in OutstandingRequests' \cup seen' =>
                    callback[o].pc = "lock" \/ Queued(o)
                    \/ o \in OutstandingRequests \cup seen,
           \A c \in Clients :
              \/ client'[c] = client[c]
              \/ client'[c].op \in RealOps => client'[c].op = client'[c].event
    PROVE  Answers'
<1>1. Numbered' = Numbered
  BY DEF Numbered
<1>2. Numbering'
  BY <1>1 DEF Answers, Numbering
<1>3. Unnumbered'
  BY <1>1 DEF Answers, Unnumbered
<1>4. EventAnswersItsOperation'
  BY DEF Answers, EventAnswersItsOperation
<1> QED
  BY <1>2, <1>3, <1>4 DEF Answers

\* The next ID is one that no operation has: the counter is still below the
\* number of real operations, so it does not wrap.
LEMMA NextIdIsFresh ==
    ASSUME TypeOK, Numbering, NEW o \in RealOps, o \notin Numbered,
           CreateRealOperation(o)
    PROVE  Numbering' /\ Numbered' = Numbered \cup {o}
<1> DEFINE N == Cardinality(Numbered)
<1>1. IsFiniteSet(Numbered) /\ N \in Nat /\ NextRequestId = N
  BY DriverAssumption, FS_Subset, FS_CardinalityType DEF Numbered, Numbering
<1>2. IsFiniteSet(Numbered \cup {o}) /\ Cardinality(Numbered \cup {o}) = N + 1
  BY <1>1, FS_AddElement
<1>3. N + 1 <= Cardinality(RealOps) /\ Cardinality(RealOps) \in Nat
  <2>1. Numbered \cup {o} \in SUBSET RealOps
    BY DEF Numbered
  <2> QED
    BY <1>2, <2>1, DriverAssumption, FS_Subset, FS_CardinalityType
<1>4. MSB \in Nat /\ N + 1 < MSB
  BY <1>1, <1>3, DriverAssumption
<1> HIDE DEF N
<1>5. /\ (N + 1) % (2 * MSB) = N + 1
      /\ (N + 1) % MSB = N + 1
  <2>1. \A a, m \in Nat : a < m => a % m = a
    OBVIOUS
  <2>2. N + 1 \in Nat /\ 2 * MSB \in Nat /\ N + 1 < 2 * MSB
    BY <1>1, <1>4
  <2> QED
    BY <1>4, <2>1, <2>2
<1>6. /\ NextRequestId' = N + 1
      /\ RequestId' = [RequestId EXCEPT ![o] = MSB + (N + 1)]
  BY <1>1, <1>5 DEF CreateRealOperation
<1>7. RequestId \in [Ops -> Nat] /\ o \in Ops
  BY OpKinds DEF TypeOK
<1>8. /\ RequestId'[o] = MSB + (N + 1)
      /\ \A x \in Ops : x # o => RequestId'[x] = RequestId[x]
  BY <1>6, <1>7
<1>9. Numbered' = Numbered \cup {o}
  <2>1. MSB + (N + 1) # 0
    BY <1>1, <1>4
  <2> QED
    BY <1>8, <2>1, OpKinds DEF Numbered
<1>10. NextRequestId' = Cardinality(Numbered')
  BY <1>2, <1>6, <1>9
<1>11. \A x \in Numbered : RequestId'[x] \in (MSB + 1)..(MSB + N)
  BY <1>1, <1>8, OpKinds DEF Numbering, Numbered
<1>12. \A x \in Numbered' : RequestId'[x] \in (MSB + 1)..(MSB + NextRequestId')
  BY <1>1, <1>4, <1>6, <1>8, <1>9, <1>11
<1>13. \A x, y \in Numbered' : RequestId'[x] = RequestId'[y] => x = y
  <2>1. \A x \in Numbered : RequestId'[x] # MSB + (N + 1)
    BY <1>1, <1>4, <1>11
  <2>2. \A x, y \in Numbered : RequestId'[x] = RequestId'[y] => x = y
    BY <1>8, OpKinds DEF Numbering, Numbered
  <2> QED
    BY <1>8, <1>9, <2>1, <2>2
<1>14. \A x \in ReadyOps : RequestId'[x] = 0
  BY <1>8, OpKinds DEF Numbering
<1> QED
  BY <1>9, <1>10, <1>12, <1>13, <1>14 DEF Numbering

\* Taking the oldest operation shows the client no operation that was not
\* queued, and hides none.
LEMMA TryCompleteFacts ==
    ASSUME IInv, NEW p, NEW room, TryCompleteGetNextEvent(p, room)
    PROVE  /\ Head(WaitingRequests) \in Ops
           /\ Queued(Head(WaitingRequests))
           /\ WaitingRequests # <<>>
           /\ \/ UNCHANGED <<WaitingRequests, OutstandingRequests, seen>>
              \/ /\ \A x \in Ops : Queued(x)' <=>
                                      Queued(x) /\ x # Head(WaitingRequests)
                 /\ OutstandingRequests' =
                       OutstandingRequests \cup {Head(WaitingRequests)}
                 /\ seen' = seen \cup {Head(WaitingRequests)}
<1>1. WaitingRequests \in Seq(Ops) /\ WaitingRequests # <<>> /\ NotQueuedTwice
  BY DEF IInv, TypeOK, Ownership, OneOwner, TryCompleteGetNextEvent
<1>2. Head(WaitingRequests) \in Ops /\ Queued(Head(WaitingRequests))
  BY <1>1 DEF Queued
<1> QED
  BY <1>1, <1>2, TailQueued DEF TryCompleteGetNextEvent

\* The callback thread.
LEMMA DispatchKeepsAnswers ==
    ASSUME IInv, Answers, NEW o \in Ops, DispatchAsyncOperation(o)
    PROVE  Answers'
<1> USE OpKinds, TypeParts DEF IInv
<1>r. ASSUME Return(o)
      PROVE  \A x \in Ops : callback'[x].pc = callback[x].pc
                            \/ callback'[x].pc = "idle"
  BY <1>r, ReturnFacts
<1>a. \A r \in Replies : VhfAsyncOperationComplete(o, r) =>
         \A x \in RealOps : operation'[x] = "new" => operation[x] = "new"
  BY OperationFacts DEF Replies
<1>1. CASE CreateOperationFails(o)
  <2>1. \A x \in Ops : Queued(x)' <=> Queued(x)
    BY <1>1, QueuedUnmoved DEF CreateOperationFails, driverVars
  <2> QED
    BY <1>1, <1>r, <1>a, <2>1, AnswersMoves
       DEF CreateOperationFails, driverVars, Replies
<1>2. CASE CreatePseudoOperation(o)
  <2>1. UNCHANGED RequestId
    <3>1. RequestId[o] = 0
      BY <1>2 DEF CreatePseudoOperation, Answers, Numbering
    <3> QED
      BY <1>2, <3>1 DEF CreatePseudoOperation, TypeOK
  <2>2. \A x \in Ops : Queued(x)' <=> Queued(x)
    BY <1>2, QueuedUnmoved DEF CreatePseudoOperation
  <2>3. \A x \in RealOps : callback'[x].pc = callback[x].pc
    BY <1>2, GotoFacts DEF CreatePseudoOperation, Labels
  <2> QED
    BY <1>2, <2>1, <2>2, <2>3, AnswersMoves DEF CreatePseudoOperation
<1>3. CASE CreateRealOperation(o)
  <2>1. o \in RealOps /\ o \notin Numbered /\ InCallback(o)
    BY <1>3 DEF CreateRealOperation, Answers, Unnumbered, InCallback
  <2>2. Numbering' /\ Numbered' = Numbered \cup {o}
    BY <1>3, <2>1, NextIdIsFresh DEF Answers
  <2>3. \A x \in Ops : Queued(x)' <=> Queued(x)
    BY <1>3, QueuedUnmoved DEF CreateRealOperation
  <2>4. operation[o] = "pending"
    BY <2>1, OwnedIsPending
  <2>5. /\ operation'[o] # "new"
        /\ callback'[o].pc # "create"
        /\ \A x \in RealOps : x # o => /\ operation'[x] = operation[x]
                                       /\ callback'[x].pc = callback[x].pc
    <3>1. CASE o \in UnknownReports
      <4>1. Return(o) /\ VhfAsyncOperationComplete(o, "failed")
        BY <1>3, <3>1 DEF CreateRealOperation
      <4>2. "failed" \in Replies /\ "failed" # "new" /\ "twice" # "new"
        BY DEF Replies
      <4> QED
        BY <2>1, <4>1, <4>2, ReturnFacts, OperationFacts
    <3>2. CASE o \notin UnknownReports
      BY <1>3, <2>1, <2>4, <3>2, GotoFacts DEF CreateRealOperation, Labels
    <3> QED
      BY <3>1, <3>2
  <2>6. UNCHANGED <<OutstandingRequests, seen, client>>
    BY <1>3 DEF CreateRealOperation
  <2>7. Unnumbered'
    BY <2>2, <2>3, <2>5, <2>6 DEF Answers, Unnumbered
  <2>8. EventAnswersItsOperation'
    BY <2>6 DEF Answers, EventAnswersItsOperation
  <2> QED
    BY <2>2, <2>7, <2>8 DEF Answers
<1>4. CASE QueueOperation(o)
  <2>1. UNCHANGED <<NextRequestId, RequestId, OutstandingRequests, seen, client>>
    BY <1>4 DEF QueueOperation
  <2>2. CASE /\ WaitingRequests' = Append(WaitingRequests, o)
             /\ Goto(o, "retrieve")
             /\ UNCHANGED operation
    <3>1. \A x \in Ops : Queued(x)' <=> Queued(x) \/ x = o
      BY <2>2, AppendQueued
    <3>2. \A x \in Ops : callback'[x].pc = IF x = o THEN "retrieve"
                                           ELSE callback[x].pc
      BY <2>2, GotoFacts DEF Labels
    <3>3. callback[o].pc = "lock"
      BY <1>4 DEF QueueOperation
    <3> QED
      BY <2>1, <2>2, <3>1, <3>2, <3>3, AnswersMoves
  <2>3. CASE \E r \in Replies : /\ VhfAsyncOperationComplete(o, r)
                                /\ Return(o)
                                /\ UNCHANGED WaitingRequests
    <3>1. \A x \in Ops : Queued(x)' <=> Queued(x)
      BY <2>3, QueuedUnmoved
    <3> QED
      BY <1>r, <1>a, <2>1, <2>3, <3>1, AnswersMoves
  <2> QED
    BY <1>4, <2>2, <2>3 DEF QueueOperation, Replies
<1>5. CASE RetrievePendedPoll(o)
  <2>1. \A x \in Ops : /\ callback'[x].pc = "create" => callback[x].pc = "create"
                       /\ callback'[x].pc = "lock" => callback[x].pc = "lock"
    <3>1. CASE Return(o)
      BY <1>r, <3>1
    <3>2. CASE \E p \in Pended :
             callback' = [callback EXCEPT ![o].pc = "serve", ![o].poll = p]
      BY <3>2 DEF CallbackState
    <3> QED
      BY <1>5, <3>1, <3>2 DEF RetrievePendedPoll
  <2>2. \A x \in Ops : Queued(x)' <=> Queued(x)
    BY <1>5, QueuedUnmoved DEF RetrievePendedPoll, driverVars
  <2> QED
    BY <1>5, <2>1, <2>2, AnswersMoves DEF RetrievePendedPoll, driverVars
<1>6. CASE ServePendedPoll(o)
  <2>1. \A x \in Ops : /\ callback'[x].pc = "create" => callback[x].pc = "create"
                       /\ callback'[x].pc = "lock" => callback[x].pc = "lock"
    <3>1. CASE Return(o)
      BY <1>r, <3>1
    <3>2. CASE Goto(o, "requeue")
      BY <3>2, GotoFacts DEF Labels
    <3> QED
      BY <1>6, <3>1, <3>2 DEF ServePendedPoll
  <2>2. \A x \in Ops : Queued(x)' \/ x \in OutstandingRequests' \cup seen' =>
                       Queued(x) \/ x \in OutstandingRequests \cup seen
    BY <1>6, TryCompleteFacts, QueuedUnmoved DEF ServePendedPoll
  <2> QED
    BY <1>6, <2>1, <2>2, AnswersMoves DEF ServePendedPoll
<1>7. CASE RequeuePoll(o)
  <2>1. \A x \in Ops : Queued(x)' <=> Queued(x)
    BY <1>7, QueuedUnmoved DEF RequeuePoll, driverVars
  <2> QED
    BY <1>7, <1>r, <2>1, AnswersMoves DEF RequeuePoll, driverVars
<1> QED
  BY <1>1, <1>2, <1>3, <1>4, <1>5, <1>6, <1>7 DEF DispatchAsyncOperation

LEMMA AnswersStep == IInv /\ Answers /\ [Next]_vars => Answers'
<1> SUFFICES ASSUME IInv, Answers, [Next]_vars PROVE Answers'
  OBVIOUS
<1> USE OpKinds, TypeParts DEF IInv
\* Most steps leave alone what Answers speaks of.
<1>a. ASSUME UNCHANGED <<driverVars, callback, client, operation, seen>>
      PROVE  Answers'
  BY <1>a, QueuedUnmoved, AnswersMoves DEF driverVars
<1>1. CASE CreateDevice
  BY <1>1, QueuedUnmoved, AnswersMoves DEF CreateDevice
<1>2. CASE StartDevice
  BY <1>2, <1>a DEF StartDevice
<1>3. ASSUME NEW o \in RealOps, VhfAsyncOperation(o) PROVE Answers'
  <2>1. \A x \in Ops : callback'[x].pc = IF x = o THEN "create" ELSE callback[x].pc
    BY <1>3, GotoFacts DEF VhfAsyncOperation, Labels
  <2>2. operation[o] = "new"
        /\ \A x \in RealOps : operation'[x] = IF x = o THEN "pending"
                                              ELSE operation[x]
    BY <1>3 DEF VhfAsyncOperation
  <2> QED
    BY <1>3, <2>1, <2>2, QueuedUnmoved, AnswersMoves
       DEF VhfAsyncOperation, driverVars
<1>4. ASSUME NEW o \in ReadyOps, VhfReadyForNextReadReport(o) PROVE Answers'
  <2>1. \A x \in RealOps : callback'[x].pc = callback[x].pc
    BY <1>4, GotoFacts DEF VhfReadyForNextReadReport, Labels
  <2> QED
    BY <1>4, <2>1, QueuedUnmoved, AnswersMoves
       DEF VhfReadyForNextReadReport, driverVars
<1>5. ASSUME NEW o \in Ops, DispatchAsyncOperation(o) PROVE Answers'
  BY <1>5, DispatchKeepsAnswers
<1>6. ASSUME NEW p \in Polls, GetNextEvent(p) PROVE Answers'
  <2>1. \A x \in Ops : Queued(x)' \/ x \in OutstandingRequests' \cup seen' =>
                       Queued(x) \/ x \in OutstandingRequests \cup seen
    BY <1>6, TryCompleteFacts, QueuedUnmoved DEF GetNextEvent
  <2> QED
    BY <1>6, <2>1, AnswersMoves DEF GetNextEvent
<1>7. ASSUME NEW p \in Polls, ForwardPoll(p) \/ CancelPoll(p) PROVE Answers'
  BY <1>7, <1>a DEF ForwardPoll, CancelPoll
\* What the client says an event is has the ID of what is taken, and IDs tell
\* real operations apart.
<1>8. ASSUME NEW c \in Clients, TakeOutstandingRequest(c) PROVE Answers'
  <2>1. \A e \in seen : \A t \in Matching(e) : t \in RealOps => t = e
    <3> SUFFICES ASSUME NEW e \in seen, NEW t \in OutstandingRequests, t \in RealOps,
                        RequestId[t] = RequestId[e]
                 PROVE  t = e
      BY DEF Matching
    <3>1. t \in Numbered
      BY DEF Answers, Unnumbered
    <3>2. e \in RealOps
      BY <3>1 DEF Numbered, Answers, Numbering
    <3>3. e \in Numbered
      BY <3>2 DEF Answers, Unnumbered
    <3> QED
      BY <3>1, <3>3 DEF Answers, Numbering
  <2>2. \A d \in Clients :
           \/ client'[d] = client[d]
           \/ client'[d].op \in RealOps => client'[d].op = client'[d].event
    BY <1>8, <2>1 DEF TakeOutstandingRequest
  <2>3. \A x \in Ops : Queued(x)' <=> Queued(x)
    BY <1>8, QueuedUnmoved DEF TakeOutstandingRequest
  <2>4. OutstandingRequests' \subseteq OutstandingRequests /\ seen' \subseteq seen
    BY <1>8 DEF TakeOutstandingRequest
  <2>5. UNCHANGED <<NextRequestId, RequestId, callback, operation>>
    BY <1>8 DEF TakeOutstandingRequest
  <2> QED
    BY <2>2, <2>3, <2>4, <2>5, AnswersMoves
<1>9. ASSUME NEW c \in Clients, FinishComplete(c) PROVE Answers'
  <2>1. \A d \in Clients : client'[d] = client[d] \/ client'[d].op = None
    BY <1>9, PseudoFacts DEF FinishComplete, CompleteRealOperation,
       FinishReissue, IdleClient
  <2>2. /\ UNCHANGED <<NextRequestId, RequestId, OutstandingRequests, seen>>
        /\ \A x \in Ops : Queued(x)' <=> Queued(x)
    BY <1>9, QueuedUnmoved DEF FinishComplete, CompleteRealOperation,
       CompletePseudoOperation, FinishReissue, driverVars
  <2>3. \A x \in RealOps : callback'[x].pc = callback[x].pc
    BY <1>9, PseudoFacts DEF FinishComplete, CompleteRealOperation, FinishReissue
  <2>4. \A x \in RealOps : operation'[x] = "new" => operation[x] = "new"
    BY <1>9, OperationFacts DEF FinishComplete, CompleteRealOperation,
       CompletePseudoOperation, FinishReissue, Replies
  <2> QED
    BY <2>1, <2>2, <2>3, <2>4, AnswersMoves
<1>10. CASE EvtIoWrite
  BY <1>10, <1>a DEF EvtIoWrite
<1>11. CASE CloseHandle
  BY <1>11, <1>a DEF CloseHandle
<1>12. CASE FileCloseRundown
  <2>1. \A x \in RealOps : operation'[x] = "new" => operation[x] = "new"
    BY <1>12 DEF FileCloseRundown
  <2>2. OutstandingRequests' = {} /\ \A x \in Ops : ~Queued(x)'
    BY <1>12 DEF FileCloseRundown, Queued
  <2> QED
    BY <1>12, <2>1, <2>2, AnswersMoves DEF FileCloseRundown
<1>13. CASE VhfDelete
  BY <1>13, <1>a DEF VhfDelete
<1>14. CASE Closed \/ UNCHANGED vars
  BY <1>14, <1>a DEF Closed, vars
<1> QED
  BY <1>1, <1>2, <1>3, <1>4, <1>5, <1>6, <1>7, <1>8, <1>9, <1>10, <1>11,
     <1>12, <1>13, <1>14 DEF Next

LEMMA AnswersInvariant == Spec => []Answers
  BY AnswersInit, AnswersStep, IInvInvariant, PTL DEF Spec

\* An answer reaches the operation whose event the client was given, also when
\* an event is answered twice: TakeOutstandingRequestById finds an operation by
\* its ID, and no file gives one ID to two operations.
THEOREM EventAnswersItsOperationInvariant == Spec => []EventAnswersItsOperation
  BY AnswersInvariant, PTL DEF Answers

-----------------------------------------------------------------------------
(* Reports VHF asked for                                                   *)

\* Nothing runs in the driver for a file before its device is created; so when
\* VhfHandle is NULL while something runs, the rundown has cleared it.
IdleBeforeCreate ==
    file \in {"open", "cleanup"} /\ ~VhfHandle =>
        /\ vhf = "none"
        /\ \A o \in Ops : callback[o].pc = "idle"
        /\ \A c \in Clients : client[c].pc = "idle"

\* The device exists as soon as something runs, so no step but the rundown can
\* disturb IdleBeforeCreate.
LEMMA IdleBeforeCreateStep ==
    TypeOK /\ IdleBeforeCreate /\ [Next]_vars => IdleBeforeCreate'
<1> SUFFICES ASSUME TypeOK, IdleBeforeCreate, [Next]_vars,
                    (file \in {"open", "cleanup"} /\ ~VhfHandle)'
             PROVE  /\ vhf' = "none"
                    /\ \A o \in Ops : callback'[o].pc = "idle"
                    /\ \A c \in Clients : client'[c].pc = "idle"
  BY DEF IdleBeforeCreate
<1>1. /\ file \in {"open", "cleanup"} /\ ~VhfHandle
      /\ ~CreateDevice /\ ~FileCloseRundown
  <2>1. ~CreateDevice /\ ~FileCloseRundown
    BY DEF CreateDevice, FileCloseRundown
  <2>2. UNCHANGED VhfHandle /\ file \in {"open", "cleanup"}
    BY <2>1 DEF Next, vars, driverVars, StartDevice, VhfAsyncOperation,
       VhfReadyForNextReadReport, DispatchAsyncOperation, CreateOperationFails,
       CreatePseudoOperation, CreateRealOperation, QueueOperation,
       RetrievePendedPoll, ServePendedPoll, RequeuePoll, GetNextEvent,
       ForwardPoll, CancelPoll, TakeOutstandingRequest, FinishComplete,
       CompleteRealOperation, CompletePseudoOperation, FinishReissue, EvtIoWrite,
       CloseHandle, VhfDelete, Closed
  <2> QED
    BY <2>1, <2>2
<1>2. /\ vhf = "none"
      /\ \A o \in Ops : callback[o].pc = "idle"
      /\ \A c \in Clients : client[c].pc = "idle"
  BY <1>1 DEF IdleBeforeCreate
<1>3. /\ \A o \in Ops : ~DispatchAsyncOperation(o)
      /\ \A c \in Clients : ~FinishComplete(c)
  BY <1>2 DEF DispatchAsyncOperation, CreateOperationFails, CreatePseudoOperation,
     CreateRealOperation, QueueOperation, RetrievePendedPoll, ServePendedPoll,
     RequeuePoll, FinishComplete, CompleteRealOperation, CompletePseudoOperation,
     FinishReissue
<1>4. UNCHANGED <<vhf, callback, client>>
  BY <1>1, <1>2, <1>3, OpKinds DEF Next, vars, driverVars, StartDevice,
     VhfAsyncOperation, VhfReadyForNextReadReport, GetNextEvent, ForwardPoll,
     CancelPoll, TakeOutstandingRequest, EvtIoWrite, CloseHandle, VhfDelete, Closed
<1> QED
  BY <1>2, <1>4

\* A pseudo-request the driver is still responsible for.
Asking(o) == InCallback(o) \/ Queued(o) \/ o \in OutstandingRequests \/ Taken(o)

\* The callback thread passes a pseudo-request on, unless an allocation fails
\* or the file was run down meanwhile.
LEMMA DispatchKeepsAsking ==
    ASSUME IInv, IdleBeforeCreate, file \in {"open", "cleanup"},
           AllocMayFail = FALSE,
           NEW o \in Ops, DispatchAsyncOperation(o), NEW x \in ReadyOps, Asking(x)
    PROVE  Asking(x)'
<1> USE OpKinds, TypeParts DEF IInv
<1>a. UNCHANGED client /\ (Taken(x)' <=> Taken(x))
  BY TakenUnmoved DEF DispatchAsyncOperation, CreateOperationFails,
     CreatePseudoOperation, CreateRealOperation, QueueOperation,
     RetrievePendedPoll, ServePendedPoll, RequeuePoll
\* The labels "retrieve", "serve" and "requeue" come after the operation was
\* queued.
<1>b. ASSUME callback[o].pc \in {"retrieve", "serve", "requeue"},
             \/ Return(o)
             \/ Goto(o, "requeue")
             \/ \E p \in Pended :
                   callback' = [callback EXCEPT ![o].pc = "serve", ![o].poll = p]
      PROVE  InCallback(x)' <=> InCallback(x)
  <2>1. CASE Return(o) \/ Goto(o, "requeue")
    BY <1>b, <2>1, InCallbackMoved DEF InCallback
  <2>2. CASE \E p \in Pended :
                callback' = [callback EXCEPT ![o].pc = "serve", ![o].poll = p]
    BY <1>b, <2>2 DEF InCallback, CallbackState
  <2> QED
    BY <1>b, <2>1, <2>2
<1>1. CASE CreateOperationFails(o)
  BY <1>1 DEF CreateOperationFails
<1>2. CASE CreatePseudoOperation(o)
  BY <1>2, <1>a, QueuedUnmoved, InCallbackMoved
     DEF CreatePseudoOperation, Asking, InCallback
<1>3. CASE CreateRealOperation(o)
  <2>1. o # x
    BY <1>3 DEF CreateRealOperation
  <2>2. InCallback(x)' <=> InCallback(x)
    BY <1>3, <2>1, InCallbackMoved DEF CreateRealOperation
  <2> QED
    BY <1>3, <1>a, <2>2, QueuedUnmoved DEF CreateRealOperation, Asking
<1>4. CASE QueueOperation(o)
  <2>1. VhfHandle
    BY <1>4 DEF QueueOperation, IdleBeforeCreate
  <2>2. /\ WaitingRequests' = Append(WaitingRequests, o)
        /\ Goto(o, "retrieve")
        /\ UNCHANGED OutstandingRequests
    BY <1>4, <2>1 DEF QueueOperation
  <2>3. /\ Queued(x)' <=> Queued(x) \/ x = o
        /\ InCallback(x)' <=> InCallback(x) /\ x # o
    BY <2>2, AppendQueued, InCallbackMoved
  <2> QED
    BY <1>a, <2>2, <2>3 DEF Asking
<1>5. CASE RetrievePendedPoll(o)
  <2>1. InCallback(x)' <=> InCallback(x)
    BY <1>5, <1>b DEF RetrievePendedPoll
  <2> QED
    BY <1>5, <1>a, <2>1, QueuedUnmoved DEF RetrievePendedPoll, driverVars, Asking
<1>6. CASE ServePendedPoll(o)
  <2>1. InCallback(x)' <=> InCallback(x)
    BY <1>6, <1>b DEF ServePendedPoll
  <2>2. Queued(x) \/ x \in OutstandingRequests =>
           Queued(x)' \/ x \in OutstandingRequests'
    BY <1>6, TryCompleteFacts, QueuedUnmoved DEF ServePendedPoll
  <2> QED
    BY <1>a, <2>1, <2>2 DEF Asking
<1>7. CASE RequeuePoll(o)
  <2>1. InCallback(x)' <=> InCallback(x)
    BY <1>7, <1>b DEF RequeuePoll
  <2> QED
    BY <1>7, <1>a, <2>1, QueuedUnmoved DEF RequeuePoll, driverVars, Asking
<1> QED
  BY <1>1, <1>2, <1>3, <1>4, <1>5, <1>6, <1>7 DEF DispatchAsyncOperation

LEMMA NotForgottenStep ==
    ASSUME AllocMayFail = FALSE, IInv, IdleBeforeCreate, ReadyRequestNotForgotten,
           [Next]_vars
    PROVE  ReadyRequestNotForgotten'
<1> USE OpKinds, TypeParts DEF IInv
<1> SUFFICES ASSUME ready' = "wanted", file' \in {"open", "cleanup"}
             PROVE  \E x \in ReadyOps : Asking(x)'
  BY DEF ReadyRequestNotForgotten, Asking
<1>a. file \in {"open", "cleanup"}
  BY DEF Next, vars, driverVars, CreateDevice, StartDevice, VhfAsyncOperation,
     VhfReadyForNextReadReport, DispatchAsyncOperation, CreateOperationFails,
     CreatePseudoOperation, CreateRealOperation, QueueOperation,
     RetrievePendedPoll, ServePendedPoll, RequeuePoll, GetNextEvent, ForwardPoll,
     CancelPoll, TakeOutstandingRequest, FinishComplete, CompleteRealOperation,
     CompletePseudoOperation, FinishReissue, EvtIoWrite, CloseHandle,
     FileCloseRundown, VhfDelete, Closed
<1>b. ready = "wanted" => \E x \in ReadyOps : Asking(x)
  BY <1>a DEF ReadyRequestNotForgotten, Asking
\* When the request was asked for before the step, it is enough that no object
\* is dropped.
<1>c. ASSUME UNCHANGED ready, \A x \in ReadyOps : Asking(x) => Asking(x)'
      PROVE  \E x \in ReadyOps : Asking(x)'
  BY <1>b, <1>c
<1>d. ASSUME UNCHANGED <<ready, WaitingRequests, OutstandingRequests, callback, client>>
      PROVE  \E x \in ReadyOps : Asking(x)'
  BY <1>c, <1>d DEF Asking, InCallback, Queued, Taken
<1>1. CASE CreateDevice \/ StartDevice
  BY <1>1, <1>d DEF CreateDevice, StartDevice, driverVars
<1>2. ASSUME NEW o \in RealOps, VhfAsyncOperation(o)
      PROVE  \E x \in ReadyOps : Asking(x)'
  <2>1. \A x \in Ops : InCallback(x)' <=> InCallback(x) \/ x = o
    BY <1>2, InCallbackMoved DEF VhfAsyncOperation
  <2> QED
    BY <1>2, <1>c, <2>1, QueuedUnmoved, TakenUnmoved
       DEF VhfAsyncOperation, driverVars, Asking
<1>3. ASSUME NEW o \in ReadyOps, VhfReadyForNextReadReport(o)
      PROVE  \E x \in ReadyOps : Asking(x)'
  <2>1. \A x \in Ops : InCallback(x)' <=> InCallback(x) \/ x = o
    BY <1>3, InCallbackMoved DEF VhfReadyForNextReadReport
  <2> QED
    BY <2>1 DEF Asking
<1>4. ASSUME NEW o \in Ops, DispatchAsyncOperation(o)
      PROVE  \E x \in ReadyOps : Asking(x)'
  <2>1. UNCHANGED ready
    BY <1>4 DEF DispatchAsyncOperation, CreateOperationFails,
       CreatePseudoOperation, CreateRealOperation, QueueOperation,
       RetrievePendedPoll, ServePendedPoll, RequeuePoll
  <2> QED
    BY <1>4, <1>a, <1>c, <2>1, DispatchKeepsAsking
<1>5. ASSUME NEW p \in Polls, GetNextEvent(p)
      PROVE  \E x \in ReadyOps : Asking(x)'
  <2>1. \A x \in Ops : Queued(x) \/ x \in OutstandingRequests =>
                       Queued(x)' \/ x \in OutstandingRequests'
    BY <1>5, TryCompleteFacts, QueuedUnmoved DEF GetNextEvent
  <2>2. \A x \in Ops : (InCallback(x)' <=> InCallback(x)) /\ (Taken(x)' <=> Taken(x))
    BY <1>5, TakenUnmoved DEF GetNextEvent, InCallback
  <2> QED
    BY <1>5, <1>c, <2>1, <2>2 DEF GetNextEvent, Asking
<1>6. ASSUME NEW p \in Polls, ForwardPoll(p) \/ CancelPoll(p)
      PROVE  \E x \in ReadyOps : Asking(x)'
  BY <1>6, <1>d DEF ForwardPoll, CancelPoll, driverVars
<1>7. ASSUME NEW c \in Clients, TakeOutstandingRequest(c)
      PROVE  \E x \in ReadyOps : Asking(x)'
  <2>1. client[c].op = None
    BY <1>7 DEF TakeOutstandingRequest, Ownership, ClientHoldsWhileTaken
  <2>2. \A x \in Ops : Taken(x) => Taken(x)'
    BY <1>7, <2>1 DEF TakeOutstandingRequest, Taken
  <2>3. \A x \in OutstandingRequests \ OutstandingRequests' : Taken(x)'
    BY <1>7 DEF TakeOutstandingRequest, Taken
  <2>4. UNCHANGED <<ready, WaitingRequests, callback>>
    BY <1>7 DEF TakeOutstandingRequest
  <2>5. \A x \in Ops : (InCallback(x)' <=> InCallback(x)) /\ (Queued(x)' <=> Queued(x))
    BY <2>4, QueuedUnmoved DEF InCallback
  <2> QED
    BY <1>c, <2>2, <2>3, <2>4, <2>5 DEF Asking
<1>8. ASSUME NEW c \in Clients, CompleteRealOperation(c)
      PROVE  \E x \in ReadyOps : Asking(x)'
  <2>1. \A x \in ReadyOps : Taken(x) => Taken(x)'
    BY <1>8 DEF CompleteRealOperation, Taken
  <2>2. UNCHANGED <<ready, WaitingRequests, OutstandingRequests, callback>>
    BY <1>8 DEF CompleteRealOperation, driverVars
  <2> QED
    BY <1>c, <2>1, <2>2, QueuedUnmoved DEF Asking, InCallback
\* The client's failure makes the driver ask again at once, and any other
\* completion leaves no report wanted.
<1>9. ASSUME NEW c \in Clients, CompletePseudoOperation(c)
      PROVE  \E x \in ReadyOps : Asking(x)'
  <2>1. PICK r \in ReadyOps :
           callback' = [callback EXCEPT ![r] =
                           [pc |-> "create", poll |-> None, caller |-> c]]
    BY <1>9, PseudoFacts
  <2>2. InCallback(r)'
    BY <2>1 DEF InCallback
  <2> QED
    BY <2>2 DEF Asking
<1>10. ASSUME NEW c \in Clients, FinishReissue(c)
       PROVE  \E x \in ReadyOps : Asking(x)'
  <2>1. client[c].op = None
    BY <1>10 DEF FinishReissue, Ownership, ClientHoldsWhileTaken
  <2>2. \A x \in Ops : Taken(x) => Taken(x)'
    BY <1>10, <2>1 DEF FinishReissue, Taken
  <2>3. UNCHANGED <<ready, WaitingRequests, OutstandingRequests, callback>>
    BY <1>10 DEF FinishReissue, driverVars
  <2> QED
    BY <1>c, <2>2, <2>3, QueuedUnmoved DEF Asking, InCallback
<1>11. CASE EvtIoWrite
  BY <1>11 DEF EvtIoWrite
<1>12. CASE CloseHandle
  BY <1>12, <1>d DEF CloseHandle, driverVars
<1>13. CASE FileCloseRundown \/ VhfDelete
  BY <1>13 DEF FileCloseRundown, VhfDelete
<1>14. CASE Closed \/ UNCHANGED vars
  BY <1>14, <1>d DEF Closed, vars, driverVars
<1> QED
  BY <1>1, <1>2, <1>3, <1>4, <1>5, <1>6, <1>7, <1>8, <1>9, <1>10, <1>11,
     <1>12, <1>13, <1>14 DEF Next, FinishComplete

LEMMA IdleBeforeCreateInvariant == Spec => []IdleBeforeCreate
<1>1. Init => IdleBeforeCreate
  BY DEF Init, IdleBeforeCreate, IdleCallback, IdleClient
<1>2. IInv => TypeOK
  BY DEF IInv
<1> QED
  BY <1>1, <1>2, IdleBeforeCreateStep, IInvInvariant, PTL DEF Spec

\* While no allocation fails, a report VHF asked for stays asked of the client
\* as long as the file is open, unless the client ends the request itself: by
\* promising a report, by COMPLETE_WRITE_EVENT, or with a report VHF refuses.
\* DispatchAsyncOperation drops the pseudo-request when an allocation fails, so
\* the hypothesis cannot go.
THEOREM ReadyRequestNotForgottenInvariant ==
    ASSUME AllocMayFail = FALSE
    PROVE  Spec => []ReadyRequestNotForgotten
<1>1. Init => ReadyRequestNotForgotten
  BY DEF Init, ReadyRequestNotForgotten
<1>2. IInv /\ IdleBeforeCreate /\ ReadyRequestNotForgotten /\ [Next]_vars
         => ReadyRequestNotForgotten'
  BY NotForgottenStep
<1> QED
  BY <1>1, <1>2, IInvInvariant, IdleBeforeCreateInvariant, PTL DEF Spec

-----------------------------------------------------------------------------
(* The promise of HidOperations                                            *)

\* The rundown waits for the client's requests, and no new one comes after it.
ClientsGone ==
    file \in {"rundown", "closed"} => \A c \in Clients : client[c].pc = "idle"

LEMMA ClientsGoneStep == TypeOK /\ ClientsGone /\ [Next]_vars => ClientsGone'
<1> SUFFICES ASSUME TypeOK, ClientsGone, [Next]_vars, file' \in {"rundown", "closed"}
             PROVE  \A c \in Clients : client'[c].pc = "idle"
  BY DEF ClientsGone
<1>1. CASE FileCloseRundown
  BY <1>1 DEF FileCloseRundown
<1>2. CASE ~FileCloseRundown
  <2>1. file \in {"rundown", "closed"}
    BY <1>2 DEF Next, vars, driverVars, CreateDevice, StartDevice,
       VhfAsyncOperation, VhfReadyForNextReadReport, DispatchAsyncOperation,
       CreateOperationFails, CreatePseudoOperation, CreateRealOperation,
       QueueOperation, RetrievePendedPoll, ServePendedPoll, RequeuePoll,
       GetNextEvent, ForwardPoll, CancelPoll, TakeOutstandingRequest,
       FinishComplete, CompleteRealOperation, CompletePseudoOperation,
       FinishReissue, EvtIoWrite, CloseHandle, VhfDelete, Closed
  <2>2. \A c \in Clients : client[c].pc = "idle"
    BY <2>1 DEF ClientsGone
  <2>3. \A c \in Clients : ~FinishComplete(c) /\ ~TakeOutstandingRequest(c)
    BY <2>1, <2>2 DEF FinishComplete, CompleteRealOperation,
       CompletePseudoOperation, FinishReissue, TakeOutstandingRequest
  <2>4. UNCHANGED client
    BY <1>2, <2>3 DEF Next, vars, driverVars, CreateDevice, StartDevice,
       VhfAsyncOperation, VhfReadyForNextReadReport, DispatchAsyncOperation,
       CreateOperationFails, CreatePseudoOperation, CreateRealOperation,
       QueueOperation, RetrievePendedPoll, ServePendedPoll, RequeuePoll,
       GetNextEvent, ForwardPoll, CancelPoll, EvtIoWrite, CloseHandle, VhfDelete,
       Closed
  <2> QED
    BY <2>2, <2>4
<1> QED
  BY <1>1, <1>2

\* What the abstract state of an operation depends on.
OnOffer(o) == o \in OutstandingRequests \/ Taken(o)

LEMMA OperationStates ==
    ASSUME NEW o \in RealOps
    PROVE  /\ OperationState(o) =
                 IF operation[o] = "pending"
                 THEN IF OnOffer(o) THEN "offered" ELSE "asked"
                 ELSE IF operation[o] \in {"answered", "refused"} THEN "answered"
                 ELSE IF operation[o] \in {"failed", "too_late"} THEN "refused"
                 ELSE operation[o]
           /\ OperationState(o)' =
                 IF operation'[o] = "pending"
                 THEN IF OnOffer(o)' THEN "offered" ELSE "asked"
                 ELSE IF operation'[o] \in {"answered", "refused"} THEN "answered"
                 ELSE IF operation'[o] \in {"failed", "too_late"} THEN "refused"
                 ELSE operation'[o]
  BY DEF OperationState, OnOffer

IsOpen == file \in {"open", "cleanup"}

\* Operations the step does not touch keep their abstract state.
LEMMA OperationStateKept ==
    ASSUME NEW o \in RealOps, operation'[o] = operation[o],
           operation[o] = "pending" => (OnOffer(o)' <=> OnOffer(o))
    PROVE  OperationState(o)' = OperationState(o)
  BY OperationStates

\* A step that moves no operation is a stutter of HidOperations, and one that
\* moves a single operation is a Move.
LEMMA PromiseStutters ==
    ASSUME \A x \in RealOps : OperationState(x)' = OperationState(x),
           IsOpen' <=> IsOpen
    PROVE  UNCHANGED HidOps!vars
  BY DEF HidOps!vars, IsOpen

LEMMA PromiseMoves ==
    ASSUME NEW o \in RealOps, NEW to,
           OperationState(o)' = to,
           \A x \in RealOps : x # o => OperationState(x)' = OperationState(x),
           IsOpen' <=> IsOpen
    PROVE  HidOps!Move(o, OperationState(o), to)
<1> DEFINE S == [x \in RealOps |-> OperationState(x)]
           T == [x \in RealOps |-> OperationState(x)']
<1>1. T = [S EXCEPT ![o] = to]
  OBVIOUS
<1>2. UNCHANGED (file \in {"open", "cleanup"})
  BY DEF IsOpen
<1>3. S[o] = OperationState(o)
  OBVIOUS
<1> QED
  BY <1>1, <1>2, <1>3 DEF HidOps!Move

\* The callback gives an operation up before the client saw it.
LEMMA GivingUpRefuses ==
    ASSUME IInv, NEW o \in Ops, InCallback(o), NEW r \in {"failed", "too_late"},
           VhfAsyncOperationComplete(o, r),
           UNCHANGED <<file, OutstandingRequests, client>>
    PROVE  [HidOps!Next]_HidOps!vars
<1> USE OpKinds, TypeParts DEF IInv
<1>1. (IsOpen' <=> IsOpen) /\ \A x \in Ops : OnOffer(x)' <=> OnOffer(x)
  BY TakenUnmoved DEF IsOpen, OnOffer
<1>2. CASE o \in ReadyOps
  <2>1. UNCHANGED operation
    BY <1>2 DEF VhfAsyncOperationComplete
  <2> QED
    BY <1>1, <2>1, OperationStateKept, PromiseStutters
<1>3. CASE o \in RealOps
  <2>1. operation[o] = "pending"
    BY <1>3, OwnedIsPending
  <2>2. ~OnOffer(o)
    BY <1>3 DEF OnOffer, Ownership, OneOwner, OneHand
  <2>3. /\ operation'[o] = r
        /\ \A x \in RealOps : x # o => operation'[x] = operation[x]
    BY <1>3, <2>1, OperationFacts DEF Replies
  <2>4. OperationState(o) = "asked" /\ OperationState(o)' = "refused"
    BY <1>3, <2>1, <2>2, <2>3, OperationStates
  <2>5. \A x \in RealOps : x # o => OperationState(x)' = OperationState(x)
    BY <1>1, <2>3, OperationStateKept
  <2>6. HidOps!Refuse(o)
    BY <1>1, <1>3, <2>4, <2>5, PromiseMoves DEF HidOps!Refuse
  <2> QED
    BY <1>3, <2>6 DEF HidOps!Next
<1> QED
  BY <1>2, <1>3

\* The oldest operation goes out to the client.
LEMMA TryCompleteOffers ==
    ASSUME IInv, NEW p, NEW room, TryCompleteGetNextEvent(p, room),
           UNCHANGED <<file, client, operation>>
    PROVE  [HidOps!Next]_HidOps!vars
<1> USE OpKinds, TypeParts DEF IInv
<1>1. IsOpen' <=> IsOpen
  BY DEF IsOpen
<1>2. CASE UNCHANGED OutstandingRequests
  <2>1. \A x \in Ops : OnOffer(x)' <=> OnOffer(x)
    BY <1>2, TakenUnmoved DEF OnOffer
  <2> QED
    BY <1>1, <2>1, OperationStateKept, PromiseStutters
<1>3. CASE OutstandingRequests' =
              OutstandingRequests \cup {Head(WaitingRequests)}
  <2>1. PICK h \in Ops : h = Head(WaitingRequests) /\ Queued(h)
    BY TryCompleteFacts
  <2>2. \A x \in Ops : OnOffer(x)' <=> OnOffer(x) \/ x = h
    BY <1>3, <2>1, TakenUnmoved DEF OnOffer
  <2>3. \A x \in RealOps : x # h => OperationState(x)' = OperationState(x)
    BY <2>2, OperationStateKept
  <2>4. CASE h \in ReadyOps
    BY <1>1, <2>3, <2>4, PromiseStutters
  <2>5. CASE h \in RealOps
    <3>1. operation[h] = "pending" /\ ~OnOffer(h)
      BY <2>1, <2>5, OwnedIsPending DEF OnOffer, Ownership, OneOwner, OneHand
    <3>2. OperationState(h) = "asked" /\ OperationState(h)' = "offered"
      BY <2>2, <2>5, <3>1, OperationStates
    <3>3. IsOpen
      BY TryCompleteFacts DEF EmptyAfterRundown, TypeOK, IsOpen
    <3>4. HidOps!Offer(h)
      BY <1>1, <2>3, <2>5, <3>2, <3>3, PromiseMoves DEF HidOps!Offer, IsOpen
    <3> QED
      BY <2>5, <3>4 DEF HidOps!Next
  <2> QED
    BY <2>4, <2>5
<1> QED
  BY <1>2, <1>3, TryCompleteFacts

\* The steps of the callback thread.
LEMMA DispatchKeepsPromise ==
    ASSUME IInv, NEW o \in Ops, DispatchAsyncOperation(o)
    PROVE  [HidOps!Next]_HidOps!vars
<1>a. ASSUME UNCHANGED <<file, OutstandingRequests, client, operation>>
      PROVE  UNCHANGED HidOps!vars
  <2>1. (IsOpen' <=> IsOpen) /\ \A x \in RealOps : OnOffer(x)' <=> OnOffer(x)
    BY <1>a, OpKinds, TakenUnmoved DEF IsOpen, OnOffer
  <2> QED
    BY <1>a, <2>1, OperationStateKept, PromiseStutters
<1>1. CASE CreateOperationFails(o)
  BY <1>1, GivingUpRefuses DEF CreateOperationFails, InCallback, driverVars
<1>2. CASE CreatePseudoOperation(o) \/ RetrievePendedPoll(o) \/ RequeuePoll(o)
  BY <1>2, <1>a DEF CreatePseudoOperation, RetrievePendedPoll, RequeuePoll,
     driverVars
<1>3. CASE CreateRealOperation(o)
  BY <1>3, <1>a, GivingUpRefuses DEF CreateRealOperation, InCallback
<1>4. CASE QueueOperation(o)
  BY <1>4, <1>a, GivingUpRefuses DEF QueueOperation, InCallback
<1>5. CASE ServePendedPoll(o)
  BY <1>5, <1>a, TryCompleteOffers DEF ServePendedPoll
<1> QED
  BY <1>1, <1>2, <1>3, <1>4, <1>5 DEF DispatchAsyncOperation

\* The steps of a client's request: taking an event changes nothing for the
\* HID client, answering it does.
LEMMA ClientKeepsPromise ==
    ASSUME IInv, ClientsGone, NEW c \in Clients,
           TakeOutstandingRequest(c) \/ FinishComplete(c)
    PROVE  [HidOps!Next]_HidOps!vars
<1> USE OpKinds, TypeParts DEF IInv
<1>1. IsOpen' <=> IsOpen
  BY DEF TakeOutstandingRequest, FinishComplete, CompleteRealOperation,
     CompletePseudoOperation, FinishReissue, IsOpen
<1>2. CASE TakeOutstandingRequest(c)
  <2>1. client[c].op = None
    BY <1>2 DEF TakeOutstandingRequest, Ownership, ClientHoldsWhileTaken
  <2>2. CASE UNCHANGED <<OutstandingRequests, client>>
    <3>1. \A x \in RealOps : OnOffer(x)' <=> OnOffer(x)
      BY <2>2, TakenUnmoved DEF OnOffer
    <3> QED
      BY <1>1, <1>2, <3>1, OperationStateKept, PromiseStutters
         DEF TakeOutstandingRequest
  <2>3. CASE \E t \in OutstandingRequests :
                /\ OutstandingRequests' = OutstandingRequests \ {t}
                /\ \E e \in seen, s \in Statuses : client' =
                      [client EXCEPT ![c] =
                         [pc |-> "taken", op |-> t, event |-> e, status |-> s]]
    <3>1. PICK t \in OutstandingRequests :
                /\ OutstandingRequests' = OutstandingRequests \ {t}
                /\ \E e \in seen, s \in Statuses : client' =
                      [client EXCEPT ![c] =
                         [pc |-> "taken", op |-> t, event |-> e, status |-> s]]
      BY <2>3
    <3>2. \A d \in Clients : client'[d].op = IF d = c THEN t ELSE client[d].op
      BY <3>1
    <3>3. \A x \in Ops : Taken(x)' <=> Taken(x) \/ x = t
      BY <2>1, <3>2 DEF Taken
    <3>4. \A x \in RealOps : OnOffer(x)' <=> OnOffer(x)
      BY <3>1, <3>3 DEF OnOffer
    <3> QED
      BY <1>1, <1>2, <3>4, OperationStateKept, PromiseStutters
         DEF TakeOutstandingRequest
  <2> QED
    BY <1>2, <2>2, <2>3 DEF TakeOutstandingRequest, Matching
<1>3. ASSUME FinishComplete(c)
      PROVE  \A x \in Ops : OnOffer(x)' <=> OnOffer(x) /\ (x # client[c].op
                                                \/ x \in OutstandingRequests)
  <2>1. client'[c].op = None /\ \A d \in Clients : d # c => client'[d] = client[d]
    BY <1>3, PseudoFacts DEF FinishComplete, CompleteRealOperation,
       FinishReissue, IdleClient
  <2>2. \A d \in Clients : client[c].op = client[d].op /\ client[c].op # None => c = d
    BY DEF Ownership, OneOwner
  <2>3. \A x \in Ops : Taken(x)' <=> Taken(x) /\ x # client[c].op
    BY <2>1, <2>2 DEF Taken
  <2>4. UNCHANGED OutstandingRequests
    BY <1>3 DEF FinishComplete, CompleteRealOperation, CompletePseudoOperation,
       FinishReissue, driverVars
  <2> QED
    BY <2>3, <2>4 DEF OnOffer
<1>4. CASE CompleteRealOperation(c)
  <2>1. PICK o \in RealOps : o = client[c].op /\ Taken(o)
    BY <1>4 DEF CompleteRealOperation, Taken
  <2>2. PICK r \in {"answered", "refused"} : VhfAsyncOperationComplete(o, r)
    BY <1>4, <2>1 DEF CompleteRealOperation
  <2>3. operation[o] = "pending"
    BY <2>1, OwnedIsPending
  <2>4. /\ operation'[o] = r
        /\ \A x \in RealOps : x # o => operation'[x] = operation[x]
    BY <2>2, <2>3, OperationFacts DEF Replies
  <2>5. OperationState(o) = "offered" /\ OperationState(o)' = "answered"
    BY <2>1, <2>3, <2>4, OperationStates DEF OnOffer
  <2>6. \A x \in RealOps : x # o => (OnOffer(x)' <=> OnOffer(x))
    BY <1>3, <1>4, <2>1 DEF FinishComplete
  <2>7. \A x \in RealOps : x # o => OperationState(x)' = OperationState(x)
    BY <2>4, <2>6, OperationStateKept
  <2>8. IsOpen
    BY <1>4 DEF CompleteRealOperation, ClientsGone, TypeOK, IsOpen
  <2>9. HidOps!Answer(o)
    BY <1>1, <2>5, <2>7, <2>8, PromiseMoves DEF HidOps!Answer, IsOpen
  <2> QED
    BY <2>9 DEF HidOps!Next
<1>5. CASE CompletePseudoOperation(c) \/ FinishReissue(c)
  <2>1. client[c].op \notin RealOps
    BY <1>5 DEF CompletePseudoOperation, FinishReissue, Ownership,
       ClientHoldsWhileTaken
  <2>2. \A x \in RealOps : OnOffer(x)' <=> OnOffer(x)
    BY <1>3, <1>5, <2>1 DEF FinishComplete
  <2>3. UNCHANGED operation
    BY <1>5 DEF CompletePseudoOperation, FinishReissue
  <2> QED
    BY <1>1, <2>2, <2>3, OperationStateKept, PromiseStutters
<1> QED
  BY <1>2, <1>4, <1>5 DEF FinishComplete

\* The rundown cancels what is on offer and what is queued, in one step.  What
\* a callback still holds is refused later.
LEMMA RundownCloses ==
    ASSUME IInv, FileCloseRundown
    PROVE  HidOps!Close
<1> USE OpKinds, TypeParts DEF IInv
<1> DEFINE C == {x \in RealOps : Queued(x) \/ x \in OutstandingRequests}
<1>1. \A x \in Ops : ~Taken(x) /\ ~OnOffer(x)'
  BY DEF FileCloseRundown, Taken, OnOffer, Ownership, ClientHoldsWhileTaken
<1>2. \A x \in C : operation[x] = "pending"
  BY OwnedIsPending
<1>3. \A x \in RealOps : operation'[x] = IF x \in C THEN "cancelled" ELSE operation[x]
  BY <1>2 DEF FileCloseRundown
<1>4. \A x \in C : OperationState(x) \in {"asked", "offered"}
  BY <1>2, OperationStates
<1>5. \A x \in RealOps : OperationState(x) = "offered" => x \in C
  <2> SUFFICES ASSUME NEW x \in RealOps, OperationState(x) = "offered"
               PROVE  x \in OutstandingRequests
    OBVIOUS
  <2>1. operation[x] \in Outcomes /\ "offered" \notin Outcomes
    BY DEF Outcomes, Replies
  <2>2. OnOffer(x)
    BY <2>1, OperationStates
  <2> QED
    BY <1>1, <2>2 DEF OnOffer
<1>6. \A x \in RealOps :
         OperationState(x)' = IF x \in C THEN "cancelled" ELSE OperationState(x)
  <2> SUFFICES ASSUME NEW x \in RealOps
               PROVE  OperationState(x)' = IF x \in C THEN "cancelled"
                                           ELSE OperationState(x)
    OBVIOUS
  <2>1. CASE x \in C
    BY <1>3, <2>1, OperationStates
  <2>2. CASE x \notin C
    <3>1. ~OnOffer(x)
      BY <1>1, <2>2 DEF OnOffer
    <3> QED
      BY <1>1, <1>3, <2>2, <3>1, OperationStateKept
  <2> QED
    BY <2>1, <2>2
<1>7. file = "cleanup" /\ file' = "rundown"
  BY DEF FileCloseRundown
<1>8. C \subseteq RealOps
  OBVIOUS
<1> HIDE DEF C
<1> DEFINE S == [x \in RealOps |-> OperationState(x)]
           T == [x \in RealOps |-> OperationState(x)']
<1>9. /\ C \in SUBSET {r \in RealOps : S[r] \in {"asked", "offered"}}
      /\ \A r \in RealOps : S[r] = "offered" => r \in C
  BY <1>4, <1>5, <1>8
<1>10. T = [r \in RealOps |-> IF r \in C THEN "cancelled" ELSE S[r]]
  BY <1>6
<1>11. (file \in {"open", "cleanup"}) /\ (file \in {"open", "cleanup"})' = FALSE
  BY <1>7
<1> QED
  BY <1>9, <1>10, <1>11 DEF HidOps!Close

LEMMA PromiseStep ==
    ASSUME IInv, ClientsGone, [Next]_vars
    PROVE  [HidOps!Next]_HidOps!vars
<1> USE OpKinds, TypeParts DEF IInv
<1>a. ASSUME UNCHANGED <<OutstandingRequests, client, operation>>, IsOpen' <=> IsOpen
      PROVE  UNCHANGED HidOps!vars
  <2>1. \A x \in RealOps : OnOffer(x)' <=> OnOffer(x)
    BY <1>a, TakenUnmoved DEF OnOffer
  <2> QED
    BY <1>a, <2>1, OperationStateKept, PromiseStutters
<1>1. CASE CreateDevice \/ StartDevice \/ EvtIoWrite \/ CloseHandle \/ VhfDelete
  BY <1>1, <1>a DEF CreateDevice, StartDevice, EvtIoWrite, CloseHandle, VhfDelete,
     driverVars, IsOpen
<1>2. ASSUME NEW o \in RealOps, VhfAsyncOperation(o)
      PROVE  HidOps!Next
  <2>1. operation[o] = "new" /\ ~OnOffer(o)
    BY <1>2 DEF VhfAsyncOperation, Ownership, NoOperationLost, OnOffer
  <2>2. \A x \in Ops : OnOffer(x)' <=> OnOffer(x)
    BY <1>2, TakenUnmoved DEF VhfAsyncOperation, driverVars, OnOffer
  <2>3. \A x \in RealOps : operation'[x] = IF x = o THEN "pending" ELSE operation[x]
    BY <1>2 DEF VhfAsyncOperation
  <2>4. OperationState(o) = "new" /\ OperationState(o)' = "asked"
    BY <2>1, <2>2, <2>3, OperationStates
  <2>5. \A x \in RealOps : x # o => OperationState(x)' = OperationState(x)
    BY <2>2, <2>3, OperationStateKept
  <2>6. IsOpen' <=> IsOpen
    BY <1>2 DEF VhfAsyncOperation, IsOpen
  <2>7. HidOps!Ask(o)
    BY <2>4, <2>5, <2>6, PromiseMoves DEF HidOps!Ask
  <2> QED
    BY <2>7 DEF HidOps!Next
<1>3. ASSUME NEW o \in ReadyOps, VhfReadyForNextReadReport(o)
      PROVE  UNCHANGED HidOps!vars
  BY <1>3, <1>a DEF VhfReadyForNextReadReport, driverVars, IsOpen
<1>4. ASSUME NEW o \in Ops, DispatchAsyncOperation(o)
      PROVE  [HidOps!Next]_HidOps!vars
  BY <1>4, DispatchKeepsPromise
<1>5. ASSUME NEW p \in Polls, GetNextEvent(p)
      PROVE  [HidOps!Next]_HidOps!vars
  <2>1. CASE \E room \in BOOLEAN : TryCompleteGetNextEvent(p, room)
    BY <1>5, <2>1, TryCompleteOffers DEF GetNextEvent
  <2>2. CASE UNCHANGED OutstandingRequests
    BY <1>5, <2>2, <1>a DEF GetNextEvent, IsOpen
  <2> QED
    BY <1>5, <2>1, <2>2 DEF GetNextEvent
<1>6. ASSUME NEW p \in Polls, ForwardPoll(p) \/ CancelPoll(p)
      PROVE  UNCHANGED HidOps!vars
  BY <1>6, <1>a DEF ForwardPoll, CancelPoll, driverVars, IsOpen
<1>7. ASSUME NEW c \in Clients, TakeOutstandingRequest(c) \/ FinishComplete(c)
      PROVE  [HidOps!Next]_HidOps!vars
  BY <1>7, ClientKeepsPromise
<1>8. CASE FileCloseRundown
  BY <1>8, RundownCloses DEF HidOps!Next
<1>9. CASE Closed \/ UNCHANGED vars
  BY <1>9, <1>a DEF Closed, vars, driverVars, IsOpen
<1> QED
  BY <1>1, <1>a, <1>2, <1>3, <1>4, <1>5, <1>6, <1>7, <1>8, <1>9 DEF Next

LEMMA PromiseInit == Init => HidOps!Init
<1> SUFFICES ASSUME Init PROVE HidOps!Init
  OBVIOUS
<1>1. \A o \in RealOps : OperationState(o) = "new"
  BY OperationStates DEF Init
<1>2. file \in {"open", "cleanup"}
  BY DEF Init
<1> QED
  BY <1>1, <1>2 DEF HidOps!Init

\* Every behaviour of the driver starts as HidOperations does, and every step of
\* it is one step of HidOperations or none: no operation is offered twice,
\* answered when it is not on offer, or left on offer after the close.
THEOREM DriverRefinesHidOperations ==
    Spec => HidOps!Init /\ [][HidOps!Next]_HidOps!vars
<1>1. Init => ClientsGone
  BY DEF Init, ClientsGone, IdleClient
<1>2. IInv => TypeOK
  BY DEF IInv
<1>3. Spec => []ClientsGone
  BY <1>1, <1>2, ClientsGoneStep, IInvInvariant, PTL DEF Spec
<1>4. IInv /\ ClientsGone /\ [Next]_vars => [HidOps!Next]_HidOps!vars
  BY PromiseStep
<1> QED
  BY <1>3, <1>4, IInvInvariant, PromiseInit, PTL DEF Spec

=============================================================================
