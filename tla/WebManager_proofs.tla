--------------------------- MODULE WebManager_proofs ---------------------------
(***************************************************************************)
(* Proofs about the web server's device manager, for any devices, threads  *)
(* and WebSockets: a device is destroyed by one thread alone, and what     *)
(* HID clients read and WebSockets show of the input is up to date.        *)
(***************************************************************************)
EXTENDS WebManager, TLAPS

-----------------------------------------------------------------------------
(* What threads hold                                                       *)

ReportSteps == {"submit", "cache", "last", "lock", "report", "snapshot"}

\* A thread without a device, with a device, and with a report for one.
Without == [pc : {"idle", "clear", "runtime"}]
With    == [pc : {"insert", "release", "stop", "subscribe", "mouse"},
            device : Devices]
Input   == [pc : ReportSteps \cup {"release", "stop"},
            device : Devices, report : Reports, past : SUBSET Reports]

RequestOK == request \in [Threads -> Without \cup With \cup Input]

LEMMA Shapes ==
    /\ \A x \in Without : "device" \notin DOMAIN x
    /\ \A x \in With \cup Input : "device" \in DOMAIN x /\ x.device \in Devices
    /\ \A x \in Without \cup With \cup Input :
           /\ x.pc \notin {"idle", "clear", "runtime"} => x \in With \cup Input
           /\ x.pc \in ReportSteps => x \in Input
           /\ x.pc \in {"insert", "subscribe", "mouse"} => x \in With
           /\ x.pc \in {"idle", "clear", "runtime"} => x \in Without
  BY DEF Without, With, Input, ReportSteps

LEMMA StepOfWith ==
    ASSUME NEW x \in With, NEW pc \in {"release", "stop"}
    PROVE  LET y == [x EXCEPT !.pc = pc]
           IN  y \in With /\ y.pc = pc /\ y.device = x.device
  BY DEF With

LEMMA StepOfInput ==
    ASSUME NEW x \in Input, NEW pc \in ReportSteps \cup {"release", "stop"}
    PROVE  LET y == [x EXCEPT !.pc = pc]
           IN  /\ y \in Input
               /\ y.pc = pc
               /\ y.device = x.device
               /\ y.report = x.report
               /\ y.past = x.past
  BY DEF Input

\* A thread that goes on with the device it has.
LEMMA GoesFacts ==
    ASSUME RequestOK, NEW r \in Threads, NEW pc, Goes(r, pc),
           \/ request[r] \in With /\ pc \in {"release", "stop"}
           \/ request[r] \in Input /\ pc \in ReportSteps \cup {"release", "stop"}
    PROVE  /\ RequestOK'
           /\ request'[r].pc = pc
           /\ request'[r].device = request[r].device
           /\ request[r] \in Input => /\ request'[r] \in Input
                                      /\ request'[r].report = request[r].report
                                      /\ request'[r].past = request[r].past
           /\ \A q \in Threads \ {r} : request'[q] = request[q]
           /\ \A q \in Threads, d \in Devices : HoldsClone(q, d)' <=> HoldsClone(q, d)
<1> DEFINE y == [request[r] EXCEPT !.pc = pc]
<1>1. request' = [request EXCEPT ![r] = y]
  BY DEF Goes
<1>2. /\ y \in With \cup Input
      /\ y.pc = pc
      /\ y.device = request[r].device
      /\ request[r] \in Input => /\ y \in Input
                                 /\ y.report = request[r].report
                                 /\ y.past = request[r].past
  <2>1. CASE request[r] \in With /\ pc \in {"release", "stop"}
    <3>1. y \in With /\ y.pc = pc /\ y.device = request[r].device
      BY <2>1, StepOfWith
    <3>2. request[r] \notin Input
      BY <2>1 DEF With, Input
    <3> QED
      BY <3>1, <3>2
  <2>2. CASE request[r] \in Input /\ pc \in ReportSteps \cup {"release", "stop"}
    BY <2>2, StepOfInput
  <2> QED
    BY <2>1, <2>2
<1> HIDE DEF y
<1>3. /\ RequestOK'
      /\ request'[r] = y
      /\ \A q \in Threads \ {r} : request'[q] = request[q]
  BY <1>1, <1>2 DEF RequestOK
<1>4. "device" \in DOMAIN request[r] /\ "device" \in DOMAIN y
  BY <1>2, Shapes
<1>5. ASSUME NEW q \in Threads, NEW d \in Devices
      PROVE  HoldsClone(q, d)' <=> HoldsClone(q, d)
  BY <1>2, <1>3, <1>4 DEF HoldsClone
<1> QED
  BY <1>2, <1>3, <1>5

\* A thread that lets go of what it has, or has nothing before and after.
LEMMA WithoutFacts ==
    ASSUME RequestOK, NEW r \in Threads, NEW x \in Without,
           request' = [request EXCEPT ![r] = x]
    PROVE  /\ RequestOK'
           /\ request'[r] = x
           /\ \A q \in Threads \ {r} : request'[q] = request[q]
           /\ \A d \in Devices : ~HoldsClone(r, d)'
           /\ \A q \in Threads \ {r}, d \in Devices :
                  HoldsClone(q, d)' <=> HoldsClone(q, d)
<1>1. /\ RequestOK'
      /\ request'[r] = x
      /\ \A q \in Threads \ {r} : request'[q] = request[q]
  BY DEF RequestOK
<1> QED
  BY <1>1, Shapes DEF HoldsClone

\* A thread that takes a clone of a device.
LEMMA TakesFacts ==
    ASSUME RequestOK, NEW r \in Threads, request[r] \in Without,
           NEW x \in With \cup Input, request' = [request EXCEPT ![r] = x]
    PROVE  /\ RequestOK'
           /\ request'[r] = x
           /\ \A q \in Threads \ {r} : request'[q] = request[q]
           /\ \A e \in Devices : HoldsClone(r, e)' <=> e = x.device
           /\ \A q \in Threads \ {r}, e \in Devices : HoldsClone(q, e)' <=> HoldsClone(q, e)
<1>1. /\ RequestOK'
      /\ request'[r] = x
      /\ \A q \in Threads \ {r} : request'[q] = request[q]
  BY DEF RequestOK
<1>2. "device" \in DOMAIN x /\ "device" \notin DOMAIN request[r]
  BY Shapes
<1> QED
  BY <1>1, <1>2 DEF HoldsClone

-----------------------------------------------------------------------------
(* One thread destroys a device                                            *)

\* A device that is made or destroyed is one thread's.
Owned ==
    /\ RequestOK
    /\ DOMAIN device = Devices
    /\ callback \in [Devices -> {"idle", "send"}]
    /\ \A d \in Devices :
          /\ device[d] \in {"none", "gone"} =>
                 callback[d] = "idle" /\ \A r \in Threads : ~HoldsClone(r, d)
          /\ device[d] \in {"created", "stopping"} =>
                 \A q, r \in Threads : HoldsClone(q, d) /\ HoldsClone(r, d) => q = r
          /\ \A r \in Threads : HoldsClone(r, d) =>
                 /\ request[r].pc = "insert" => device[d] = "created"
                 /\ request[r].pc = "stop" <=> device[d] = "stopping"

\* A request uses the device it has.
LEMMA UseOwned ==
    ASSUME Owned, NEW r \in Threads, NEW pc, Goes(r, pc),
           \/ request[r] \in With /\ pc = "release"
           \/ request[r] \in Input /\ pc \in ReportSteps \cup {"release"},
           request[r].pc \notin {"insert", "stop"},
           UNCHANGED <<device, callback>>
    PROVE  Owned'
<1>1. /\ RequestOK'
      /\ request'[r].pc = pc
      /\ \A q \in Threads \ {r} : request'[q] = request[q]
      /\ \A q \in Threads, d \in Devices : HoldsClone(q, d)' <=> HoldsClone(q, d)
  BY GoesFacts DEF Owned
<1>2. pc \notin {"insert", "stop"}
  BY DEF ReportSteps
<1>3. ASSUME NEW q \in Threads
      PROVE  /\ request'[q].pc = "insert" <=> request[q].pc = "insert"
             /\ request'[q].pc = "stop" <=> request[q].pc = "stop"
  BY <1>1, <1>2
<1> QED
  BY <1>1, <1>3 DEF Owned

LEMMA CreateOwned ==
    ASSUME Owned, NEW r \in Threads, NEW d \in Devices, Create(r, d)
    PROVE  Owned'
<1>1. /\ request[r] = Idle
      /\ device[d] = "none"
      /\ UNCHANGED callback
  BY DEF Create, Serving
<1>2. CASE device' = [device EXCEPT ![d] = "gone"] /\ UNCHANGED request
  BY <1>1, <1>2 DEF Owned, RequestOK, HoldsClone
<1>3. CASE /\ device' = [device EXCEPT ![d] = "created"]
           /\ request' = [request EXCEPT ![r] = Holding("insert", d)]
  <2> DEFINE x == Holding("insert", d)
  <2>1. x \in With /\ x.device = d /\ x.pc = "insert"
    BY DEF Holding, With
  <2>2. request[r] \in Without
    BY <1>1 DEF Idle, Without
  <2> HIDE DEF x
  <2>3. request' = [request EXCEPT ![r] = x]
    BY <1>3 DEF x
  <2>4. /\ RequestOK'
        /\ request'[r] = x
        /\ \A q \in Threads \ {r} : request'[q] = request[q]
        /\ \A q \in Threads, e \in Devices :
               HoldsClone(q, e)' => (HoldsClone(q, e) /\ q # r) \/ (q = r /\ e = d)
    BY <2>1, <2>2, <2>3, TakesFacts DEF Owned
  <2>5. \A q \in Threads : ~HoldsClone(q, d)
    BY <1>1 DEF Owned
  <2>6. \A e \in Devices : ~HoldsClone(r, e)
    BY <2>2, Shapes DEF HoldsClone
  <2>7. /\ DOMAIN device' = Devices
        /\ device'[d] = "created"
        /\ \A e \in Devices \ {d} : device'[e] = device[e]
    BY <1>3 DEF Owned
  <2>8. ASSUME NEW q \in Threads, NEW e \in Devices, HoldsClone(q, e)'
        PROVE  /\ request'[q].pc = "insert" => device'[e] = "created"
               /\ request'[q].pc = "stop" <=> device'[e] = "stopping"
    <3>1. CASE e = d
      BY <2>1, <2>4, <2>5, <2>7, <2>8, <3>1
    <3>2. CASE e # d
      <4>1. HoldsClone(q, e) /\ q # r
        BY <2>4, <2>6, <2>8, <3>2
      <4> QED
        BY <2>4, <2>7, <3>2, <4>1 DEF Owned
    <3> QED
      BY <3>1, <3>2
  <2>9. ASSUME NEW e \in Devices
        PROVE  /\ device'[e] \in {"none", "gone"} =>
                      callback'[e] = "idle" /\ \A q \in Threads : ~HoldsClone(q, e)'
               /\ device'[e] \in {"created", "stopping"} =>
                      \A p, q \in Threads : HoldsClone(p, e)' /\ HoldsClone(q, e)' => p = q
    <3>1. CASE e = d
      BY <2>4, <2>5, <2>7, <3>1
    <3>2. CASE e # d
      <4>1. \A q \in Threads : HoldsClone(q, e)' => HoldsClone(q, e)
        BY <2>4, <3>2
      <4> QED
        BY <1>1, <2>7, <3>2, <4>1 DEF Owned
    <3> QED
      BY <3>1, <3>2
  <2> QED
    BY <1>1, <2>4, <2>7, <2>8, <2>9 DEF Owned
<1> QED
  BY <1>2, <1>3 DEF Create

\* A request, or the shutdown, takes a clone of a device of the map.
LEMMA TakeOwned ==
    ASSUME Owned, NEW r \in Threads, request[r] \in Without,
           NEW d \in Devices, device[d] = "listed",
           NEW x \in With \cup Input, x.device = d, x.pc \notin {"insert", "stop"},
           request' = [request EXCEPT ![r] = x],
           device' \in {device, [device EXCEPT ![d] = "removed"]},
           UNCHANGED callback
    PROVE  Owned'
<1>1. /\ RequestOK'
      /\ request'[r] = x
      /\ \A q \in Threads \ {r} : request'[q] = request[q]
      /\ \A q \in Threads, e \in Devices :
             HoldsClone(q, e)' => (HoldsClone(q, e) /\ q # r) \/ (q = r /\ e = d)
  BY TakesFacts DEF Owned
<1>2. /\ DOMAIN device' = Devices
      /\ device'[d] \in {"listed", "removed"}
      /\ \A e \in Devices \ {d} : device'[e] = device[e]
  BY DEF Owned
<1>3. \A e \in Devices : ~HoldsClone(r, e)
  BY Shapes DEF HoldsClone
<1>4. ASSUME NEW q \in Threads, NEW e \in Devices, HoldsClone(q, e)'
      PROVE  /\ request'[q].pc = "insert" => device'[e] = "created"
             /\ request'[q].pc = "stop" <=> device'[e] = "stopping"
  <2>1. CASE q = r
    BY <1>1, <1>2, <1>3, <1>4, <2>1
  <2>2. CASE q # r
    <3>1. HoldsClone(q, e) /\ request'[q] = request[q]
      BY <1>1, <1>4, <2>2
    <3>2. /\ request[q].pc = "insert" => device[e] = "created"
          /\ request[q].pc = "stop" <=> device[e] = "stopping"
      BY <3>1 DEF Owned
    <3> QED
      BY <1>2, <3>1, <3>2
  <2> QED
    BY <2>1, <2>2
<1>5. ASSUME NEW e \in Devices
      PROVE  /\ device'[e] \in {"none", "gone"} =>
                    callback'[e] = "idle" /\ \A q \in Threads : ~HoldsClone(q, e)'
             /\ device'[e] \in {"created", "stopping"} =>
                    \A p, q \in Threads : HoldsClone(p, e)' /\ HoldsClone(q, e)' => p = q
  <2>1. CASE e = d
    BY <1>2, <2>1
  <2>2. CASE e # d
    <3>1. \A q \in Threads : HoldsClone(q, e)' => HoldsClone(q, e)
      BY <1>1, <2>2
    <3> QED
      BY <1>2, <2>2, <3>1 DEF Owned
  <2> QED
    BY <2>1, <2>2
<1> QED
  BY <1>1, <1>2, <1>4, <1>5 DEF Owned

LEMMA InsertOwned ==
    ASSUME Owned, NEW r \in Threads, Insert(r)
    PROVE  Owned'
<1> DEFINE d == request[r].device
<1>1. /\ request[r].pc = "insert"
      /\ device' = [device EXCEPT ![d] = "listed"]
      /\ Goes(r, "release")
      /\ UNCHANGED callback
  BY DEF Insert
<1>2. request[r] \in With
  BY <1>1, Shapes DEF Owned, RequestOK
<1>3. /\ RequestOK'
      /\ request'[r].pc = "release"
      /\ \A q \in Threads \ {r} : request'[q] = request[q]
      /\ \A q \in Threads, e \in Devices : HoldsClone(q, e)' <=> HoldsClone(q, e)
  BY <1>1, <1>2, GoesFacts DEF Owned
<1>4. d \in Devices /\ HoldsClone(r, d)
  BY <1>2, Shapes DEF HoldsClone
<1>5. \A e \in Devices : HoldsClone(r, e) => e = d
  BY DEF HoldsClone
<1> HIDE DEF d
<1>6. device[d] = "created"
  BY <1>1, <1>4 DEF Owned
<1>7. /\ DOMAIN device' = Devices
      /\ device'[d] = "listed"
      /\ \A e \in Devices \ {d} : device'[e] = device[e]
  BY <1>1, <1>4 DEF Owned
<1>8. \A q \in Threads : HoldsClone(q, d) => q = r
  BY <1>4, <1>6 DEF Owned
<1>9. ASSUME NEW q \in Threads, NEW e \in Devices, HoldsClone(q, e)'
      PROVE  /\ request'[q].pc = "insert" => device'[e] = "created"
             /\ request'[q].pc = "stop" <=> device'[e] = "stopping"
  <2>1. HoldsClone(q, e)
    BY <1>3, <1>9
  <2>2. CASE q = r
    BY <1>3, <1>5, <1>7, <2>1, <2>2
  <2>3. CASE q # r
    <3>1. e # d /\ request'[q] = request[q]
      BY <1>3, <1>8, <2>1, <2>3
    <3> QED
      BY <1>7, <2>1, <3>1 DEF Owned
  <2> QED
    BY <2>2, <2>3
<1>10. ASSUME NEW e \in Devices
       PROVE  /\ device'[e] \in {"none", "gone"} =>
                     callback'[e] = "idle" /\ \A q \in Threads : ~HoldsClone(q, e)'
              /\ device'[e] \in {"created", "stopping"} =>
                     \A p, q \in Threads : HoldsClone(p, e)' /\ HoldsClone(q, e)' => p = q
  <2>1. CASE e = d
    BY <1>7, <2>1
  <2>2. CASE e # d
    BY <1>1, <1>3, <1>7, <2>2 DEF Owned
  <2> QED
    BY <2>1, <2>2
<1> QED
  BY <1>1, <1>3, <1>7, <1>9, <1>10 DEF Owned

\* A thread that lets a device go, unless it is being destroyed.
LEMMA LetGoOwned ==
    ASSUME Owned, NEW r \in Threads, request[r].pc # "stop",
           NEW x \in Without, request' = [request EXCEPT ![r] = x],
           UNCHANGED <<device, callback>>
    PROVE  Owned'
<1>1. /\ RequestOK'
      /\ request'[r] = x
      /\ \A q \in Threads \ {r} : request'[q] = request[q]
      /\ \A d \in Devices : ~HoldsClone(r, d)'
      /\ \A q \in Threads \ {r}, d \in Devices : HoldsClone(q, d)' <=> HoldsClone(q, d)
  BY WithoutFacts DEF Owned
<1>2. \A q \in Threads, d \in Devices :
         HoldsClone(q, d)' => HoldsClone(q, d) /\ request'[q] = request[q]
  BY <1>1
<1> QED
  BY <1>1, <1>2 DEF Owned

\* What a thread is left with.
LEMMA DoneFacts ==
    ASSUME NEW r \in Threads, Done(r)
    PROVE  \E x \in Without : request' = [request EXCEPT ![r] = x]
<1>1. (IF r = Main THEN [pc |-> "clear"] ELSE Idle) \in Without
  BY DEF Without, Idle
<1> QED
  BY <1>1 DEF Done

LEMMA ReleaseOwned ==
    ASSUME Owned, NEW r \in Threads, Release(r)
    PROVE  Owned'
<1> DEFINE d == request[r].device
<1>1. request[r].pc = "release" /\ UNCHANGED callback
  BY DEF Release
<1>2. CASE Done(r) /\ UNCHANGED device
  <2>1. PICK x \in Without : request' = [request EXCEPT ![r] = x]
    BY <1>2, DoneFacts
  <2> QED
    BY <1>1, <1>2, <2>1, LetGoOwned
<1>3. CASE /\ device[d] = "removed"
           /\ \A q \in Threads \ {r} : ~HoldsClone(q, d)
           /\ device' = [device EXCEPT ![d] = "stopping"]
           /\ Goes(r, "stop")
  <2>1. request[r] \in With \cup Input
    BY <1>1, Shapes DEF Owned, RequestOK
  <2>2. /\ RequestOK'
        /\ request'[r].pc = "stop"
        /\ \A q \in Threads \ {r} : request'[q] = request[q]
        /\ \A q \in Threads, e \in Devices : HoldsClone(q, e)' <=> HoldsClone(q, e)
    BY <1>3, <2>1, GoesFacts DEF Owned
  <2>3. d \in Devices /\ \A e \in Devices : HoldsClone(r, e) => e = d
    BY <2>1, Shapes DEF HoldsClone
  <2> HIDE DEF d
  <2>4. /\ DOMAIN device' = Devices
        /\ device'[d] = "stopping"
        /\ \A e \in Devices \ {d} : device'[e] = device[e]
    BY <1>3, <2>3 DEF Owned
  <2>5. ASSUME NEW q \in Threads, NEW e \in Devices, HoldsClone(q, e)'
        PROVE  /\ request'[q].pc = "insert" => device'[e] = "created"
               /\ request'[q].pc = "stop" <=> device'[e] = "stopping"
    <3>1. HoldsClone(q, e)
      BY <2>2, <2>5
    <3>2. CASE q = r
      BY <2>2, <2>3, <2>4, <3>1, <3>2
    <3>3. CASE q # r
      <4>1. e # d /\ request'[q] = request[q]
        BY <1>3, <2>2, <3>1, <3>3
      <4> QED
        BY <2>4, <3>1, <4>1 DEF Owned
    <3> QED
      BY <3>2, <3>3
  <2>6. ASSUME NEW e \in Devices
        PROVE  /\ device'[e] \in {"none", "gone"} =>
                      callback'[e] = "idle" /\ \A q \in Threads : ~HoldsClone(q, e)'
               /\ device'[e] \in {"created", "stopping"} =>
                      \A p, q \in Threads : HoldsClone(p, e)' /\ HoldsClone(q, e)' => p = q
    <3>1. CASE e = d
      BY <1>3, <2>2, <2>4, <3>1
    <3>2. CASE e # d
      BY <1>1, <2>2, <2>4, <3>2 DEF Owned
    <3> QED
      BY <3>1, <3>2
  <2> QED
    BY <1>1, <2>2, <2>4, <2>5, <2>6 DEF Owned
<1> QED
  BY <1>2, <1>3 DEF Release

LEMMA DropOwned ==
    ASSUME Owned, NEW r \in Threads, DropDevice(r)
    PROVE  Owned'
<1>0. request[r].pc = "stop"
  BY DEF DropDevice
<1>1. PICK d \in Devices : d = request[r].device /\ HoldsClone(r, d)
  <2>1. request[r] \in With \cup Input
    BY <1>0, Shapes DEF Owned, RequestOK
  <2> QED
    BY <2>1, Shapes DEF HoldsClone
<1>2. PICK x \in Without : request' = [request EXCEPT ![r] = x]
  BY DoneFacts DEF DropDevice
<1>3. /\ callback[d] = "idle"
      /\ device' = [device EXCEPT ![d] = "gone"]
      /\ UNCHANGED callback
  BY <1>1 DEF DropDevice
<1>4. \A q \in Threads : HoldsClone(q, d) => q = r
  BY <1>0, <1>1 DEF Owned
<1>5. /\ RequestOK'
      /\ request'[r] = x
      /\ \A q \in Threads \ {r} : request'[q] = request[q]
      /\ \A e \in Devices : ~HoldsClone(r, e)'
      /\ \A q \in Threads \ {r}, e \in Devices : HoldsClone(q, e)' <=> HoldsClone(q, e)
  BY <1>2, WithoutFacts DEF Owned
<1>6. /\ DOMAIN device' = Devices
      /\ device'[d] = "gone"
      /\ \A e \in Devices \ {d} : device'[e] = device[e]
  BY <1>3 DEF Owned
<1>7. \A q \in Threads : ~HoldsClone(q, d)'
  BY <1>4, <1>5
<1>8. \A q \in Threads, e \in Devices :
         HoldsClone(q, e)' => HoldsClone(q, e) /\ request'[q] = request[q] /\ e # d
  BY <1>5, <1>7
<1>9. ASSUME NEW q \in Threads, NEW e \in Devices, HoldsClone(q, e)'
      PROVE  /\ request'[q].pc = "insert" => device'[e] = "created"
             /\ request'[q].pc = "stop" <=> device'[e] = "stopping"
  BY <1>6, <1>8, <1>9 DEF Owned
<1>10. ASSUME NEW e \in Devices
       PROVE  /\ device'[e] \in {"none", "gone"} =>
                     callback'[e] = "idle" /\ \A q \in Threads : ~HoldsClone(q, e)'
              /\ device'[e] \in {"created", "stopping"} =>
                     \A p, q \in Threads : HoldsClone(p, e)' /\ HoldsClone(q, e)' => p = q
  <2>1. CASE e = d
    BY <1>3, <1>6, <1>7, <2>1
  <2>2. CASE e # d
    BY <1>3, <1>6, <1>8, <2>2 DEF Owned
  <2> QED
    BY <2>1, <2>2
<1> QED
  BY <1>3, <1>5, <1>6, <1>9, <1>10 DEF Owned

\* The requests that hold a clone, and lose it in the end.
LEMMA HandlerOwned ==
    ASSUME Owned, NEW r \in Threads, Handler(r)
    PROVE  Owned'
<1>0. request[r] \in Without \cup With \cup Input
  BY DEF Owned, RequestOK
<1>1. CASE SubmitGenericInput(r)
  <2>1. /\ request[r].pc = "submit"
        /\ Goes(r, "cache") \/ Goes(r, "release")
        /\ UNCHANGED <<device, callback>>
    BY <1>1 DEF SubmitGenericInput
  <2>2. request[r] \in Input
    BY <1>0, <2>1, Shapes DEF ReportSteps
  <2> QED
    BY <2>1, <2>2, UseOwned DEF ReportSteps
<1>2. CASE CacheInput(r)
  <2>1. /\ request[r].pc = "cache"
        /\ Goes(r, "last")
        /\ UNCHANGED <<device, callback>>
    BY <1>2 DEF CacheInput
  <2>2. request[r] \in Input
    BY <1>0, <2>1, Shapes DEF ReportSteps
  <2> QED
    BY <2>1, <2>2, UseOwned DEF ReportSteps
<1>3. CASE SetLastReportId(r)
  <2>1. /\ request[r].pc = "last"
        /\ Goes(r, "snapshot")
        /\ UNCHANGED <<device, callback>>
    BY <1>3 DEF SetLastReportId
  <2>2. request[r] \in Input
    BY <1>0, <2>1, Shapes DEF ReportSteps
  <2> QED
    BY <2>1, <2>2, UseOwned DEF ReportSteps
<1>4. CASE LockReport(r)
  <2>1. /\ request[r].pc = "lock"
        /\ Goes(r, "report")
        /\ UNCHANGED <<device, callback>>
    BY <1>4 DEF LockReport
  <2>2. request[r] \in Input
    BY <1>0, <2>1, Shapes DEF ReportSteps
  <2> QED
    BY <2>1, <2>2, UseOwned DEF ReportSteps
<1>5. CASE ReportInput(r)
  <2>1. /\ request[r].pc = "report"
        /\ Goes(r, "snapshot")
        /\ UNCHANGED <<device, callback>>
    BY <1>5 DEF ReportInput
  <2>2. request[r] \in Input
    BY <1>0, <2>1, Shapes DEF ReportSteps
  <2> QED
    BY <2>1, <2>2, UseOwned DEF ReportSteps
<1>6. CASE SendSnapshot(r)
  <2>1. /\ request[r].pc = "snapshot"
        /\ Goes(r, "release")
        /\ UNCHANGED <<device, callback>>
    BY <1>6 DEF SendSnapshot
  <2>2. request[r] \in Input
    BY <1>0, <2>1, Shapes DEF ReportSteps
  <2> QED
    BY <2>1, <2>2, UseOwned
<1>7. CASE \/ UseMouse(r)
           \/ UpgradeFails(r)
           \/ \E s \in Sockets : Subscribe(r, s)
  <2>1. /\ request[r].pc \in {"mouse", "subscribe"}
        /\ Goes(r, "release")
        /\ UNCHANGED <<device, callback>>
    BY <1>7 DEF UseMouse, UpgradeFails, Subscribe
  <2>2. request[r] \in With
    BY <1>0, <2>1, Shapes
  <2> QED
    BY <2>1, <2>2, UseOwned
<1> QED
  BY <1>1, <1>2, <1>3, <1>4, <1>5, <1>6, <1>7, InsertOwned, ReleaseOwned, DropOwned
  DEF Handler

\* Reports have numbers, in their order.
ReportsOK == reports \in Nat /\ returned \subseteq Reports

\* A request for a report has the next number.
LEMMA GetForReportFacts ==
    ASSUME ReportsOK, NEW r \in Requests, NEW d \in Devices,
           NEW id \in ReportIds, GetForReport(r, d, id)
    PROVE  \E x \in Input :
               /\ x.device = d
               /\ x.pc = IF kind[d] = "Generic" THEN "submit" ELSE "lock"
               /\ x.report = [device |-> d, id |-> id, n |-> reports + 1]
               /\ x.past = returned
               /\ request' = [request EXCEPT ![r] = x]
<1> DEFINE report == [device |-> d, id |-> id, n |-> reports + 1]
           x == [pc |-> IF kind[d] = "Generic" THEN "submit" ELSE "lock",
                 device |-> d, report |-> report, past |-> returned]
<1>1. report \in Reports
  BY DEF ReportsOK, Reports
<1>2. x \in Input
  BY <1>1 DEF ReportsOK, Input, ReportSteps
<1>3. request' = [request EXCEPT ![r] = x]
  BY DEF GetForReport
<1> QED
  BY <1>2, <1>3

\* The requests that find a device in the map.
LEMMA FindOwned ==
    ASSUME Owned, ReportsOK, NEW r \in Requests, NEW d \in Devices,
           \/ Destroy(r, d)
           \/ \E id \in ReportIds : GetForReport(r, d, id)
           \/ \E pc \in {"subscribe", "release", "mouse"} : GetFor(r, d, pc)
    PROVE  Owned'
<1>1. r \in Threads
  BY DEF Threads
<1>2. /\ request[r] = Idle
      /\ device[d] = "listed"
      /\ UNCHANGED callback
  BY DEF Destroy, GetForReport, GetFor, Serving
<1>3. request[r] \in Without
  BY <1>2 DEF Without, Idle
<1>4. ASSUME NEW pc \in {"subscribe", "release", "mouse"}
      PROVE  /\ Holding(pc, d) \in With
             /\ Holding(pc, d).device = d
             /\ Holding(pc, d).pc \notin {"insert", "stop"}
  BY DEF Holding, With
<1>5. CASE Destroy(r, d)
  <2>1. /\ device' = [device EXCEPT ![d] = "removed"]
        /\ request' = [request EXCEPT ![r] = Holding("release", d)]
    BY <1>5 DEF Destroy
  <2> QED
    BY <1>1, <1>2, <1>3, <1>4, <2>1, TakeOwned
<1>6. ASSUME NEW pc \in {"subscribe", "release", "mouse"}, GetFor(r, d, pc)
      PROVE  Owned'
  <2>1. /\ UNCHANGED device
        /\ request' = [request EXCEPT ![r] = Holding(pc, d)]
    BY <1>6 DEF GetFor
  <2> QED
    BY <1>1, <1>2, <1>3, <1>4, <2>1, TakeOwned
<1>7. ASSUME NEW id \in ReportIds, GetForReport(r, d, id)
      PROVE  Owned'
  <2>1. PICK x \in Input :
            /\ x.device = d
            /\ x.pc \in {"submit", "lock"}
            /\ request' = [request EXCEPT ![r] = x]
    <3>1. PICK x \in Input :
              /\ x.device = d
              /\ x.pc = IF kind[d] = "Generic" THEN "submit" ELSE "lock"
              /\ x.report = [device |-> d, id |-> id, n |-> reports + 1]
              /\ x.past = returned
              /\ request' = [request EXCEPT ![r] = x]
      BY <1>7, GetForReportFacts
    <3>2. x.pc \in {"submit", "lock"}
      BY <3>1
    <3> QED
      BY <3>1, <3>2
  <2>2. UNCHANGED device
    BY <1>7 DEF GetForReport
  <2> QED
    BY <1>1, <1>2, <1>3, <2>1, <2>2, TakeOwned
<1> QED
  BY <1>5, <1>6, <1>7

LEMMA MainOwned ==
    ASSUME Owned, MainThread
    PROVE  Owned'
<1>0. Main \in Threads /\ request[Main] \in Without \cup With \cup Input
  BY DEF Threads, Owned, RequestOK
<1>1. CASE Shutdown
  <2>1. [pc |-> "clear"] \in Without /\ request[Main].pc # "stop"
    BY <1>1 DEF Shutdown, Without, Idle
  <2> QED
    BY <1>0, <1>1, <2>1, LetGoOwned DEF Shutdown
<1>2. CASE ClearOne
  <2>1. request[Main] \in Without
    BY <1>0, <1>2, Shapes DEF ClearOne
  <2>2. PICK d \in Devices :
            /\ device[d] = "listed"
            /\ device' = [device EXCEPT ![d] = "removed"]
            /\ request' = [request EXCEPT ![Main] = Holding("release", d)]
    BY <1>2 DEF ClearOne
  <2>3. /\ Holding("release", d) \in With
        /\ Holding("release", d).device = d
        /\ Holding("release", d).pc \notin {"insert", "stop"}
    BY DEF Holding, With
  <2>4. UNCHANGED callback
    BY <1>2 DEF ClearOne
  <2> QED
    BY <1>0, <2>1, <2>2, <2>3, <2>4, TakeOwned
<1>3. CASE Cleared \/ DropManager
  <2>1. /\ request[Main].pc \in {"clear", "runtime"}
        /\ Goes(Main, "runtime") \/ Goes(Main, "clear")
        /\ UNCHANGED <<device, callback>>
    BY <1>3 DEF Cleared, DropManager
  <2>2. request[Main] \in Without
    BY <1>0, <2>1, Shapes
  <2>3. \A pc \in {"clear", "runtime"} : [request[Main] EXCEPT !.pc = pc] \in Without
    BY <2>2 DEF Without
  <2>4. PICK x \in Without : request' = [request EXCEPT ![Main] = x]
    BY <2>1, <2>3 DEF Goes
  <2> QED
    BY <1>0, <2>1, <2>4, LetGoOwned
<1> QED
  BY <1>1, <1>2, <1>3 DEF MainThread

\* The callbacks, and the steps that leave the devices alone.
LEMMA CallbackOwned ==
    ASSUME Owned, UNCHANGED <<device, request>>,
           \/ UNCHANGED callback
           \/ \E d \in Devices : CallBack(d) \/ SendEvent(d)
    PROVE  Owned'
<1>1. CASE UNCHANGED callback
  BY <1>1 DEF Owned, RequestOK, HoldsClone
<1>2. ASSUME NEW d \in Devices, CallBack(d) \/ SendEvent(d)
      PROVE  Owned'
  <2>1. callback' \in [Devices -> {"idle", "send"}]
    BY <1>2 DEF CallBack, SendEvent, Owned
  <2>2. \A e \in Devices : device[e] \in {"none", "gone"} => callback'[e] = "idle"
    BY <1>2 DEF CallBack, SendEvent, Owned
  <2> QED
    BY <2>1, <2>2 DEF Owned, RequestOK, HoldsClone
<1> QED
  BY <1>1, <1>2

\* A report that is told of was numbered.
LEMMA StepReportsOK ==
    ASSUME Owned, ReportsOK, [Next]_vars
    PROVE  ReportsOK'
<1>1. CASE UNCHANGED <<reports, returned>>
  BY <1>1 DEF ReportsOK
<1>2. CASE UNCHANGED history
  BY <1>1, <1>2 DEF history
<1>3. ASSUME NEW r \in Threads, SendSnapshot(r)
      PROVE  ReportsOK'
  <2>1. request[r].pc = "snapshot" /\ request[r] \in Without \cup With \cup Input
    BY <1>3 DEF SendSnapshot, Owned, RequestOK
  <2>2. request[r] \in Input
    BY <2>1, Shapes DEF ReportSteps
  <2>3. request[r].report \in Reports
    BY <2>2 DEF Input
  <2> QED
    BY <1>3, <2>3 DEF SendSnapshot, ReportsOK
<1>4. ASSUME NEW r \in Requests, NEW d \in Devices, NEW id \in ReportIds,
             GetForReport(r, d, id)
      PROVE  ReportsOK'
  BY <1>4 DEF GetForReport, ReportsOK
<1>5. ASSUME NEW r \in Threads, Handler(r)
      PROVE  ReportsOK'
  BY <1>2, <1>3, <1>5
  DEF Handler, Insert, Release, DropDevice, SubmitGenericInput, CacheInput,
      SetLastReportId, LockReport, ReportInput, UseMouse, Subscribe, UpgradeFails
<1>6. ASSUME NEW r \in Requests, NEW d \in Devices, NEW pc,
             Create(r, d) \/ Destroy(r, d) \/ GetFor(r, d, pc)
      PROVE  ReportsOK'
  BY <1>2, <1>6 DEF Create, Destroy, GetFor
<1>7. ASSUME NEW d \in Devices, CallBack(d) \/ SendEvent(d)
      PROVE  ReportsOK'
  BY <1>2, <1>7 DEF CallBack, SendEvent
<1>8. ASSUME NEW s \in Sockets, Feed(s) \/ Disconnects(s)
      PROVE  ReportsOK'
  BY <1>2, <1>8 DEF Feed, Lagged, Forward, Sent, Closed, Disconnects
<1>9. CASE MainThread
  BY <1>2, <1>9 DEF MainThread, Shutdown, ClearOne, Cleared, DropManager
<1>10. CASE UNCHANGED vars
  BY <1>2, <1>10 DEF vars
<1> QED
  BY <1>4, <1>5, <1>6, <1>7, <1>8, <1>9, <1>10 DEF Next

LEMMA StepOwned ==
    ASSUME Owned, ReportsOK, [Next]_vars
    PROVE  Owned'
<1>1. ASSUME NEW r \in Requests, NEW d \in Devices, Create(r, d)
      PROVE  Owned'
  BY <1>1, CreateOwned DEF Threads
<1>2. ASSUME NEW r \in Requests, NEW d \in Devices,
             \E pc \in {"subscribe", "release"}
                       \cup IF kind[d] = "Mouse" THEN {"mouse"} ELSE {} : GetFor(r, d, pc)
      PROVE  Owned'
  <2>1. \E pc \in {"subscribe", "release", "mouse"} : GetFor(r, d, pc)
    BY <1>2
  <2> QED
    BY <2>1, FindOwned
<1>3. ASSUME NEW d \in Devices, CallBack(d) \/ SendEvent(d)
      PROVE  Owned'
  <2>1. UNCHANGED <<device, request>>
    BY <1>3 DEF CallBack, SendEvent
  <2> QED
    BY <1>3, <2>1, CallbackOwned
<1>4. ASSUME NEW s \in Sockets, Feed(s) \/ Disconnects(s)
      PROVE  Owned'
  BY <1>4, CallbackOwned DEF Feed, Lagged, Forward, Sent, Closed, Disconnects
<1>5. CASE UNCHANGED vars
  BY <1>5, CallbackOwned DEF vars
<1> QED
  BY <1>1, <1>2, <1>3, <1>4, <1>5, HandlerOwned, FindOwned, MainOwned DEF Next

LEMMA InitOwned == Init => Owned /\ ReportsOK
<1> SUFFICES ASSUME Init PROVE Owned /\ ReportsOK
  OBVIOUS
<1>1. Idle \in Without
  BY DEF Idle, Without
<1>2. RequestOK /\ \A r \in Threads, d \in Devices : ~HoldsClone(r, d)
  BY <1>1, Shapes DEF Init, RequestOK, HoldsClone
<1> QED
  BY <1>2 DEF Init, Owned, ReportsOK

LEMMA OwnedAlways == Spec => [](Owned /\ ReportsOK)
<1>1. (Owned /\ ReportsOK) /\ [Next]_vars => (Owned /\ ReportsOK)'
  BY StepOwned, StepReportsOK
<1> QED
  BY <1>1, InitOwned, PTL DEF Spec

\* Nobody uses a device that is being destroyed, and one thread destroys it.
THEOREM DevicesDestroyedAlone == Spec => []DestroyedAlone
<1>1. Owned /\ ReportsOK => DestroyedAlone
  BY DEF Owned, DestroyedAlone
<1> QED
  BY <1>1, OwnedAlways, PTL

-----------------------------------------------------------------------------
(* What is seen of the input                                               *)

Busy(r) == request[r].pc \in ReportSteps

\* Reports of requests in progress are their own, and newer than the past.
Numbered ==
    /\ RequestOK
    /\ reports \in Nat
    /\ returned \subseteq Reports
    /\ overtaken \subseteq returned
    /\ \A p \in returned : p.n <= reports
    /\ \A r \in Threads : Busy(r) =>
          /\ request[r].report.n <= reports
          /\ request[r].report.device = request[r].device
          /\ request[r].report \notin returned
          /\ request[r].past \subseteq returned
          /\ \A q \in Threads :
                Busy(q) /\ request[q].report.n = request[r].report.n => q = r

\* The cache of a generic device has the latest report of an id, and what a
\* request in progress has cached has replaced what was there when it began.
CacheOK ==
    /\ DOMAIN current_inputs = Devices /\ DOMAIN last_report_id = Devices
    /\ \A d \in Devices : kind[d] = "Generic" =>
          /\ \A id \in DOMAIN current_inputs[d] :
                /\ current_inputs[d][id] \in Reports
                /\ current_inputs[d][id].id = id
                /\ current_inputs[d][id].device = d
          /\ last_report_id[d] \subseteq DOMAIN current_inputs[d]
          /\ \A p \in returned : p.device = d =>
                p.id \in DOMAIN current_inputs[d] /\ last_report_id[d] # {}
          /\ \A p \in overtaken : p.device = d => current_inputs[d][p.id] # p
    /\ \A r \in Threads : Busy(r) /\ kind[request[r].device] = "Generic" =>
          LET d == request[r].device
              id == request[r].report.id
          IN  /\ request[r].pc \notin {"lock", "report"}
              /\ request[r].pc \in {"last", "snapshot"} =>
                    /\ id \in DOMAIN current_inputs[d]
                    /\ current_inputs[d][id] \notin request[r].past
              /\ request[r].pc = "snapshot" => last_report_id[d] # {}

Locking(r, d) ==
    request[r].pc \in {"report", "snapshot"} /\ request[r].device = d

\* The last snapshot of a gamepad is of the report it has, unless the one
\* thread that has locked the report is between the two.
ShownOK ==
    /\ DOMAIN given = Devices /\ DOMAIN shown = Devices
    /\ \A d \in Devices : kind[d] = "Gamepad" =>
          /\ (\A r \in Threads : ~Locking(r, d)) => shown[d] = given[d]
          /\ \A q, r \in Threads : Locking(q, d) /\ Locking(r, d) => q = r
          /\ \A r \in Threads : request[r].device = d /\ Busy(r) =>
                /\ request[r].pc \in {"lock", "report", "snapshot"}
                /\ request[r].pc = "report" => shown[d] = given[d]
                /\ request[r].pc = "snapshot" => given[d] = request[r].report

SeenOK == Numbered /\ CacheOK /\ ShownOK

\* A request that has a report goes on.
LEMMA BusyFacts ==
    ASSUME RequestOK, NEW r \in Threads, Busy(r),
           NEW pc \in ReportSteps \cup {"release"}, Goes(r, pc)
    PROVE  /\ request[r] \in Input
           /\ RequestOK'
           /\ request'[r].pc = pc
           /\ request'[r].device = request[r].device
           /\ request'[r].report = request[r].report
           /\ request'[r].past = request[r].past
           /\ \A q \in Threads \ {r} : request'[q] = request[q]
<1>1. request[r] \in Input
  BY Shapes DEF RequestOK, Busy
<1> QED
  BY <1>1, GoesFacts

\* Requests without a report change nothing of what is seen.
LEMMA OthersSeen ==
    ASSUME SeenOK, RequestOK',
           \A r \in Threads : Busy(r) \/ request'[r].pc \in ReportSteps
                              => request'[r] = request[r],
           UNCHANGED <<kind, current_inputs, last_report_id, given, shown,
                       reports, returned, overtaken>>
    PROVE  SeenOK'
<1>1. \A r \in Threads : Busy(r)' <=> Busy(r)
  BY DEF Busy
<1>2. \A r \in Threads : Busy(r) => request'[r] = request[r]
  OBVIOUS
<1>3. Numbered'
  BY <1>1, <1>2 DEF SeenOK, Numbered
<1>4. CacheOK'
  BY <1>1, <1>2 DEF SeenOK, CacheOK
<1>5. \A r \in Threads, d \in Devices : Locking(r, d)' <=> Locking(r, d)
  BY <1>2 DEF Locking, Busy, ReportSteps
<1>6. ShownOK'
  BY <1>1, <1>2, <1>5 DEF SeenOK, ShownOK
<1> QED
  BY <1>3, <1>4, <1>6 DEF SeenOK

\* Numbers are given once.
LEMMA GoesNumbered ==
    ASSUME Numbered, NEW r \in Threads, Busy(r),
           NEW pc \in ReportSteps \cup {"release"}, Goes(r, pc),
           UNCHANGED <<reports, returned, overtaken>>
    PROVE  Numbered'
<1>1. /\ RequestOK'
      /\ request'[r].device = request[r].device
      /\ request'[r].report = request[r].report
      /\ request'[r].past = request[r].past
      /\ \A q \in Threads \ {r} : request'[q] = request[q]
  BY BusyFacts DEF Numbered
<1>2. ASSUME NEW q \in Threads
      PROVE  /\ Busy(q)' => Busy(q)
             /\ request'[q].device = request[q].device
             /\ request'[q].report = request[q].report
             /\ request'[q].past = request[q].past
  BY <1>1 DEF Busy
<1> QED
  BY <1>1, <1>2 DEF Numbered

LEMMA SendNumbered ==
    ASSUME Numbered, NEW r \in Threads, SendSnapshot(r)
    PROVE  Numbered'
<1>1. /\ Busy(r)
      /\ Goes(r, "release")
      /\ returned' = returned \cup {request[r].report}
      /\ overtaken' = overtaken \cup
             {p \in request[r].past : /\ p.device = request[r].device
                                      /\ p.id = request[r].report.id}
      /\ UNCHANGED reports
  BY DEF SendSnapshot, Busy, ReportSteps
<1>2. /\ request[r] \in Input
      /\ RequestOK'
      /\ request'[r].pc = "release"
      /\ \A q \in Threads \ {r} : request'[q] = request[q]
  BY <1>1, BusyFacts DEF Numbered
<1>3. \A q \in Threads : Busy(q)' => q # r /\ Busy(q) /\ request'[q] = request[q]
  BY <1>2 DEF Busy, ReportSteps
<1>4. request[r].report \in Reports /\ request[r].report.n <= reports
  BY <1>1, <1>2 DEF Numbered, Input
<1>5. overtaken' \subseteq returned'
  BY <1>1 DEF Numbered
<1>6. \A q \in Threads : q # r /\ Busy(q) => request[q].report # request[r].report
  BY <1>1 DEF Numbered
<1> QED
  BY <1>1, <1>2, <1>3, <1>4, <1>5, <1>6 DEF Numbered

\* A report is submitted.
LEMMA SubmitSeen ==
    ASSUME SeenOK, NEW r \in Threads, SubmitGenericInput(r)
    PROVE  SeenOK'
<1>1. /\ Busy(r)
      /\ request[r].pc = "submit"
      /\ UNCHANGED <<kind, context, shown, history>>
  BY DEF SubmitGenericInput, Busy, ReportSteps
<1>2. PICK pc \in {"cache", "release"} : Goes(r, pc)
  BY DEF SubmitGenericInput
<1>3. /\ request[r] \in Input
      /\ request'[r].pc = pc
      /\ request'[r].device = request[r].device
      /\ \A q \in Threads \ {r} : request'[q] = request[q]
  BY <1>1, <1>2, BusyFacts DEF SeenOK, Numbered, ReportSteps
<1>4. Numbered'
  BY <1>1, <1>2, GoesNumbered DEF SeenOK, ReportSteps, history
<1>5. CacheOK'
  <2>1. \A q \in Threads : Busy(q)' =>
            Busy(q) /\ (q = r \/ request'[q] = request[q])
    BY <1>1, <1>3 DEF Busy
  <2> QED
    BY <1>1, <1>2, <1>3, <2>1 DEF SeenOK, CacheOK, context, history
<1>6. ShownOK'
  <2>1. request[r].device \in Devices
    BY <1>3 DEF Input
  <2>2. kind[request[r].device] # "Gamepad"
    BY <1>1, <2>1 DEF SeenOK, ShownOK
  <2>3. /\ DOMAIN given' = Devices
        /\ \A d \in Devices : d # request[r].device => given'[d] = given[d]
    BY DEF SubmitGenericInput, SeenOK, ShownOK
  <2>4. \A q \in Threads, d \in Devices : d # request[r].device =>
            /\ Locking(q, d)' <=> Locking(q, d)
            /\ request'[q].device = d => request'[q] = request[q]
    BY <1>3 DEF Locking
  <2>5. ASSUME NEW d \in Devices, kind[d] = "Gamepad"
        PROVE  /\ d # request[r].device
               /\ given'[d] = given[d]
               /\ shown'[d] = shown[d]
    BY <1>1, <2>2, <2>3, <2>5
  <2> QED
    BY <1>1, <2>3, <2>4, <2>5 DEF SeenOK, ShownOK, Busy
<1> QED
  BY <1>4, <1>5, <1>6 DEF SeenOK

LEMMA CacheInputSeen ==
    ASSUME SeenOK, NEW r \in Threads, CacheInput(r)
    PROVE  SeenOK'
<1>1. /\ Busy(r)
      /\ request[r].pc = "cache"
      /\ Goes(r, "last")
      /\ UNCHANGED <<kind, last_report_id, given, shown, history>>
  BY DEF CacheInput, Busy, ReportSteps
<1>2. /\ request[r] \in Input
      /\ request'[r].pc = "last"
      /\ request'[r].device = request[r].device
      /\ request'[r].report = request[r].report
      /\ request'[r].past = request[r].past
      /\ \A q \in Threads \ {r} : request'[q] = request[q]
  BY <1>1, BusyFacts DEF SeenOK, Numbered, ReportSteps
<1>3. PICK d \in Devices, report \in Reports :
         /\ d = request[r].device
         /\ report = request[r].report
  BY <1>2 DEF Input
<1>4. /\ report.device = d
      /\ report \notin returned
      /\ overtaken \subseteq returned
      /\ \A q \in Threads : Busy(q) => request[q].past \subseteq returned
  BY <1>1, <1>3 DEF SeenOK, Numbered
<1>5. /\ DOMAIN current_inputs' = Devices
      /\ DOMAIN current_inputs'[d] = DOMAIN current_inputs[d] \cup {report.id}
      /\ current_inputs'[d][report.id] = report
      /\ \A id \in DOMAIN current_inputs[d] :
             id # report.id => current_inputs'[d][id] = current_inputs[d][id]
      /\ \A e \in Devices : e # d => current_inputs'[e] = current_inputs[e]
  BY <1>3 DEF CacheInput, SeenOK, CacheOK
<1>6. Numbered'
  BY <1>1, GoesNumbered DEF SeenOK, ReportSteps, history
<1>7. ASSUME NEW e \in Devices, kind[e] = "Generic"
      PROVE  /\ \A id \in DOMAIN current_inputs'[e] :
                   /\ current_inputs'[e][id] \in Reports
                   /\ current_inputs'[e][id].id = id
                   /\ current_inputs'[e][id].device = e
             /\ last_report_id[e] \subseteq DOMAIN current_inputs'[e]
             /\ \A p \in returned : p.device = e =>
                   p.id \in DOMAIN current_inputs'[e] /\ last_report_id[e] # {}
             /\ \A p \in overtaken : p.device = e => current_inputs'[e][p.id] # p
  <2>1. CASE e = d
    <3>1. \A id \in DOMAIN current_inputs'[d] :
             /\ current_inputs'[d][id] \in Reports
             /\ current_inputs'[d][id].id = id
             /\ current_inputs'[d][id].device = d
      BY <1>4, <1>5, <1>7, <2>1 DEF SeenOK, CacheOK
    <3>2. ASSUME NEW p \in overtaken, p.device = d
          PROVE  current_inputs'[d][p.id] # p
      <4>1. p.id \in DOMAIN current_inputs[d] /\ current_inputs[d][p.id] # p
        BY <1>4, <1>7, <2>1, <3>2 DEF SeenOK, CacheOK
      <4> QED
        BY <1>4, <1>5, <4>1
    <3> QED
      BY <1>5, <1>7, <2>1, <3>1, <3>2 DEF SeenOK, CacheOK
  <2>2. CASE e # d
    BY <1>5, <1>7, <2>2 DEF SeenOK, CacheOK
  <2> QED
    BY <2>1, <2>2
<1>8. ASSUME NEW q \in Threads, Busy(q)', kind[request'[q].device] = "Generic"
      PROVE  LET e == request'[q].device
                 id == request'[q].report.id
             IN  /\ request'[q].pc \notin {"lock", "report"}
                 /\ request'[q].pc \in {"last", "snapshot"} =>
                       /\ id \in DOMAIN current_inputs'[e]
                       /\ current_inputs'[e][id] \notin request'[q].past
                 /\ request'[q].pc = "snapshot" => last_report_id[e] # {}
  <2>1. CASE q = r
    BY <1>1, <1>2, <1>3, <1>4, <1>5, <2>1
  <2>2. CASE q # r
    <3>1. Busy(q) /\ request'[q] = request[q]
      BY <1>2, <1>8, <2>2 DEF Busy
    <3>2. request[q] \in Input
      BY <3>1, Shapes DEF SeenOK, Numbered, RequestOK, Busy
    <3>3. request[q].device \in Devices
      BY <3>2 DEF Input
    <3> DEFINE e == request[q].device
               id == request[q].report.id
    <3>4. /\ request[q].pc \notin {"lock", "report"}
          /\ request[q].pc \in {"last", "snapshot"} =>
                /\ id \in DOMAIN current_inputs[e]
                /\ current_inputs[e][id] \notin request[q].past
          /\ request[q].pc = "snapshot" => last_report_id[e] # {}
      BY <1>8, <3>1 DEF SeenOK, CacheOK
    <3>5. report \notin request[q].past
      BY <1>4, <3>1
    <3>6. id \in DOMAIN current_inputs[e] =>
             /\ id \in DOMAIN current_inputs'[e]
             /\ current_inputs'[e][id] \in {current_inputs[e][id], report}
      BY <1>5, <3>3
    <3> HIDE DEF e, id
    <3>7. /\ request[q].pc \in {"last", "snapshot"} =>
                /\ id \in DOMAIN current_inputs'[e]
                /\ current_inputs'[e][id] \notin request[q].past
      BY <3>4, <3>5, <3>6
    <3> QED
      BY <3>1, <3>4, <3>7 DEF e, id
  <2> QED
    BY <2>1, <2>2
<1>9. CacheOK'
  BY <1>1, <1>5, <1>7, <1>8 DEF SeenOK, CacheOK, history
<1>10. ShownOK'
  <2>1. kind[d] # "Gamepad"
    BY <1>1, <1>3 DEF SeenOK, ShownOK
  <2>2. \A q \in Threads, e \in Devices : e # d =>
            /\ Locking(q, e)' <=> Locking(q, e)
            /\ request'[q].device = e => request'[q] = request[q]
    BY <1>2, <1>3 DEF Locking
  <2>3. \A e \in Devices : kind[e] = "Gamepad" => e # d
    BY <2>1
  <2> QED
    BY <1>1, <2>2, <2>3 DEF SeenOK, ShownOK, Busy
<1> QED
  BY <1>6, <1>9, <1>10 DEF SeenOK

LEMMA SetLastReportIdSeen ==
    ASSUME SeenOK, NEW r \in Threads, SetLastReportId(r)
    PROVE  SeenOK'
<1>1. /\ Busy(r)
      /\ request[r].pc = "last"
      /\ Goes(r, "snapshot")
      /\ UNCHANGED <<kind, current_inputs, given, shown, history>>
  BY DEF SetLastReportId, Busy, ReportSteps
<1>2. /\ request[r] \in Input
      /\ request'[r].pc = "snapshot"
      /\ request'[r].device = request[r].device
      /\ request'[r].report = request[r].report
      /\ request'[r].past = request[r].past
      /\ \A q \in Threads \ {r} : request'[q] = request[q]
  BY <1>1, BusyFacts DEF SeenOK, Numbered, ReportSteps
<1>3. PICK d \in Devices : d = request[r].device
  BY <1>2 DEF Input
<1>4. /\ DOMAIN last_report_id' = Devices
      /\ last_report_id'[d] = {request[r].report.id}
      /\ \A e \in Devices : e # d => last_report_id'[e] = last_report_id[e]
  BY <1>3 DEF SetLastReportId, SeenOK, CacheOK
<1>5. Numbered'
  BY <1>1, GoesNumbered DEF SeenOK, ReportSteps, history
<1>6. kind[d] = "Generic" =>
         /\ request[r].report.id \in DOMAIN current_inputs[d]
         /\ current_inputs[d][request[r].report.id] \notin request[r].past
  BY <1>1, <1>3 DEF SeenOK, CacheOK
<1>7. CacheOK'
  <2>1. ASSUME NEW e \in Devices, kind[e] = "Generic"
        PROVE  /\ last_report_id'[e] \subseteq DOMAIN current_inputs[e]
               /\ \A p \in returned : p.device = e =>
                     p.id \in DOMAIN current_inputs[e] /\ last_report_id'[e] # {}
    <3>1. CASE e = d
      BY <1>4, <1>6, <2>1, <3>1 DEF SeenOK, CacheOK
    <3>2. CASE e # d
      BY <1>4, <2>1, <3>2 DEF SeenOK, CacheOK
    <3> QED
      BY <3>1, <3>2
  <2>2. ASSUME NEW q \in Threads, Busy(q)', kind[request'[q].device] = "Generic"
        PROVE  LET e == request'[q].device
                   id == request'[q].report.id
               IN  /\ request'[q].pc \notin {"lock", "report"}
                   /\ request'[q].pc \in {"last", "snapshot"} =>
                         /\ id \in DOMAIN current_inputs[e]
                         /\ current_inputs[e][id] \notin request'[q].past
                   /\ request'[q].pc = "snapshot" => last_report_id'[e] # {}
    <3>1. CASE q = r
      BY <1>2, <1>3, <1>4, <1>6, <2>2, <3>1
    <3>2. CASE q # r
      <4>1. Busy(q) /\ request'[q] = request[q]
        BY <1>2, <2>2, <3>2 DEF Busy
      <4>2. request[q].device \in Devices
        <5>1. request[q] \in Input
          BY <4>1, Shapes DEF SeenOK, Numbered, RequestOK, Busy
        <5> QED
          BY <5>1 DEF Input
      <4>3. last_report_id[request[q].device] # {}
            => last_report_id'[request[q].device] # {}
        BY <1>4, <4>2
      <4> QED
        BY <2>2, <4>1, <4>3 DEF SeenOK, CacheOK
    <3> QED
      BY <3>1, <3>2
  <2>3. /\ DOMAIN current_inputs = Devices
        /\ \A e \in Devices : kind[e] = "Generic" =>
              /\ \A id \in DOMAIN current_inputs[e] :
                    /\ current_inputs[e][id] \in Reports
                    /\ current_inputs[e][id].id = id
                    /\ current_inputs[e][id].device = e
              /\ \A p \in overtaken : p.device = e => current_inputs[e][p.id] # p
    BY DEF SeenOK, CacheOK
  <2> QED
    BY <1>1, <1>4, <2>1, <2>2, <2>3 DEF CacheOK, history
<1>8. ShownOK'
  <2>1. kind[d] # "Gamepad"
    BY <1>1, <1>3 DEF SeenOK, ShownOK
  <2>2. \A q \in Threads, e \in Devices : e # d =>
            /\ Locking(q, e)' <=> Locking(q, e)
            /\ request'[q].device = e => request'[q] = request[q]
    BY <1>2, <1>3 DEF Locking
  <2>3. \A e \in Devices : kind[e] = "Gamepad" => e # d
    BY <2>1
  <2> QED
    BY <1>1, <2>2, <2>3 DEF SeenOK, ShownOK, Busy
<1> QED
  BY <1>5, <1>7, <1>8 DEF SeenOK

\* A gamepad's report is locked, and given to the SDK.
LEMMA GamepadSeen ==
    ASSUME SeenOK, NEW r \in Threads, LockReport(r) \/ ReportInput(r)
    PROVE  SeenOK'
<1>1. /\ Busy(r)
      /\ request[r].pc \in {"lock", "report"}
      /\ Goes(r, IF request[r].pc = "lock" THEN "report" ELSE "snapshot")
      /\ UNCHANGED <<kind, context, shown, history>>
  BY DEF LockReport, ReportInput, Busy, ReportSteps
<1>2. PICK pc \in {"report", "snapshot"} :
         /\ Goes(r, pc)
         /\ pc = IF request[r].pc = "lock" THEN "report" ELSE "snapshot"
  BY <1>1
<1>3. /\ request[r] \in Input
      /\ request'[r].pc = pc
      /\ request'[r].device = request[r].device
      /\ request'[r].report = request[r].report
      /\ request'[r].past = request[r].past
      /\ \A q \in Threads \ {r} : request'[q] = request[q]
  BY <1>1, <1>2, BusyFacts DEF SeenOK, Numbered, ReportSteps
<1>4. PICK d \in Devices : d = request[r].device
  BY <1>3 DEF Input
<1>5. kind[d] # "Generic"
  BY <1>1, <1>4 DEF SeenOK, CacheOK
<1>6. Numbered'
  BY <1>1, <1>2, GoesNumbered DEF SeenOK, ReportSteps, history
<1>7. CacheOK'
  <2>1. \A q \in Threads : kind[request'[q].device] = "Generic" =>
            q # r /\ request'[q] = request[q]
    BY <1>3, <1>4, <1>5
  <2> QED
    BY <1>1, <2>1 DEF SeenOK, CacheOK, context, history, Busy
<1>8. \A q \in Threads, e \in Devices : e # d =>
         /\ Locking(q, e)' <=> Locking(q, e)
         /\ request'[q].device = e => request'[q] = request[q]
  BY <1>3, <1>4 DEF Locking
<1>9. CASE LockReport(r)
  <2>1. UNCHANGED given /\ pc = "report" /\ ~ReportLocked(d)
    BY <1>2, <1>4, <1>9 DEF LockReport
  <2>2. \A q \in Threads : ~Locking(q, d)
    <3>1. ASSUME NEW q \in Threads, Locking(q, d) PROVE HoldsClone(q, d) /\ Locks(q)
      <4>1. request[q] \in Input
        BY <3>1, Shapes DEF SeenOK, Numbered, RequestOK, Locking, ReportSteps
      <4> QED
        BY <3>1, <4>1, Shapes DEF Locking, HoldsClone, Locks
    <3> QED
      BY <2>1, <3>1 DEF ReportLocked
  <2>3. \A q \in Threads : Locking(q, d)' <=> q = r
    BY <1>3, <1>4, <2>1, <2>2 DEF Locking
  <2>4. ASSUME NEW e \in Devices, kind[e] = "Gamepad"
        PROVE  /\ (\A q \in Threads : ~Locking(q, e)') => shown[e] = given[e]
               /\ \A p, q \in Threads : Locking(p, e)' /\ Locking(q, e)' => p = q
               /\ \A q \in Threads : request'[q].device = e /\ Busy(q)' =>
                     /\ request'[q].pc \in {"lock", "report", "snapshot"}
                     /\ request'[q].pc = "report" => shown[e] = given[e]
                     /\ request'[q].pc = "snapshot" => given[e] = request'[q].report
    <3>1. CASE e # d
      BY <1>8, <2>4, <3>1 DEF SeenOK, ShownOK, Busy
    <3>2. CASE e = d
      <4>1. shown[d] = given[d]
        BY <2>2, <2>4, <3>2 DEF SeenOK, ShownOK
      <4>2. \A q \in Threads : request'[q].device = d /\ Busy(q)' =>
               request'[q].pc \in {"lock", "report"}
        BY <1>3, <1>4, <2>1, <2>2, <2>4, <3>2
        DEF SeenOK, ShownOK, Busy, Locking
      <4> QED
        BY <2>3, <3>2, <4>1, <4>2
    <3> QED
      BY <3>1, <3>2
  <2>5. ShownOK'
    BY <1>1, <2>1, <2>4 DEF SeenOK, ShownOK
  <2> QED
    BY <1>6, <1>7, <2>5 DEF SeenOK
<1>10. CASE ReportInput(r)
  <2>1. /\ pc = "snapshot"
        /\ Locking(r, d)
        /\ given' = [given EXCEPT ![d] = request[r].report]
    BY <1>2, <1>4, <1>10 DEF ReportInput, Locking
  <2>2. /\ DOMAIN given' = Devices
        /\ given'[d] = request[r].report
        /\ \A e \in Devices : e # d => given'[e] = given[e]
    BY <2>1 DEF SeenOK, ShownOK
  <2>3. \A q \in Threads : Locking(q, d)' <=> Locking(q, d)
    BY <1>3, <1>4, <2>1 DEF Locking
  <2>4. ASSUME NEW e \in Devices, kind[e] = "Gamepad"
        PROVE  /\ (\A q \in Threads : ~Locking(q, e)') => shown[e] = given'[e]
               /\ \A p, q \in Threads : Locking(p, e)' /\ Locking(q, e)' => p = q
               /\ \A q \in Threads : request'[q].device = e /\ Busy(q)' =>
                     /\ request'[q].pc \in {"lock", "report", "snapshot"}
                     /\ request'[q].pc = "report" => shown[e] = given'[e]
                     /\ request'[q].pc = "snapshot" => given'[e] = request'[q].report
    <3>1. CASE e # d
      BY <1>8, <2>2, <2>4, <3>1 DEF SeenOK, ShownOK, Busy
    <3>2. CASE e = d
      <4>1. \A q \in Threads : Locking(q, d) => q = r
        BY <2>1, <2>4, <3>2 DEF SeenOK, ShownOK
      <4>2. \A q \in Threads : q # r /\ request'[q].device = d /\ Busy(q)' =>
               request'[q].pc = "lock"
        BY <1>3, <2>4, <3>2, <4>1 DEF SeenOK, ShownOK, Busy, Locking
      <4> QED
        BY <1>3, <2>1, <2>2, <2>3, <3>2, <4>1, <4>2
    <3> QED
      BY <3>1, <3>2
  <2>5. ShownOK'
    BY <1>1, <2>2, <2>4 DEF SeenOK, ShownOK
  <2> QED
    BY <1>6, <1>7, <2>5 DEF SeenOK
<1> QED
  BY <1>9, <1>10

LEMMA SendSnapshotSeen ==
    ASSUME SeenOK, NEW r \in Threads, SendSnapshot(r)
    PROVE  SeenOK'
<1>1. /\ Busy(r)
      /\ request[r].pc = "snapshot"
      /\ Goes(r, "release")
      /\ returned' = returned \cup {request[r].report}
      /\ overtaken' = overtaken \cup
             {p \in request[r].past : /\ p.device = request[r].device
                                      /\ p.id = request[r].report.id}
      /\ shown' = [shown EXCEPT ![request[r].device] = request[r].report]
      /\ UNCHANGED <<kind, current_inputs, last_report_id, given>>
  BY DEF SendSnapshot, context, Busy, ReportSteps
<1>2. /\ request[r] \in Input
      /\ request'[r].pc = "release"
      /\ request'[r].device = request[r].device
      /\ \A q \in Threads \ {r} : request'[q] = request[q]
  BY <1>1, BusyFacts DEF SeenOK, Numbered
<1>3. PICK d \in Devices, report \in Reports :
         /\ d = request[r].device
         /\ report = request[r].report
  BY <1>2 DEF Input
<1>4. report.device = d
  BY <1>1, <1>3 DEF SeenOK, Numbered
<1>5. \A q \in Threads : Busy(q)' => q # r /\ Busy(q) /\ request'[q] = request[q]
  BY <1>2 DEF Busy, ReportSteps
<1>6. Numbered'
  BY SendNumbered DEF SeenOK
<1>7. CacheOK'
  <2>1. kind[d] = "Generic" =>
           /\ report.id \in DOMAIN current_inputs[d]
           /\ current_inputs[d][report.id] \notin request[r].past
           /\ last_report_id[d] # {}
    BY <1>1, <1>3 DEF SeenOK, CacheOK
  <2>2. ASSUME NEW e \in Devices, kind[e] = "Generic", NEW p \in returned',
               p.device = e
        PROVE  p.id \in DOMAIN current_inputs[e] /\ last_report_id[e] # {}
    <3>1. CASE p \in returned
      BY <2>2, <3>1 DEF SeenOK, CacheOK
    <3>2. CASE p = report
      BY <1>4, <2>1, <2>2, <3>2
    <3> QED
      BY <1>1, <1>3, <2>2, <3>1, <3>2
  <2>3. ASSUME NEW e \in Devices, kind[e] = "Generic", NEW p \in overtaken',
               p.device = e
        PROVE  current_inputs[e][p.id] # p
    <3>1. CASE p \in overtaken
      BY <2>3, <3>1 DEF SeenOK, CacheOK
    <3>2. CASE p \in request[r].past /\ p.device = d /\ p.id = report.id
      BY <2>1, <2>3, <3>2
    <3> QED
      BY <1>1, <1>3, <2>3, <3>1, <3>2
  <2>4. \A e \in Devices : kind[e] = "Generic" =>
           /\ \A id \in DOMAIN current_inputs[e] :
                 /\ current_inputs[e][id] \in Reports
                 /\ current_inputs[e][id].id = id
                 /\ current_inputs[e][id].device = e
           /\ last_report_id[e] \subseteq DOMAIN current_inputs[e]
    BY DEF SeenOK, CacheOK
  <2>5. DOMAIN current_inputs' = Devices /\ DOMAIN last_report_id' = Devices
    BY <1>1 DEF SeenOK, CacheOK
  <2>6. ASSUME NEW q \in Threads, Busy(q)', kind'[request'[q].device] = "Generic"
        PROVE  LET e == request'[q].device
                   id == request'[q].report.id
               IN  /\ request'[q].pc \notin {"lock", "report"}
                   /\ request'[q].pc \in {"last", "snapshot"} =>
                         /\ id \in DOMAIN current_inputs'[e]
                         /\ current_inputs'[e][id] \notin request'[q].past
                   /\ request'[q].pc = "snapshot" => last_report_id'[e] # {}
    BY <1>1, <1>5, <2>6 DEF SeenOK, CacheOK
  <2> QED
    BY <1>1, <2>2, <2>3, <2>4, <2>5, <2>6 DEF CacheOK
<1>8. ShownOK'
  <2>1. /\ DOMAIN shown' = Devices
        /\ shown'[d] = report
        /\ \A e \in Devices : e # d => shown'[e] = shown[e]
    BY <1>1, <1>3 DEF SeenOK, ShownOK
  <2>2. Locking(r, d)
    BY <1>1, <1>3 DEF Locking
  <2>3. \A q \in Threads, e \in Devices :
           Locking(q, e)' => q # r /\ Locking(q, e) /\ request'[q] = request[q]
    BY <1>2 DEF Locking
  <2>4. \A q \in Threads, e \in Devices : e # d /\ Locking(q, e) => Locking(q, e)'
    BY <1>2, <1>3 DEF Locking
  <2>5. ASSUME NEW e \in Devices, kind[e] = "Gamepad"
        PROVE  /\ (\A q \in Threads : ~Locking(q, e)') => shown'[e] = given[e]
               /\ \A p, q \in Threads : Locking(p, e)' /\ Locking(q, e)' => p = q
               /\ \A q \in Threads : request'[q].device = e /\ Busy(q)' =>
                     /\ request'[q].pc \in {"lock", "report", "snapshot"}
                     /\ request'[q].pc = "report" => shown'[e] = given[e]
                     /\ request'[q].pc = "snapshot" => given[e] = request'[q].report
    <3>1. CASE e # d
      BY <1>5, <2>1, <2>3, <2>4, <2>5, <3>1 DEF SeenOK, ShownOK
    <3>2. CASE e = d
      <4>1. given[d] = report
        BY <1>1, <1>3, <2>5, <3>2 DEF SeenOK, ShownOK
      <4> QED
        BY <1>5, <2>1, <2>3, <2>5, <3>2, <4>1 DEF SeenOK, ShownOK
    <3> QED
      BY <3>1, <3>2
  <2>6. DOMAIN given' = Devices
    BY <1>1 DEF SeenOK, ShownOK
  <2> QED
    BY <1>1, <2>1, <2>5, <2>6 DEF ShownOK
<1> QED
  BY <1>6, <1>7, <1>8 DEF SeenOK

LEMMA GetForReportSeen ==
    ASSUME SeenOK, NEW r \in Requests, NEW d \in Devices, NEW id \in ReportIds,
           GetForReport(r, d, id)
    PROVE  SeenOK'
<1>1. /\ r \in Threads
      /\ request[r] = Idle
      /\ kind[d] # "Mouse"
      /\ reports' = reports + 1
      /\ UNCHANGED <<kind, current_inputs, last_report_id, given, shown, returned,
                     overtaken>>
  BY DEF GetForReport, Serving, Threads, context
<1>2. ReportsOK
  BY DEF SeenOK, Numbered, ReportsOK
<1>3. PICK x \in Input :
         /\ x.device = d
         /\ x.pc = IF kind[d] = "Generic" THEN "submit" ELSE "lock"
         /\ x.report = [device |-> d, id |-> id, n |-> reports + 1]
         /\ x.past = returned
         /\ request' = [request EXCEPT ![r] = x]
  BY <1>2, GetForReportFacts
<1>4. /\ RequestOK'
      /\ request'[r] = x
      /\ \A q \in Threads \ {r} : request'[q] = request[q]
  BY <1>1, <1>3 DEF SeenOK, Numbered, RequestOK
<1>5. ~Busy(r) /\ request[r].pc = "idle"
  BY <1>1 DEF Busy, Idle, ReportSteps
<1>6. Numbered'
  <2>1. x.report.n = reports + 1 /\ x.report.device = d
    BY <1>3
  <2>2. x.report \notin returned
    BY <2>1 DEF SeenOK, Numbered
  <2>3. \A p \in returned : p.n <= reports + 1
    <3>1. \A p \in returned : p.n \in Nat /\ p.n <= reports
      BY DEF SeenOK, Numbered, Reports
    <3> QED
      BY <3>1 DEF SeenOK, Numbered
  <2>4. ASSUME NEW q \in Threads, q # r, Busy(q)'
        PROVE  /\ Busy(q)
               /\ request'[q] = request[q]
               /\ request[q].report.n \in Nat
               /\ request[q].report.n <= reports
    <3>1. Busy(q) /\ request'[q] = request[q]
      BY <1>4, <2>4 DEF Busy
    <3>2. request[q] \in Input
      BY <3>1, Shapes DEF SeenOK, Numbered, RequestOK, Busy
    <3> QED
      BY <3>1, <3>2 DEF Input, Reports, SeenOK, Numbered
  <2>5. ASSUME NEW q \in Threads, Busy(q)'
        PROVE  /\ request'[q].report.n <= reports + 1
               /\ request'[q].report.device = request'[q].device
               /\ request'[q].report \notin returned
               /\ request'[q].past \subseteq returned
               /\ \A p \in Threads :
                     Busy(p)' /\ request'[p].report.n = request'[q].report.n => p = q
    <3>0. reports \in Nat
      BY DEF SeenOK, Numbered
    <3>1. CASE q = r
      BY <1>3, <1>4, <2>1, <2>2, <2>4, <3>0, <3>1
    <3>2. CASE q # r
      <4>1. /\ request[q].report.device = request[q].device
            /\ request[q].report \notin returned
            /\ request[q].past \subseteq returned
            /\ \A p \in Threads :
                  Busy(p) /\ request[p].report.n = request[q].report.n => p = q
        BY <2>4, <2>5, <3>2 DEF SeenOK, Numbered
      <4> QED
        BY <1>4, <2>1, <2>4, <2>5, <3>0, <3>2, <4>1
    <3> QED
      BY <3>1, <3>2
  <2>6. /\ reports + 1 \in Nat
        /\ returned \subseteq Reports
        /\ overtaken \subseteq returned
    BY DEF SeenOK, Numbered
  <2> QED
    BY <1>1, <1>4, <2>3, <2>5, <2>6 DEF Numbered
<1>7. CacheOK'
  <2>1. ASSUME NEW q \in Threads, Busy(q)', kind[request'[q].device] = "Generic"
        PROVE  LET e == request'[q].device
                   i == request'[q].report.id
               IN  /\ request'[q].pc \notin {"lock", "report"}
                   /\ request'[q].pc \in {"last", "snapshot"} =>
                         /\ i \in DOMAIN current_inputs[e]
                         /\ current_inputs[e][i] \notin request'[q].past
                   /\ request'[q].pc = "snapshot" => last_report_id[e] # {}
    <3>1. CASE q = r
      BY <1>3, <1>4, <2>1, <3>1
    <3>2. CASE q # r
      <4>1. Busy(q) /\ request'[q] = request[q]
        BY <1>4, <2>1, <3>2 DEF Busy
      <4> QED
        BY <2>1, <4>1 DEF SeenOK, CacheOK
    <3> QED
      BY <3>1, <3>2
  <2>2. CacheOK
    BY DEF SeenOK
  <2> QED
    BY <1>1, <2>1, <2>2 DEF CacheOK
<1>8. ShownOK'
  <2>1. \A q \in Threads, e \in Devices : kind[e] = "Gamepad" =>
           (Locking(q, e)' <=> Locking(q, e))
    <3>1. x.pc \notin {"report", "snapshot"}
      BY <1>3
    <3> QED
      BY <1>4, <1>5, <3>1 DEF Locking
  <2>2. ASSUME NEW e \in Devices, kind[e] = "Gamepad", NEW q \in Threads,
               request'[q].device = e, Busy(q)'
        PROVE  /\ request'[q].pc \in {"lock", "report", "snapshot"}
               /\ request'[q].pc = "report" => shown[e] = given[e]
               /\ request'[q].pc = "snapshot" => given[e] = request'[q].report
    <3>1. CASE q = r
      BY <1>3, <1>4, <2>2, <3>1
    <3>2. CASE q # r
      <4>1. Busy(q) /\ request'[q] = request[q]
        BY <1>4, <2>2, <3>2 DEF Busy
      <4> QED
        BY <2>2, <4>1 DEF SeenOK, ShownOK
    <3> QED
      BY <3>1, <3>2
  <2>3. ShownOK
    BY DEF SeenOK
  <2> QED
    BY <1>1, <2>1, <2>2, <2>3 DEF ShownOK
<1> QED
  BY <1>6, <1>7, <1>8 DEF SeenOK

\* A thread that moves between other steps leaves the requests with reports.
LEMMA OneRequest ==
    ASSUME RequestOK, NEW r \in Threads, NEW x, x.pc \notin ReportSteps,
           request' = [request EXCEPT ![r] = x], ~Busy(r)
    PROVE  \A q \in Threads : Busy(q) \/ request'[q].pc \in ReportSteps
                              => request'[q] = request[q]
<1>1. /\ request'[r] = x
      /\ \A q \in Threads \ {r} : request'[q] = request[q]
  BY DEF RequestOK
<1> QED
  BY <1>1

LEMMA OneGoes ==
    ASSUME RequestOK, NEW r \in Threads, NEW pc, pc \notin ReportSteps,
           Goes(r, pc), ~Busy(r)
    PROVE  \A q \in Threads : Busy(q) \/ request'[q].pc \in ReportSteps
                              => request'[q] = request[q]
<1> DEFINE x == [request[r] EXCEPT !.pc = pc]
<1>1. request[r] \in Without \cup With \cup Input
  BY DEF RequestOK
<1>2. x.pc = pc
  <2>1. CASE request[r] \in Without
    BY <2>1 DEF Without
  <2>2. CASE request[r] \in With
    BY <2>2 DEF With
  <2>3. CASE request[r] \in Input
    BY <2>3 DEF Input
  <2> QED
    BY <1>1, <2>1, <2>2, <2>3
<1>3. request' = [request EXCEPT ![r] = x]
  BY DEF Goes
<1> HIDE DEF x
<1> QED
  BY <1>2, <1>3, OneRequest

LEMMA HandlerSeen ==
    ASSUME SeenOK, RequestOK', NEW r \in Threads, Handler(r)
    PROVE  SeenOK'
<1>0. RequestOK
  BY DEF SeenOK, Numbered
<1>1. CASE Insert(r) \/ UseMouse(r) \/ UpgradeFails(r)
           \/ \E s \in Sockets : Subscribe(r, s)
  <2>1. /\ request[r].pc \in {"insert", "mouse", "subscribe"}
        /\ Goes(r, "release")
        /\ UNCHANGED <<kind, current_inputs, last_report_id, given, shown,
                       reports, returned, overtaken>>
    BY <1>1 DEF Insert, UseMouse, UpgradeFails, Subscribe, context, history
  <2> QED
    BY <1>0, <2>1, OneGoes, OthersSeen DEF Busy, ReportSteps
<1>2. CASE Release(r) \/ DropDevice(r)
  <2>1. /\ request[r].pc \in {"release", "stop"}
        /\ Goes(r, "stop") \/ Done(r)
        /\ UNCHANGED <<kind, current_inputs, last_report_id, given, shown,
                       reports, returned, overtaken>>
    BY <1>2 DEF Release, DropDevice, context, history
  <2>2. ~Busy(r)
    BY <2>1 DEF Busy, ReportSteps
  <2>3. CASE Goes(r, "stop")
    BY <1>0, <2>1, <2>2, <2>3, OneGoes, OthersSeen DEF ReportSteps
  <2>4. CASE Done(r)
    <3>1. PICK x \in Without : request' = [request EXCEPT ![r] = x]
      BY <2>4, DoneFacts
    <3>2. x.pc \notin ReportSteps
      BY DEF Without, ReportSteps
    <3> QED
      BY <1>0, <2>1, <2>2, <3>1, <3>2, OneRequest, OthersSeen
  <2> QED
    BY <2>1, <2>3, <2>4
<1> QED
  BY <1>1, <1>2, SubmitSeen, CacheInputSeen, SetLastReportIdSeen, GamepadSeen,
     SendSnapshotSeen
  DEF Handler

LEMMA RequestSeen ==
    ASSUME SeenOK, RequestOK', NEW r \in Requests, NEW d \in Devices,
           \/ Create(r, d)
           \/ Destroy(r, d)
           \/ \E pc \in {"subscribe", "release", "mouse"} : GetFor(r, d, pc)
    PROVE  SeenOK'
<1>1. /\ r \in Threads
      /\ request[r] = Idle
      /\ UNCHANGED <<kind, current_inputs, last_report_id, given, shown,
                     reports, returned, overtaken>>
  BY DEF Create, Destroy, GetFor, Serving, Threads, context, history
<1>2. RequestOK /\ ~Busy(r)
  BY <1>1 DEF SeenOK, Numbered, Busy, Idle, ReportSteps
<1>3. CASE UNCHANGED request
  BY <1>1, <1>3, OthersSeen
<1>4. ASSUME NEW pc \in {"insert", "subscribe", "release", "mouse"},
             request' = [request EXCEPT ![r] = Holding(pc, d)]
      PROVE  SeenOK'
  <2>1. Holding(pc, d).pc \notin ReportSteps
    BY DEF Holding, ReportSteps
  <2> QED
    BY <1>1, <1>2, <1>4, <2>1, OneRequest, OthersSeen
<1>5. CASE Create(r, d) \/ Destroy(r, d)
  BY <1>3, <1>4, <1>5 DEF Create, Destroy
<1>6. CASE \E pc \in {"subscribe", "release", "mouse"} : GetFor(r, d, pc)
  BY <1>4, <1>6 DEF GetFor
<1> QED
  BY <1>5, <1>6

LEMMA MainSeen ==
    ASSUME SeenOK, RequestOK', MainThread
    PROVE  SeenOK'
<1>1. /\ Main \in Threads
      /\ UNCHANGED <<kind, current_inputs, last_report_id, given, shown,
                     reports, returned, overtaken>>
  BY DEF MainThread, Shutdown, ClearOne, Cleared, DropManager, Threads, context,
         history
<1>2. RequestOK /\ ~Busy(Main)
  BY DEF SeenOK, Numbered, Busy, Idle, ReportSteps, MainThread, Shutdown, ClearOne,
         Cleared, DropManager
<1>3. CASE Shutdown
  <2>1. [pc |-> "clear"].pc \notin ReportSteps
    BY DEF ReportSteps
  <2> QED
    BY <1>1, <1>2, <1>3, <2>1, OneRequest, OthersSeen DEF Shutdown
<1>4. CASE ClearOne
  <2>1. PICK d \in Devices : request' = [request EXCEPT ![Main] = Holding("release", d)]
    BY <1>4 DEF ClearOne
  <2>2. Holding("release", d).pc \notin ReportSteps
    BY DEF Holding, ReportSteps
  <2> QED
    BY <1>1, <1>2, <2>1, <2>2, OneRequest, OthersSeen
<1>5. CASE Cleared \/ DropManager
  <2>1. Goes(Main, "runtime") \/ Goes(Main, "clear")
    BY <1>5 DEF Cleared, DropManager
  <2> QED
    BY <1>1, <1>2, <2>1, OneGoes, OthersSeen DEF ReportSteps
<1> QED
  BY <1>3, <1>4, <1>5 DEF MainThread

LEMMA StepSeen ==
    ASSUME SeenOK, RequestOK', [Next]_vars
    PROVE  SeenOK'
<1>1. ASSUME NEW r \in Requests, NEW d \in Devices,
             \E pc \in {"subscribe", "release"}
                       \cup IF kind[d] = "Mouse" THEN {"mouse"} ELSE {} : GetFor(r, d, pc)
      PROVE  SeenOK'
  <2>1. \E pc \in {"subscribe", "release", "mouse"} : GetFor(r, d, pc)
    BY <1>1
  <2> QED
    BY <2>1, RequestSeen
<1>2. CASE /\ UNCHANGED <<request, kind, current_inputs, last_report_id, given,
                         reports, returned, overtaken>>
           /\ UNCHANGED shown
  BY <1>2, OthersSeen
<1>3. ASSUME NEW d \in Devices, CallBack(d) \/ SendEvent(d)
      PROVE  SeenOK'
  BY <1>2, <1>3 DEF CallBack, SendEvent, context, history
<1>4. ASSUME NEW s \in Sockets, Feed(s) \/ Disconnects(s)
      PROVE  SeenOK'
  BY <1>2, <1>4 DEF Feed, Lagged, Forward, Sent, Closed, Disconnects, context, history
<1>5. CASE UNCHANGED vars
  BY <1>2, <1>5 DEF vars, context, history
<1> QED
  BY <1>1, <1>3, <1>4, <1>5, HandlerSeen, RequestSeen, GetForReportSeen, MainSeen
  DEF Next

LEMMA InitSeen == Init => SeenOK
<1> SUFFICES ASSUME Init PROVE SeenOK
  OBVIOUS
<1>1. RequestOK
  BY InitOwned DEF Owned
<1>2. \A r \in Threads : request[r].pc = "idle"
  BY DEF Init, Idle
<1>3. Numbered
  BY <1>1, <1>2 DEF Init, Numbered, Busy, ReportSteps
<1>4. CacheOK
  BY <1>2 DEF Init, CacheOK, Busy, ReportSteps
<1>5. ShownOK
  BY <1>2 DEF Init, ShownOK, Locking, Busy, ReportSteps
<1> QED
  BY <1>3, <1>4, <1>5 DEF SeenOK

\* What a read gets, if there is a report for it.
LEMMA PickFacts ==
    ASSUME SeenOK, NEW d \in Devices, kind[d] = "Generic", NEW id \in ReportIds
    PROVE  LET found == pick_read_snapshot(d, id, 1)
               ids == IF id # 0 THEN {id} ELSE last_report_id[d]
           IN  \/ /\ ids \cap DOMAIN current_inputs[d] = {}
                  /\ found = Zeros
               \/ \E i \in ids \cap DOMAIN current_inputs[d] :
                     /\ found = current_inputs[d][i]
                     /\ found \in Reports
                     /\ found.id = i /\ found.device = d
<1> DEFINE ids == IF id # 0 THEN {id} ELSE last_report_id[d]
           S == ids \cap DOMAIN current_inputs[d]
<1>1. CASE S = {}
  BY <1>1 DEF pick_read_snapshot
<1>2. CASE S # {}
  <2>1. pick_read_snapshot(d, id, 1) = current_inputs[d][CHOOSE i \in S : TRUE]
    BY <1>2 DEF pick_read_snapshot
  <2>2. PICK i \in S : i = CHOOSE j \in S : TRUE
    BY <1>2
  <2>3. i \in DOMAIN current_inputs[d]
    OBVIOUS
  <2>4. /\ current_inputs[d][i] \in Reports
        /\ current_inputs[d][i].id = i
        /\ current_inputs[d][i].device = d
    BY <2>3 DEF SeenOK, CacheOK
  <2> QED
    BY <2>1, <2>2, <2>4
<1> QED
  BY <1>1, <1>2

LEMMA SeenImplies == SeenOK => SeenIsCurrent
<1> SUFFICES ASSUME SeenOK PROVE SeenIsCurrent
  OBVIOUS
<1>0. /\ Zeros \notin Reports
      /\ returned \subseteq Reports /\ overtaken \subseteq returned
  BY WebAssumption DEF SeenOK, Numbered
<1>1. ASSUME NEW d \in Devices, kind[d] = "Generic", NEW id \in ReportIds
      PROVE  LET found == pick_read_snapshot(d, id, 1)
                 succeeded == {p \in returned : p.device = d /\ id \in {0, p.id}}
             IN  /\ id # 0 => found \notin overtaken
                 /\ found = Zeros => succeeded = {}
  <2> DEFINE found == pick_read_snapshot(d, id, 1)
             ids == IF id # 0 THEN {id} ELSE last_report_id[d]
  <2>1. \/ /\ ids \cap DOMAIN current_inputs[d] = {}
           /\ found = Zeros
        \/ \E i \in ids \cap DOMAIN current_inputs[d] :
              /\ found = current_inputs[d][i]
              /\ found \in Reports
              /\ found.id = i /\ found.device = d
    BY <1>1, PickFacts
  <2> HIDE DEF found
  <2>2. ASSUME found \in overtaken PROVE FALSE
    <3>1. PICK i \in DOMAIN current_inputs[d] :
              found = current_inputs[d][i] /\ found.id = i /\ found.device = d
      BY <1>0, <2>1, <2>2
    <3>2. current_inputs[d][found.id] # found
      BY <1>1, <2>2, <3>1 DEF SeenOK, CacheOK
    <3> QED
      BY <3>1, <3>2
  <2>3. ASSUME found = Zeros, NEW p \in returned, p.device = d, id \in {0, p.id}
        PROVE  FALSE
    <3>1. ids \cap DOMAIN current_inputs[d] = {}
      BY <1>0, <2>1, <2>3
    <3>2. p.id \in DOMAIN current_inputs[d] /\ last_report_id[d] # {}
      BY <1>1, <2>3 DEF SeenOK, CacheOK
    <3>3. last_report_id[d] \subseteq DOMAIN current_inputs[d]
      BY <1>1 DEF SeenOK, CacheOK
    <3> QED
      BY <2>3, <3>1, <3>2, <3>3
  <2> QED
    BY <2>2, <2>3 DEF found
<1>2. ASSUME NEW d \in Devices, kind[d] = "Gamepad", ~ReportLocked(d)
      PROVE  shown[d] = given[d]
  <2>1. ASSUME NEW r \in Threads, Locking(r, d) PROVE FALSE
    <3>1. request[r] \in Input
      BY <2>1, Shapes DEF SeenOK, Numbered, RequestOK, Locking, ReportSteps
    <3>2. HoldsClone(r, d) /\ Locks(r)
      BY <2>1, <3>1, Shapes DEF Locking, HoldsClone, Locks
    <3> QED
      BY <1>2, <3>2 DEF ReportLocked
  <2> QED
    BY <1>2, <2>1 DEF SeenOK, ShownOK
<1> QED
  BY <1>1, <1>2 DEF SeenIsCurrent

\* What is seen of the input is up to date, however requests, reads and
\* shutdown interleave.
THEOREM InputSeenIsCurrent == Spec => []SeenIsCurrent
<1>1. Init => SeenOK
  BY InitSeen
<1>2. SeenOK /\ (Owned /\ ReportsOK)' /\ [Next]_vars => SeenOK'
  BY StepSeen DEF Owned
<1> QED
  BY <1>1, <1>2, OwnedAlways, SeenImplies, PTL DEF Spec

=============================================================================
