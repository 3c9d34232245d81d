-------------------------- MODULE WinUHidSetup_proofs --------------------------
(***************************************************************************)
(* Proofs about the setup of a file, for any width of ULONG, any depth of  *)
(* the parser's stack, any descriptors and any memory behind the hardware  *)
(* ids: the sums of the parser do not overflow, the sizes it makes of them *)
(* are those the descriptor declares, one hardware id is measured as the   *)
(* driver wants it, and with one IOCTL at a time the device is created     *)
(* from what was accepted and stays what it was created from.              *)
(***************************************************************************)
EXTENDS WinUHidSetup, SequenceTheorems, FiniteSetTheorems, TLAPS

-----------------------------------------------------------------------------
(* Types of the parser                                                     *)

\* The rounding to bytes makes a number of bits no larger than one more.
LEMMA RoundingBounded ==
    ASSUME NEW n \in 1..ULongMax, NEW numbered \in BOOLEAN
    PROVE  PostProcessReportSize(n, numbered) \in 0..(ULongMax + 1)
<1>1. ULongMax \in Nat
  BY DescriptorAssumption
<1>2. /\ n \div 8 \in Nat
      /\ n % 8 \in 0..7
      /\ n = 8 * (n \div 8) + (n % 8)
  BY <1>1
<1>3. (n \div 8) + (IF n % 8 # 0 THEN 1 ELSE 0) \in 1..n
  BY <1>1, <1>2
<1> DEFINE bytes == (n \div 8) + (IF n % 8 # 0 THEN 1 ELSE 0)
<1>4. bytes + (IF numbered THEN 1 ELSE 0) \in 0..(ULongMax + 1)
  <2> HIDE DEF bytes
  <2>1. bytes \in 1..n
    BY <1>3 DEF bytes
  <2> QED
    BY <1>1, <2>1
<1> QED
  BY <1>4 DEF PostProcessReportSize

\* The items of a type that carries data are those that set a global item.
LEMMA ItemFacts ==
    ASSUME NEW item \in Items
    PROVE  /\ item.type = "main" => item.tag \in Kinds \cup {"Collection"}
           /\ item.type = "global"
              /\ item.tag \in {"ReportSize", "ReportCount", "ReportId"}
              => item.data \in 0..ULongMax
<1>1. item \in ItemType
  BY DescriptorAssumption
<1>2. CASE item \in [type : {"main"}, tag : Kinds \cup {"Collection"}]
  BY <1>2
<1>3. CASE item \in [type : {"global"},
                     tag : {"ReportSize", "ReportId", "ReportCount"},
                     data : 0..ULongMax]
  BY <1>3
<1>4. CASE item \in [type : {"global"}, tag : {"Push", "Pop"}]
  BY <1>4
<1>5. CASE item \in [type : {"skipped", "truncated"}]
  BY <1>5
<1> QED
  BY <1>1, <1>2, <1>3, <1>4, <1>5 DEF ItemType

\* A global item that is set leaves a frame.
LEMMA SetFrame ==
    ASSUME NEW frame \in Frame, NEW data \in 0..ULongMax,
           NEW tag \in {"ReportSize", "ReportCount", "ReportId"},
           tag = "ReportId" => data \in ReportIds
    PROVE  [frame EXCEPT ![tag] = data] \in Frame
<1>1. CASE tag = "ReportSize"
  BY <1>1 DEF Frame
<1>2. CASE tag = "ReportCount"
  BY <1>2 DEF Frame
<1>3. CASE tag = "ReportId"
  BY <1>3 DEF Frame
<1> QED
  BY <1>1, <1>2, <1>3

LEMMA CurrentFrame == DescriptorTypeOK => Current \in Frame
<1> SUFFICES ASSUME DescriptorTypeOK PROVE Current \in Frame
  OBVIOUS
<1>1. frames \in Seq(Frame) /\ Len(frames) \in 1..Len(frames)
  BY DescriptorAssumption DEF DescriptorTypeOK
<1> QED
  BY <1>1, ElementOfSeq DEF Current

LEMMA ProductIsNatural ==
    ASSUME NEW a \in Nat, NEW b \in Nat
    PROVE  a * b \in Nat
  OBVIOUS

LEMMA ReportDataBitsNatural == DescriptorTypeOK => ReportDataBits \in Nat
<1> SUFFICES ASSUME DescriptorTypeOK PROVE ReportDataBits \in Nat
  OBVIOUS
<1>1. Current.ReportSize \in Nat /\ Current.ReportCount \in Nat
  BY CurrentFrame, DescriptorAssumption DEF Frame
<1> QED
  BY <1>1, ProductIsNatural DEF ReportDataBits

\* Until they are rounded the sums of bits fit in a ULONG.
SumsFit ==
    parser # "done" => ReportSizes \in [Kinds -> [ReportIds -> 0..ULongMax]]

\* The frames of every item that is not refused.
LEMMA FramesType ==
    ASSUME DescriptorTypeOK, NEW item \in Items,
           SetGlobalItem(item) \/ PushFrame(item) \/ PopFrame(item)
    PROVE  /\ frames' \in Seq(Frame)
           /\ Len(frames') \in 1..MaxFrames
<1>1. /\ frames \in Seq(Frame)
      /\ Len(frames) \in 1..MaxFrames
      /\ MaxFrames \in Nat
      /\ frames[Len(frames)] \in Frame
  BY CurrentFrame, DescriptorAssumption DEF DescriptorTypeOK, Current
<1>2. CASE SetGlobalItem(item)
  <2> DEFINE set == [frames[Len(frames)] EXCEPT ![item.tag] = item.data]
  <2>1. set \in Frame
    BY <1>1, <1>2, ItemFacts, SetFrame DEF SetGlobalItem
  <2>2. frames' = [frames EXCEPT ![Len(frames)] = set]
    BY <1>2 DEF SetGlobalItem
  <2> HIDE DEF set
  <2>3. Len(frames) \in 1..Len(frames)
    BY <1>1
  <2> QED
    BY <1>1, <2>1, <2>2, <2>3, ExceptSeq
<1>3. CASE PushFrame(item)
  BY <1>1, <1>3 DEF PushFrame, Current
<1>4. CASE PopFrame(item)
  <2>1. /\ frames' = SubSeq(frames, 1, Len(frames) - 1)
        /\ Len(frames) > 1
    BY <1>4 DEF PopFrame
  <2>2. \A i \in 1..(Len(frames) - 1) : frames[i] \in Frame
    BY <1>1, ElementOfSeq
  <2>3. Len(frames) - 1 \in Int /\ 1 \in Int
    BY <1>1
  <2>4. /\ SubSeq(frames, 1, Len(frames) - 1) \in Seq(Frame)
        /\ Len(SubSeq(frames, 1, Len(frames) - 1))
              = IF 1 <= Len(frames) - 1 THEN Len(frames) - 1 - 1 + 1 ELSE 0
    BY <2>2, <2>3, SubSeqProperties
  <2> QED
    BY <1>1, <2>1, <2>4
<1> QED
  BY <1>2, <1>3, <1>4

\* The sums of every item: ULongAdd leaves ULongMax in one that overflows.
LEMMA SumsType ==
    ASSUME DescriptorTypeOK, SumsFit, parser = "items",
           NEW item \in Items,
           AddMainItem(item) \/ RefuseItem(item)
    PROVE  ReportSizes' \in [Kinds -> [ReportIds -> 0..ULongMax]]
<1>1. /\ ReportSizes \in [Kinds -> [ReportIds -> 0..ULongMax]]
      /\ ULongMax \in Nat
      /\ Current.ReportId \in ReportIds
      /\ ReportDataBits \in Nat
  BY CurrentFrame, ReportDataBitsNatural, DescriptorAssumption DEF SumsFit, Frame
<1> DEFINE kind == item.tag
           id   == Current.ReportId
           sum  == ReportSizes[kind][id] + ReportDataBits
<1>2. CASE ReportSizes' = ReportSizes
  BY <1>1, <1>2
<1>3. ASSUME NEW n \in 0..ULongMax, kind \in Kinds,
             ReportSizes' = [ReportSizes EXCEPT ![kind][id] = n]
      PROVE  ReportSizes' \in [Kinds -> [ReportIds -> 0..ULongMax]]
  BY <1>1, <1>3
<1>4. CASE AddMainItem(item) /\ item.tag \in Kinds
  <2>1. sum <= ULongMax /\ ReportSizes' = [ReportSizes EXCEPT ![kind][id] = sum]
    BY <1>4 DEF AddMainItem
  <2>2. ReportSizes[kind][id] \in 0..ULongMax
    BY <1>1, <1>4
  <2>3. sum \in 0..ULongMax
    BY <1>1, <2>1, <2>2
  <2> QED
    BY <1>3, <1>4, <2>1, <2>3
<1>5. CASE RefuseItem(item) /\ ReportSizes' # ReportSizes
  <2>1. /\ kind \in Kinds
        /\ ReportSizes' = [ReportSizes EXCEPT ![kind][id] = ULongMax]
    BY <1>5 DEF RefuseItem
  <2> QED
    BY <1>1, <1>3, <2>1
<1> QED
  BY <1>2, <1>4, <1>5 DEF AddMainItem

LEMMA ReadItemTypes ==
    ASSUME DescriptorTypeOK, SumsFit, NEW item \in Items, ReadItem(item)
    PROVE  DescriptorTypeOK' /\ SumsFit'
<1>1. items' \in Seq(Items) /\ parser = "items"
  BY DEF ReadItem, DescriptorTypeOK
<1>2. parser' \in {"items", "failed"}
  BY <1>1 DEF ReadItem, SetGlobalItem, PushFrame, PopFrame, AddMainItem,
              SkipItem, RefuseItem
<1>3. /\ frames' \in Seq(Frame)
      /\ Len(frames') \in 1..MaxFrames
  <2>1. CASE SetGlobalItem(item) \/ PushFrame(item) \/ PopFrame(item)
    BY <2>1, FramesType
  <2>2. CASE frames' = frames
    BY <2>2 DEF DescriptorTypeOK
  <2> QED
    BY <2>1, <2>2 DEF ReadItem, AddMainItem, SkipItem, RefuseItem
<1>4. ReportSizes' \in [Kinds -> [ReportIds -> 0..ULongMax]]
  <2>1. CASE AddMainItem(item) \/ RefuseItem(item)
    BY <1>1, <2>1, SumsType
  <2>2. CASE ReportSizes' = ReportSizes
    BY <1>1, <2>2 DEF SumsFit
  <2> QED
    BY <2>1, <2>2 DEF ReadItem, SetGlobalItem, PushFrame, PopFrame, SkipItem
<1>5. ReportSizes' \in [Kinds -> [ReportIds -> 0..(ULongMax + 1)]]
  BY <1>4, DescriptorAssumption
<1>6. NumberedReports' \in BOOLEAN
  BY DEF ReadItem, SetGlobalItem, PushFrame, PopFrame, AddMainItem, SkipItem,
         RefuseItem, DescriptorTypeOK
<1> QED
  BY <1>1, <1>2, <1>3, <1>4, <1>5, <1>6 DEF DescriptorTypeOK, SumsFit

LEMMA EndParseTypes ==
    ASSUME DescriptorTypeOK, SumsFit, EndParse
    PROVE  DescriptorTypeOK' /\ SumsFit'
<1>1. /\ ReportSizes \in [Kinds -> [ReportIds -> 0..ULongMax]]
      /\ ULongMax \in Nat
      /\ NumberedReports \in BOOLEAN
  BY DescriptorAssumption DEF EndParse, SumsFit, DescriptorTypeOK
<1>2. ASSUME NEW kind \in Kinds, NEW id \in ReportIds
      PROVE  (IF ReportSizes[kind][id] = 0 THEN 0
              ELSE PostProcessReportSize(ReportSizes[kind][id], NumberedReports))
             \in 0..(ULongMax + 1)
  <2>1. ReportSizes[kind][id] \in 0..ULongMax
    BY <1>1
  <2>2. CASE ReportSizes[kind][id] = 0
    BY <1>1, <2>2
  <2>3. CASE ReportSizes[kind][id] # 0
    <3>1. ReportSizes[kind][id] \in 1..ULongMax
      BY <1>1, <2>1, <2>3
    <3> QED
      BY <1>1, <2>3, <3>1, RoundingBounded
  <2> QED
    BY <2>2, <2>3
<1>3. ReportSizes' \in [Kinds -> [ReportIds -> 0..(ULongMax + 1)]]
  BY <1>2 DEF EndParse
<1> QED
  BY <1>3 DEF EndParse, DescriptorTypeOK, SumsFit

\* What the other actions make of the descriptor: nothing, or a fresh one.
LEMMA FreshDescriptorTypes ==
    ASSUME DescriptorTypeOK, SumsFit,
           BeginParse \/ ResetDescriptor \/ UNCHANGED descriptor
    PROVE  DescriptorTypeOK' /\ SumsFit'
<1>1. CASE UNCHANGED descriptor
  BY <1>1 DEF descriptor, DescriptorTypeOK, SumsFit
<1>2. CASE BeginParse \/ ResetDescriptor
  <2>1. ZeroSizes \in [Kinds -> [ReportIds -> 0..ULongMax]]
    BY DescriptorAssumption DEF ZeroSizes
  <2>2. ZeroSizes \in [Kinds -> [ReportIds -> 0..(ULongMax + 1)]]
    BY DescriptorAssumption DEF ZeroSizes
  <2>3. ZeroFrame \in Frame
    BY DescriptorAssumption DEF ZeroFrame, Frame
  <2>4. <<ZeroFrame>> \in Seq(Frame) /\ Len(<<ZeroFrame>>) \in 1..MaxFrames
    BY <2>3, DescriptorAssumption
  <2>5. /\ parser' \in {"none", "items"}
        /\ items' = <<>>
        /\ frames' = <<ZeroFrame>>
        /\ ReportSizes' = ZeroSizes
        /\ NumberedReports' = FALSE
    BY <1>2 DEF BeginParse, ResetDescriptor
  <2>6. items' \in Seq(Items)
    BY <2>5, EmptySeq
  <2> QED
    BY <2>1, <2>2, <2>4, <2>5, <2>6 DEF DescriptorTypeOK, SumsFit
<1> QED
  BY <1>1, <1>2

\* What the actions make of the descriptor.
LEMMA DescriptorSteps ==
    ASSUME [Next]_vars
    PROVE  \/ BeginParse
           \/ ResetDescriptor
           \/ EndParse
           \/ \E item \in Items : ReadItem(item)
           \/ UNCHANGED descriptor
<1>1. CASE SetReportDescriptor \/ CloseFile \/ ReportDescriptorParsed
           \/ ParseReportDescriptor
  BY <1>1 DEF SetReportDescriptor, CloseFile, ReportDescriptorParsed,
              ParseReportDescriptor
<1>2. CASE SetDeviceInfo \/ CreateDevice
  BY <1>2 DEF SetDeviceInfo, CreateDevice
<1>3. CASE SetInstanceId \/ SetHardwareIds
  BY <1>3 DEF SetInstanceId, SetHardwareIds, SetBuffer
<1>4. CASE \/ RefuseReportDescriptor \/ WinUHidCreateDevice \/ OpenFile
           \/ \E buffer \in Buffers : SkipBuffer(buffer)
           \/ GiveHardwareIds \/ MultiSzWcsLen \/ MultiSzWcsLenFaults
           \/ UNCHANGED vars
  BY <1>4 DEF RefuseReportDescriptor, WinUHidCreateDevice, OpenFile, SkipBuffer,
              GiveHardwareIds, MultiSzWcsLen, MultiSzWcsLenFaults,
              vars, fileContext
<1> QED
  BY <1>1, <1>2, <1>3, <1>4 DEF Next

LEMMA DescriptorTypes ==
    DescriptorTypeOK /\ SumsFit /\ [Next]_vars => DescriptorTypeOK' /\ SumsFit'
  BY DescriptorSteps, FreshDescriptorTypes, EndParseTypes, ReadItemTypes

-----------------------------------------------------------------------------
(* Types of the file                                                       *)

\* What an IOCTL makes of its caller.
LEMMA ReturnsFacts ==
    ASSUME caller \in Callers, NEW stage \in Stages, NEW status,
           NEW valid \in BOOLEAN, Returns(stage, status, valid)
    PROVE  /\ caller' \in Callers
           /\ caller.pc = "direct" => caller' = caller
           /\ caller.pc # "direct" =>
              /\ caller'.pc = IF status = "success" THEN After(stage) ELSE "failed"
              /\ caller'.valid <=> caller.valid /\ valid
              /\ caller'.starved <=> caller.starved \/ status = "starved"
<1>1. CASE caller.pc = "direct"
  BY <1>1 DEF Returns
<1>2. CASE caller.pc # "direct"
  <2> DEFINE v == caller.valid /\ valid
             w == caller.starved \/ status = "starved"
             pc == IF status = "success" THEN After(stage) ELSE "failed"
  <2>1. caller' = [pc |-> pc, valid |-> v, starved |-> w]
    BY <1>2 DEF Returns, Caller
  <2>2. pc \in Stages \cup {"device", "failed"}
    BY DEF After, Stages
  <2>3. v \in BOOLEAN /\ w \in BOOLEAN
    OBVIOUS
  <2>4. /\ caller' \in Callers
        /\ caller'.pc = pc
        /\ caller'.valid = v
        /\ caller'.starved = w
    <3> HIDE DEF v, w, pc
    <3> QED
      BY <2>1, <2>2, <2>3 DEF Callers
  <2> QED
    BY <1>2, <2>4
<1> QED
  BY <1>1, <1>2

\* WinUHidCreateDevice fails, for what it passed or for want of something.
LEMMA FailureFacts ==
    ASSUME caller \in Callers, caller.pc # "direct", NEW stage \in Stages,
           NEW valid \in BOOLEAN
    PROVE  /\ Returns(stage, "refused", valid) /\ ~valid
              => caller'.pc = "failed" /\ ~caller'.valid
           /\ Returns(stage, "starved", valid)
              => caller'.pc = "failed" /\ caller'.starved
<1>1. ASSUME NEW pc, NEW v, NEW w, caller' = Caller(pc, v, w)
      PROVE  caller'.pc = pc /\ caller'.valid = v /\ caller'.starved = w
  BY <1>1 DEF Caller
<1>2. ASSUME Returns(stage, "refused", valid), ~valid
      PROVE  caller'.pc = "failed" /\ ~caller'.valid
  <2> DEFINE v == caller.valid /\ valid
             w == caller.starved \/ "refused" = "starved"
  <2>1. caller' = Caller("failed", v, w)
    BY <1>2 DEF Returns
  <2>2. ~v
    BY <1>2
  <2> HIDE DEF v, w
  <2>3. caller'.pc = "failed" /\ caller'.valid = v
    BY <1>1, <2>1
  <2> QED
    BY <2>2, <2>3
<1>3. ASSUME Returns(stage, "starved", valid)
      PROVE  caller'.pc = "failed" /\ caller'.starved
  <2> DEFINE v == caller.valid /\ valid
             w == caller.starved \/ "starved" = "starved"
  <2>1. caller' = Caller("failed", v, w)
    BY <1>3 DEF Returns
  <2>2. w
    OBVIOUS
  <2> HIDE DEF v, w
  <2>3. caller'.pc = "failed" /\ caller'.starved = w
    BY <1>1, <2>1
  <2> QED
    BY <2>2, <2>3
<1> QED
  BY <1>2, <1>3

LEMMA CallerStages ==
    /\ "info" \in Stages
    /\ "ReportDescriptor" \in Stages
    /\ "create" \in Stages
    /\ Buffers \subseteq Stages
    /\ After("info") = "ReportDescriptor"
    /\ After("ReportDescriptor") = "InstanceID"
    /\ After("InstanceID") = "HardwareIDs"
    /\ After("HardwareIDs") = "create"
    /\ After("create") = "device"
  BY DEF Stages, Buffers, After

LEMMA CallerTypes == caller \in Callers /\ [Next]_vars => caller' \in Callers
<1> SUFFICES ASSUME caller \in Callers, [Next]_vars PROVE caller' \in Callers
  OBVIOUS
<1>1. CASE SetDeviceInfo
  <2>1. PICK e \in Events :
           \/ Returns("info", "refused", Unknown \notin e)
           \/ Returns("info", "success", TRUE)
    BY <1>1 DEF SetDeviceInfo
  <2> QED
    BY <2>1, ReturnsFacts, CallerStages
<1>2. CASE RefuseReportDescriptor \/ ReportDescriptorParsed
  BY <1>2, ReturnsFacts, CallerStages
  DEF RefuseReportDescriptor, ReportDescriptorParsed
<1>3. CASE ParseReportDescriptor
  BY <1>3, ReturnsFacts, CallerStages DEF ParseReportDescriptor
<1>4. ASSUME NEW buffer \in Buffers, NEW wellFormed \in BOOLEAN,
             NEW valid \in BOOLEAN, SetBuffer(buffer, wellFormed, valid)
      PROVE  caller' \in Callers
  BY <1>4, ReturnsFacts, CallerStages DEF SetBuffer
<1>5. CASE SetInstanceId \/ SetHardwareIds
  <2>1. CASE SetInstanceId
    BY <1>4, <2>1 DEF SetInstanceId, Buffers
  <2>2. CASE SetHardwareIds
    <3>1. PICK wellFormed \in BOOLEAN, valid \in BOOLEAN :
                   SetBuffer("HardwareIDs", wellFormed, valid)
      BY <2>2 DEF SetHardwareIds, MultiSz
    <3> QED
      BY <1>4, <3>1 DEF Buffers
  <2> QED
    BY <1>5, <2>1, <2>2
<1>6. CASE CreateDevice
  BY <1>6, ReturnsFacts, CallerStages DEF CreateDevice
<1>7. CASE WinUHidCreateDevice \/ OpenFile \/ CloseFile
  <2>1. ASSUME NEW pc \in {"info", "failed", "direct", "idle"},
               NEW valid \in BOOLEAN, NEW starved \in BOOLEAN
        PROVE  Caller(pc, valid, starved) \in Callers
    BY DEF Caller, Callers, Stages
  <2>2. PICK pc \in {"info", "failed", "direct", "idle"},
             valid \in BOOLEAN, starved \in BOOLEAN :
                 caller' = Caller(pc, valid, starved)
    BY <1>7 DEF WinUHidCreateDevice, OpenFile, CloseFile
  <2> QED
    BY <2>1, <2>2
<1>8. CASE \E buffer \in Buffers : SkipBuffer(buffer)
  <2>1. PICK buffer \in Buffers : SkipBuffer(buffer)
    BY <1>8
  <2>2. After(buffer) \in Stages
    BY CallerStages DEF Buffers, Stages
  <2> QED
    BY <2>1, <2>2 DEF SkipBuffer, Callers
<1>9. CASE SetReportDescriptor \/ GiveHardwareIds \/ MultiSzWcsLen \/ UNCHANGED vars
  BY <1>9 DEF SetReportDescriptor, GiveHardwareIds, MultiSzWcsLen, vars
<1>10. CASE MultiSzWcsLenFaults
  BY <1>10 DEF MultiSzWcsLenFaults, Caller, Callers, MultiSz
<1> QED
  BY <1>1, <1>2, <1>3, <1>5, <1>6, <1>7, <1>8, <1>9, <1>10 DEF Next

\* The configuration changes by the IOCTLs that set it and by the close.
LEMMA ConfigurationTypes ==
    TypeOK /\ [Next]_vars =>
        /\ DeviceInfo' \in {<<>>} \cup {<<events>> : events \in Events}
        /\ VhfConfig' \subseteq Buffers
        /\ VhfHandle' \in BOOLEAN
        /\ early' \in BOOLEAN
<1> SUFFICES ASSUME TypeOK, [Next]_vars
             PROVE  /\ DeviceInfo' \in {<<>>} \cup {<<events>> : events \in Events}
                    /\ VhfConfig' \subseteq Buffers
                    /\ VhfHandle' \in BOOLEAN
                    /\ early' \in BOOLEAN
  OBVIOUS
<1>1. CASE SetDeviceInfo
  BY <1>1 DEF SetDeviceInfo, TypeOK
<1>2. CASE SetInstanceId \/ SetHardwareIds
  BY <1>2 DEF SetInstanceId, SetHardwareIds, SetBuffer, TypeOK, Buffers
<1>3. CASE CreateDevice
  BY <1>3 DEF CreateDevice, TypeOK
<1>4. CASE CloseFile
  BY <1>4 DEF CloseFile
<1>5. CASE SetReportDescriptor \/ ParseReportDescriptor \/ ReportDescriptorParsed
  BY <1>5 DEF SetReportDescriptor, ParseReportDescriptor,
              ReportDescriptorParsed, TypeOK
<1>6. CASE \/ RefuseReportDescriptor \/ WinUHidCreateDevice \/ OpenFile
           \/ \E buffer \in Buffers : SkipBuffer(buffer)
           \/ GiveHardwareIds \/ MultiSzWcsLen \/ MultiSzWcsLenFaults
           \/ UNCHANGED vars
  BY <1>6 DEF RefuseReportDescriptor, WinUHidCreateDevice, OpenFile, SkipBuffer,
              GiveHardwareIds, MultiSzWcsLen, MultiSzWcsLenFaults,
              vars, fileContext, TypeOK
<1> QED
  BY <1>1, <1>2, <1>3, <1>4, <1>5, <1>6 DEF Next

\* Every set of naturals that is not empty has a least element.
LEMMA LeastNatural ==
    ASSUME NEW T, T \subseteq Nat, T # {}
    PROVE  \E m \in T : \A k \in T : m <= k
<1>1. PICK n \in T : n \in Nat
  OBVIOUS
<1> DEFINE below == {(0 .. k) : k \in {k \in T : k <= n}}
<1>2. below # {} /\ below \subseteq FiniteSubsetsOf(0 .. n)
  <2>1. \A k \in T : k <= n => 0 .. k \in SUBSET (0 .. n) /\ IsFiniteSet(0 .. k)
    BY <1>1, FS_Interval
  <2> QED
    BY <1>1, <2>1 DEF FiniteSubsetsOf
<1>3. PICK s \in below : \A t \in below : <<t, s>> \notin StrictSubsetOrdering(0 .. n)
  <2> HIDE DEF below
  <2> QED
    BY <1>2, FS_StrictSubsetOrderingWellFounded, WFMin
<1>4. PICK m \in T : m <= n /\ s = 0 .. m
  OBVIOUS
<1>5. ASSUME NEW k \in T, k < m PROVE FALSE
  <2>1. 0 .. k \in below /\ k <= n
    BY <1>1, <1>4, <1>5
  <2>2. 0 .. k \subseteq 0 .. m /\ 0 .. k # 0 .. m
    <3>1. m \in 0 .. m /\ m \notin 0 .. k
      BY <1>4, <1>5
    <3> QED
      BY <1>5, <3>1
  <2>3. 0 .. k \subseteq 0 .. n /\ 0 .. m \subseteq 0 .. n
    BY <1>1, <1>4, <2>1
  <2> QED
    BY <1>3, <1>4, <2>1, <2>2, <2>3 DEF StrictSubsetOrdering
<1> QED
  BY <1>5

\* The least position of a null from at on.
LEMMA MeasuredString ==
    ASSUME NEW nulls \in Lists, NEW at \in Nat, \E n \in nulls : n > at
    PROVE  /\ wcslen(nulls, at) \in Nat
           /\ at + wcslen(nulls, at) \in nulls
           /\ \A n \in nulls : n >= at => at + wcslen(nulls, at) <= n
<1> DEFINE ahead == {n \in nulls : n >= at}
<1>1. nulls \subseteq Nat
  BY SetupAssumption
<1>2. ahead \subseteq Nat /\ ahead # {}
  <2>1. PICK n \in nulls : n > at
    OBVIOUS
  <2>2. n \in ahead
    BY <1>1, <2>1
  <2> QED
    BY <1>1, <2>2
<1>3. \E m \in ahead : \A k \in ahead : m <= k
  <2> HIDE DEF ahead
  <2> QED
    BY <1>2, LeastNatural
<1>4. Min(ahead) \in ahead /\ \A k \in ahead : Min(ahead) <= k
  BY <1>3 DEF Min
<1>5. wcslen(nulls, at) = Min(ahead) - at
  BY DEF wcslen
<1>6. PICK m \in ahead : m = Min(ahead) /\ \A k \in ahead : m <= k
  BY <1>4
<1> QED
  BY <1>1, <1>5, <1>6

\* What the loop over the hardware ids makes of what it measured.
LEMMA HardwareIdsSteps ==
    ASSUME HardwareIDs \in [nulls : Lists \cup {{}}, at : Nat, len : Nat],
           [Next]_vars
    PROVE  \/ UNCHANGED HardwareIDs
           \/ HardwareIDs' = NoIds
           \/ \E nulls \in Lists : HardwareIDs' = [NoIds EXCEPT !.nulls = nulls]
           \/ MultiSzWcsLen
<1>1. CASE \/ SetReportDescriptor \/ RefuseReportDescriptor
           \/ ParseReportDescriptor \/ ReportDescriptorParsed
           \/ SetDeviceInfo \/ CreateDevice
  BY <1>1 DEF SetReportDescriptor, RefuseReportDescriptor,
              ParseReportDescriptor, ReportDescriptorParsed, SetDeviceInfo,
              CreateDevice
<1>2. CASE SetInstanceId \/ SetHardwareIds
  BY <1>2 DEF SetInstanceId, SetHardwareIds, SetBuffer
<1>3. CASE \/ WinUHidCreateDevice \/ OpenFile \/ CloseFile
           \/ \E buffer \in Buffers : SkipBuffer(buffer)
           \/ GiveHardwareIds \/ MultiSzWcsLen \/ MultiSzWcsLenFaults
           \/ UNCHANGED vars
  BY <1>3 DEF WinUHidCreateDevice, OpenFile, CloseFile, SkipBuffer,
              GiveHardwareIds, MultiSzWcsLenFaults, vars
<1> QED
  BY <1>1, <1>2, <1>3 DEF Next

LEMMA MeasureTypes ==
    ASSUME HardwareIDs \in [nulls : Lists \cup {{}}, at : Nat, len : Nat],
           [Next]_vars
    PROVE  HardwareIDs' \in [nulls : Lists \cup {{}}, at : Nat, len : Nat]
<1>1. CASE MultiSzWcsLen
  <2> DEFINE len == HardwareIDs.len + 1 + wcslen(HardwareIDs.nulls, HardwareIDs.at)
  <2>1. HardwareIDs' = [HardwareIDs EXCEPT !.len = len, !.at = @ + len]
    BY <1>1 DEF MultiSzWcsLen
  <2>2. HardwareIDs.nulls \in Lists /\ \E n \in HardwareIDs.nulls : n > HardwareIDs.at
    BY <1>1 DEF MultiSzWcsLen
  <2>3. len \in Nat
    BY <2>2, MeasuredString
  <2> HIDE DEF len
  <2>4. HardwareIDs' = [nulls |-> HardwareIDs.nulls, at |-> HardwareIDs.at + len,
                        len |-> len]
    BY <2>1
  <2>5. HardwareIDs.at + len \in Nat
    BY <2>3
  <2> QED
    BY <2>2, <2>3, <2>4, <2>5
<1>2. NoIds \in [nulls : Lists \cup {{}}, at : Nat, len : Nat]
  BY DEF NoIds
<1>3. \A nulls \in Lists :
          [NoIds EXCEPT !.nulls = nulls] \in [nulls : Lists \cup {{}}, at : Nat, len : Nat]
  BY DEF NoIds
<1> QED
  BY <1>1, <1>2, <1>3, HardwareIdsSteps

LEMMA InitTypes == Init => TypeOK /\ SumsFit
<1> SUFFICES ASSUME Init PROVE TypeOK /\ SumsFit
  OBVIOUS
<1>1. ZeroSizes \in [Kinds -> [ReportIds -> 0..ULongMax]]
  BY DescriptorAssumption DEF ZeroSizes
<1>2. ZeroSizes \in [Kinds -> [ReportIds -> 0..(ULongMax + 1)]]
  BY DescriptorAssumption DEF ZeroSizes
<1>3. ZeroFrame \in Frame
  BY DescriptorAssumption DEF ZeroFrame, Frame
<1>4. <<ZeroFrame>> \in Seq(Frame) /\ Len(<<ZeroFrame>>) \in 1..MaxFrames
  BY <1>3, DescriptorAssumption
<1>5. items \in Seq(Items)
  BY EmptySeq DEF Init, InitDescriptor
<1>6. DescriptorTypeOK /\ SumsFit
  BY <1>1, <1>2, <1>4, <1>5 DEF Init, InitDescriptor, DescriptorTypeOK, SumsFit
<1>7. caller \in Callers
  BY DEF Init, Caller, Callers
<1>8. HardwareIDs \in [nulls : Lists \cup {{}}, at : Nat, len : Nat]
  BY DEF Init, NoIds
<1> QED
  BY <1>6, <1>7, <1>8 DEF Init, TypeOK

LEMMA StepTypes == TypeOK /\ SumsFit /\ [Next]_vars => TypeOK' /\ SumsFit'
  BY DescriptorTypes, CallerTypes, ConfigurationTypes, MeasureTypes DEF TypeOK

\* Every variable has its type; in particular no sum of the parser leaves a
\* ULONG, and its stack stays within its array.
THEOREM SetupTypeCorrect == Spec => []TypeOK
<1>1. TypeOK /\ SumsFit => TypeOK
  OBVIOUS
<1> QED
  BY InitTypes, StepTypes, <1>1, PTL DEF Spec

-----------------------------------------------------------------------------
(* The stages of the setup                                                 *)

\* What the IOCTLs sent so far leave in the file.
StagesOK ==
    /\ VhfHandle => DeviceInfo # <<>>
    /\ VhfHandle /\ ~early => parser = "done"
    /\ early => caller.pc = "direct"
    /\ parser = "items" => caller.pc \in {"ReportDescriptor", "direct"}
    /\ caller.pc \in {"idle", "info"} =>
           parser = "none" /\ DeviceInfo = <<>> /\ VhfConfig = {}
    /\ caller.pc = "ReportDescriptor" =>
           parser \in {"none", "items"} /\ DeviceInfo # <<>> /\ VhfConfig = {}
    /\ caller.pc \in {"idle", "info", "ReportDescriptor"} => ~VhfHandle
    /\ caller.pc \in {"InstanceID", "HardwareIDs", "create"} =>
           parser = "done" /\ DeviceInfo # <<>> /\ ~VhfHandle
    /\ caller.pc = "InstanceID" => VhfConfig = {}
    /\ caller.pc = "HardwareIDs" => "HardwareIDs" \notin VhfConfig
    /\ caller.pc = "device" => VhfHandle
    /\ OneIdAccepted

\* A list of one id is measured in one round, which comes to its second null.
MeasureOK ==
    OneId(HardwareIDs.nulls) =>
        \/ HardwareIDs.at = 0 /\ HardwareIDs.len = 0
        \/ \E n \in HardwareIDs.nulls :
               /\ n > 0
               /\ n + 1 \in HardwareIDs.nulls
               /\ \A m \in HardwareIDs.nulls : n <= m
               /\ HardwareIDs.at = n + 1 /\ HardwareIDs.len = n + 1

LEMMA StepMeasure == TypeOK /\ MeasureOK /\ [Next]_vars => MeasureOK'
<1> SUFFICES ASSUME TypeOK, MeasureOK, [Next]_vars, OneId(HardwareIDs'.nulls)
             PROVE  MeasureOK'
  BY DEF MeasureOK
<1>1. CASE UNCHANGED HardwareIDs
  BY <1>1 DEF MeasureOK
<1>2. CASE \/ HardwareIDs' = NoIds
           \/ \E nulls \in Lists : HardwareIDs' = [NoIds EXCEPT !.nulls = nulls]
  BY <1>2 DEF MeasureOK, NoIds
<1>3. CASE MultiSzWcsLen
  <2> DEFINE len == HardwareIDs.len + 1 + wcslen(HardwareIDs.nulls, HardwareIDs.at)
  <2>1. /\ HardwareIDs' = [HardwareIDs EXCEPT !.len = len, !.at = @ + len]
        /\ HardwareIDs.nulls \in Lists
        /\ HardwareIDs.at \notin HardwareIDs.nulls
        /\ HardwareIDs \in [nulls : Lists \cup {{}}, at : Nat, len : Nat]
        /\ \E n \in HardwareIDs.nulls : n > HardwareIDs.at
    BY <1>3 DEF MultiSzWcsLen, TypeOK
  <2>2. HardwareIDs.nulls \subseteq Nat
    BY <2>1, SetupAssumption
  <2>3. len \in Nat
    BY <2>1, MeasuredString
  <2>4. /\ HardwareIDs'.nulls = HardwareIDs.nulls
        /\ HardwareIDs'.len = len
        /\ HardwareIDs'.at = HardwareIDs.at + len
    <3> HIDE DEF len
    <3> QED
      BY <2>1
  <2>5. PICK n \in HardwareIDs.nulls :
             /\ n > 0
             /\ n + 1 \in HardwareIDs.nulls
             /\ \A m \in HardwareIDs.nulls : n <= m
    BY <2>4 DEF OneId
  <2>6. HardwareIDs.at = 0 /\ HardwareIDs.len = 0
    BY <2>1, <2>2, <2>4 DEF MeasureOK
  <2>7. wcslen(HardwareIDs.nulls, HardwareIDs.at) = n
    <3>1. /\ wcslen(HardwareIDs.nulls, 0) \in HardwareIDs.nulls
          /\ wcslen(HardwareIDs.nulls, 0) <= n
      BY <2>1, <2>2, <2>5, <2>6, MeasuredString
    <3> QED
      BY <2>2, <2>5, <2>6, <3>1
  <2>8. HardwareIDs'.len = n + 1 /\ HardwareIDs'.at = n + 1
    BY <2>2, <2>4, <2>6, <2>7
  <2> QED
    BY <2>4, <2>5, <2>8 DEF MeasureOK
<1> QED
  BY <1>1, <1>2, <1>3, HardwareIdsSteps DEF TypeOK

\* When MultiSzWcsLen is done with one id, the driver takes what it measured
\* if the whole of it fits.
LEMMA OneIdMeasured ==
    ASSUME TypeOK, MeasureOK, OneId(HardwareIDs.nulls),
           HardwareIDs.at \in HardwareIDs.nulls, MultiSz(HardwareIDs.nulls)
    PROVE  /\ HardwareIDs.len + 1 \in 2..MaxChars
           /\ {HardwareIDs.len - 1, HardwareIDs.len} \subseteq HardwareIDs.nulls
<1>1. HardwareIDs.nulls \subseteq Nat
  BY SetupAssumption DEF TypeOK
<1>2. PICK n \in HardwareIDs.nulls :
           /\ n > 0
           /\ n + 1 \in HardwareIDs.nulls
           /\ \A m \in HardwareIDs.nulls : n <= m
           /\ HardwareIDs.at = n + 1 /\ HardwareIDs.len = n + 1
  <2>1. HardwareIDs.at # 0
    BY <1>1 DEF OneId
  <2> QED
    BY <2>1 DEF MeasureOK
<1>3. PICK k \in HardwareIDs.nulls :
           /\ k + 2 <= MaxChars
           /\ \A m \in HardwareIDs.nulls : m < k => m + 1 \notin HardwareIDs.nulls
  BY DEF MultiSz
<1>4. MaxChars \in Nat
  BY SetupAssumption
<1>5. k = n
  BY <1>1, <1>2, <1>3
<1> QED
  BY <1>1, <1>2, <1>3, <1>4, <1>5

LEMMA OneIdEndsInside ==
    ASSUME TypeOK, MeasureOK, OneId(HardwareIDs.nulls)
    PROVE  \E n \in HardwareIDs.nulls : ~(n < HardwareIDs.at)
<1>1. HardwareIDs.nulls \subseteq Nat
  BY SetupAssumption DEF TypeOK
<1>2. CASE HardwareIDs.at = 0
  BY <1>1, <1>2 DEF OneId
<1>3. CASE HardwareIDs.at \in HardwareIDs.nulls
  BY <1>1, <1>3
<1> QED
  BY <1>2, <1>3 DEF MeasureOK

\* The list of ids stays as it is until the file is closed or it is given.
LEMMA AcceptedAfter ==
    ASSUME UNCHANGED HardwareIDs, OneIdAccepted,
           \/ caller'.pc # "failed"
           \/ ~caller'.valid
           \/ caller'.starved
           \/ UNCHANGED caller
    PROVE  OneIdAccepted'
  BY DEF OneIdAccepted, ValidConfigAccepted

LEMMA SetDeviceInfoStages ==
    TypeOK /\ StagesOK /\ SetDeviceInfo => StagesOK'
<1> SUFFICES ASSUME TypeOK, StagesOK, SetDeviceInfo PROVE StagesOK'
  OBVIOUS
<1>1. /\ caller \in Callers
      /\ caller.pc \in {"info", "direct"}
      /\ UNCHANGED <<HardwareIDs, parser, VhfConfig, VhfHandle, early>>
  BY DEF SetDeviceInfo, Sends, TypeOK, descriptor
<1>2. PICK e \in Events :
         \/ /\ DeviceInfo # <<>> \/ VhfHandle \/ Unknown \in e
            /\ Returns("info", "refused", Unknown \notin e)
            /\ UNCHANGED DeviceInfo
         \/ /\ DeviceInfo' = <<e>>
            /\ Returns("info", "success", TRUE)
  BY DEF SetDeviceInfo
<1>3. CASE /\ DeviceInfo # <<>> \/ VhfHandle \/ Unknown \in e
           /\ Returns("info", "refused", Unknown \notin e)
           /\ UNCHANGED DeviceInfo
  <2>1. CASE caller.pc = "direct"
    BY <1>1, <1>3, <2>1, ReturnsFacts, CallerStages, AcceptedAfter DEF StagesOK
  <2>2. CASE caller.pc = "info"
    <3>1. caller'.pc = "failed" /\ ~caller'.valid
      BY <1>1, <1>3, <2>2, FailureFacts, CallerStages DEF StagesOK
    <3> QED
      BY <1>1, <1>3, <2>2, <3>1, AcceptedAfter DEF StagesOK
  <2> QED
    BY <1>1, <2>1, <2>2
<1>4. CASE DeviceInfo' = <<e>> /\ Returns("info", "success", TRUE)
  <2>1. CASE caller.pc = "direct"
    BY <1>1, <1>4, <2>1, ReturnsFacts, CallerStages, AcceptedAfter DEF StagesOK
  <2>2. CASE caller.pc = "info"
    <3>1. caller'.pc = "ReportDescriptor"
      BY <1>1, <1>4, <2>2, ReturnsFacts, CallerStages
    <3> QED
      BY <1>1, <1>4, <2>2, <3>1, AcceptedAfter DEF StagesOK
  <2> QED
    BY <1>1, <2>1, <2>2
<1> QED
  BY <1>2, <1>3, <1>4

\* The IOCTL of the report descriptor, from its first check to its return.
LEMMA ReportDescriptorStages ==
    ASSUME TypeOK, StagesOK,
           \/ SetReportDescriptor
           \/ RefuseReportDescriptor
           \/ ParseReportDescriptor
           \/ ReportDescriptorParsed
    PROVE  StagesOK'
<1>0. caller \in Callers
  BY DEF TypeOK
<1>1. CASE SetReportDescriptor
  BY <1>1, AcceptedAfter
  DEF SetReportDescriptor, Sends, HasDescriptor, BeginParse, StagesOK
<1>2. CASE RefuseReportDescriptor
  <2>1. /\ caller.pc \in {"ReportDescriptor", "direct"}
        /\ caller.pc = "ReportDescriptor" => parser # "items"
        /\ UNCHANGED <<HardwareIDs, parser, DeviceInfo, VhfConfig, VhfHandle, early>>
    BY <1>2 DEF RefuseReportDescriptor, Sends, fileContext, descriptor
  <2>2. CASE caller.pc = "direct"
    <3>1. caller' = caller
      BY <1>0, <1>2, <2>2, ReturnsFacts, CallerStages
      DEF RefuseReportDescriptor
    <3> QED
      BY <2>1, <3>1, AcceptedAfter DEF StagesOK
  <2>3. CASE caller.pc = "ReportDescriptor"
    <3>1. Returns("ReportDescriptor", "starved", TRUE)
      BY <1>2, <2>1, <2>3 DEF RefuseReportDescriptor, HasDescriptor, StagesOK
    <3>2. caller'.pc = "failed" /\ caller'.starved
      BY <1>0, <2>3, <3>1, FailureFacts, CallerStages
    <3> QED
      BY <2>1, <2>3, <3>2, AcceptedAfter DEF StagesOK
  <2> QED
    BY <2>1, <2>2, <2>3
<1>3. CASE ParseReportDescriptor
  <2>1. /\ parser = "items"
        /\ parser' \in {"items", "failed"}
        /\ UNCHANGED <<HardwareIDs, DeviceInfo, VhfConfig, VhfHandle, early>>
    BY <1>3 DEF ParseReportDescriptor, ReadItem, SetGlobalItem, PushFrame,
                PopFrame, AddMainItem, SkipItem, RefuseItem
  <2>2. /\ caller.pc \in {"ReportDescriptor", "direct"}
        /\ caller.pc = "ReportDescriptor" \/ ~early => ~VhfHandle
    BY <2>1 DEF StagesOK
  <2>3. CASE caller' = caller /\ (parser' = "items" \/ caller.pc = "direct")
    BY <2>1, <2>2, <2>3, AcceptedAfter DEF StagesOK
  <2>4. CASE caller.pc = "ReportDescriptor" /\ parser' = "failed"
    <3>1. caller'.pc = "failed" /\ ~caller'.valid
      BY <1>0, <1>3, <2>4, FailureFacts, CallerStages DEF ParseReportDescriptor
    <3> QED
      BY <2>1, <2>2, <2>4, <3>1, AcceptedAfter DEF StagesOK
  <2>5. caller.pc = "direct" \/ parser' = "items" => caller' = caller
    BY <1>0, <1>3, <2>1, ReturnsFacts, CallerStages DEF ParseReportDescriptor
  <2> QED
    BY <2>1, <2>2, <2>3, <2>4, <2>5
<1>4. CASE ReportDescriptorParsed
  <2>1. /\ parser = "items"
        /\ parser' = "done"
        /\ UNCHANGED <<HardwareIDs, DeviceInfo, VhfConfig, VhfHandle, early>>
    BY <1>4 DEF ReportDescriptorParsed, EndParse
  <2>2. /\ caller.pc \in {"ReportDescriptor", "direct"}
        /\ caller.pc = "ReportDescriptor" \/ ~early => ~VhfHandle
    BY <2>1 DEF StagesOK
  <2>3. CASE caller.pc = "direct"
    <3>1. caller' = caller
      BY <1>0, <1>4, <2>3, ReturnsFacts, CallerStages DEF ReportDescriptorParsed
    <3> QED
      BY <2>1, <2>2, <2>3, <3>1, AcceptedAfter DEF StagesOK
  <2>4. CASE caller.pc = "ReportDescriptor"
    <3>1. caller'.pc = "InstanceID"
      BY <1>0, <1>4, <2>4, ReturnsFacts, CallerStages DEF ReportDescriptorParsed
    <3> QED
      BY <2>1, <2>2, <2>4, <3>1, AcceptedAfter DEF StagesOK
  <2> QED
    BY <2>2, <2>3, <2>4
<1> QED
  BY <1>1, <1>2, <1>3, <1>4

\* A buffer that is set is refused only when it is malformed or a buffer of
\* that name is there.
LEMMA SetBufferStages ==
    ASSUME TypeOK, StagesOK, NEW buffer \in Buffers,
           NEW wellFormed \in BOOLEAN, NEW valid \in BOOLEAN,
           valid /\ (HardwareIDs.nulls = {} \/ OneId(HardwareIDs.nulls))
               => wellFormed,
           SetBuffer(buffer, wellFormed, valid)
    PROVE  StagesOK'
<1>1. /\ caller \in Callers
      /\ buffer \in {"InstanceID", "HardwareIDs"}
      /\ caller.pc \in {buffer, "direct"}
      /\ UNCHANGED <<HardwareIDs, parser, DeviceInfo, VhfHandle, early>>
      /\ VhfConfig' \in {VhfConfig, VhfConfig \cup {buffer}}
  BY DEF SetBuffer, Sends, TypeOK, descriptor, Buffers
<1>2. CASE caller.pc = "direct"
  <2>1. caller' = caller
    BY <1>1, <1>2, ReturnsFacts, CallerStages DEF SetBuffer
  <2> QED
    BY <1>1, <1>2, <2>1, AcceptedAfter DEF StagesOK
<1>3. CASE caller.pc = buffer
  <2>1. buffer \notin VhfConfig /\ ~VhfHandle
    BY <1>1, <1>3 DEF StagesOK
  <2>2. CASE Returns(buffer, "refused", valid) /\ ~wellFormed
    <3>1. caller'.pc = "failed" /\ (~valid => ~caller'.valid)
      <4>1. caller'.pc = "failed"
        BY <1>1, <1>3, <2>2, ReturnsFacts, CallerStages
      <4>2. ~valid => ~caller'.valid
        BY <1>1, <1>3, <2>2, FailureFacts, CallerStages
      <4> QED
        BY <4>1, <4>2
    <3>2. OneIdAccepted'
      <4>1. CASE valid
        BY <1>1, <2>2, <4>1 DEF OneIdAccepted
      <4>2. CASE ~valid
        BY <1>1, <3>1, <4>2, AcceptedAfter DEF StagesOK
      <4> QED
        BY <4>1, <4>2
    <3> QED
      BY <1>1, <1>3, <2>1, <3>1, <3>2 DEF StagesOK
  <2>3. CASE Returns(buffer, "starved", valid)
    <3>1. caller'.pc = "failed" /\ caller'.starved
      BY <1>1, <1>3, <2>3, FailureFacts, CallerStages
    <3> QED
      BY <1>1, <1>3, <2>1, <3>1, AcceptedAfter DEF StagesOK
  <2>4. CASE Returns(buffer, "success", valid)
    <3>1. caller'.pc = After(buffer)
      BY <1>1, <1>3, <2>4, ReturnsFacts, CallerStages
    <3>2. CASE buffer = "InstanceID"
      BY <1>1, <1>3, <2>1, <3>1, <3>2, CallerStages, AcceptedAfter DEF StagesOK
    <3>3. CASE buffer = "HardwareIDs"
      BY <1>1, <1>3, <2>1, <3>1, <3>3, CallerStages, AcceptedAfter DEF StagesOK
    <3> QED
      BY <1>1, <3>2, <3>3
  <2> QED
    BY <2>1, <2>2, <2>3, <2>4 DEF SetBuffer
<1> QED
  BY <1>1, <1>2, <1>3

LEMMA CreateDeviceStages == TypeOK /\ StagesOK /\ CreateDevice => StagesOK'
<1> SUFFICES ASSUME TypeOK, StagesOK, CreateDevice PROVE StagesOK'
  OBVIOUS
<1>1. /\ caller \in Callers
      /\ caller.pc \in {"create", "direct"}
      /\ parser = "items" => caller.pc = "direct"
      /\ early' = IF VhfHandle THEN early ELSE VhfHandle' /\ parser = "items"
      /\ UNCHANGED <<HardwareIDs, parser, DeviceInfo, VhfConfig>>
  BY DEF CreateDevice, Sends, TypeOK, descriptor
<1>2. CASE /\ VhfHandle \/ ~HasDescriptor \/ DeviceInfo = <<>>
           /\ Returns("create", "refused", TRUE)
           /\ UNCHANGED VhfHandle
  <2>1. caller.pc = "direct"
    BY <1>1, <1>2 DEF HasDescriptor, StagesOK
  <2>2. caller' = caller
    BY <1>1, <1>2, <2>1, ReturnsFacts, CallerStages
  <2> QED
    BY <1>1, <1>2, <2>1, <2>2, AcceptedAfter DEF StagesOK
<1>3. CASE /\ HasDescriptor /\ DeviceInfo # <<>>
           /\ VhfHandle' = TRUE
           /\ Returns("create", "success", TRUE)
  <2>1. \/ caller.pc = "direct" /\ caller' = caller
        \/ caller.pc = "create" /\ caller'.pc = "device"
    BY <1>1, <1>3, ReturnsFacts, CallerStages
  <2>2. OneIdAccepted'
    BY <1>1, <2>1, AcceptedAfter DEF StagesOK
  <2>3. CASE caller.pc = "direct" /\ caller' = caller
    BY <1>1, <1>3, <2>2, <2>3 DEF HasDescriptor, StagesOK
  <2>4. CASE caller.pc = "create" /\ caller'.pc = "device"
    BY <1>1, <1>3, <2>2, <2>4 DEF StagesOK
  <2> QED
    BY <2>1, <2>3, <2>4
<1>4. CASE Returns("create", "starved", TRUE) /\ UNCHANGED VhfHandle
  <2>1. \/ caller.pc = "direct" /\ caller' = caller
        \/ caller.pc = "create" /\ caller'.pc = "failed" /\ caller'.starved
    BY <1>1, <1>4, ReturnsFacts, FailureFacts, CallerStages
  <2>2. OneIdAccepted'
    BY <1>1, <2>1, AcceptedAfter DEF StagesOK
  <2> QED
    BY <1>1, <1>4, <2>1, <2>2 DEF StagesOK
<1> QED
  BY <1>2, <1>3, <1>4 DEF CreateDevice

\* The steps of the client outside the driver.
LEMMA ClientStages ==
    ASSUME TypeOK, StagesOK,
           \/ WinUHidCreateDevice
           \/ \E buffer \in Buffers : SkipBuffer(buffer)
           \/ OpenFile
           \/ CloseFile
    PROVE  StagesOK'
<1>1. CASE WinUHidCreateDevice \/ OpenFile
  <2>1. UNCHANGED <<HardwareIDs, parser, DeviceInfo, VhfConfig, VhfHandle, early>>
    BY <1>1 DEF WinUHidCreateDevice, OpenFile, fileContext, descriptor
  <2>2. /\ caller.pc = "idle"
        /\ caller'.pc \in {"info", "failed", "direct"}
        /\ caller'.pc = "failed" /\ caller'.valid => caller'.starved
    BY <1>1 DEF WinUHidCreateDevice, OpenFile, Caller
  <2> QED
    BY <2>1, <2>2, AcceptedAfter DEF StagesOK
<1>2. CASE \E buffer \in Buffers : SkipBuffer(buffer)
  <2>1. PICK buffer \in Buffers : SkipBuffer(buffer)
    BY <1>2
  <2>2. UNCHANGED <<HardwareIDs, parser, DeviceInfo, VhfConfig, VhfHandle, early>>
    BY <2>1 DEF SkipBuffer, fileContext, descriptor
  <2>3. caller.pc = buffer /\ caller'.pc = After(buffer)
    BY <2>1 DEF SkipBuffer, TypeOK, Callers
  <2>4. CASE buffer = "InstanceID"
    BY <2>2, <2>3, <2>4, CallerStages, AcceptedAfter DEF StagesOK
  <2>5. CASE buffer = "HardwareIDs"
    BY <2>2, <2>3, <2>5, CallerStages, AcceptedAfter DEF StagesOK
  <2> QED
    BY <2>4, <2>5 DEF Buffers
<1>3. CASE CloseFile
  BY <1>3 DEF CloseFile, ResetDescriptor, Caller, StagesOK, OneIdAccepted,
              ValidConfigAccepted
<1> QED
  BY <1>1, <1>2, <1>3

\* The loop over the hardware ids, which one id does not leave.
LEMMA MeasureStages ==
    ASSUME TypeOK, MeasureOK, StagesOK,
           GiveHardwareIds \/ MultiSzWcsLen \/ MultiSzWcsLenFaults
    PROVE  StagesOK'
<1>1. CASE GiveHardwareIds \/ MultiSzWcsLen
  <2>1. /\ caller.pc = "HardwareIDs"
        /\ UNCHANGED <<caller, parser, DeviceInfo, VhfConfig, VhfHandle, early>>
    BY <1>1 DEF GiveHardwareIds, MultiSzWcsLen, fileContext, descriptor
  <2> QED
    BY <2>1 DEF StagesOK, OneIdAccepted, ValidConfigAccepted
<1>2. CASE MultiSzWcsLenFaults
  <2>1. /\ HardwareIDs # NoIds
        /\ \A n \in HardwareIDs.nulls : n < HardwareIDs.at
        /\ caller.pc = "HardwareIDs" /\ caller'.pc = "failed"
        /\ caller'.valid => MultiSz(HardwareIDs.nulls)
        /\ UNCHANGED <<HardwareIDs, parser, DeviceInfo, VhfConfig, VhfHandle, early>>
    BY <1>2 DEF MultiSzWcsLenFaults, fileContext, descriptor, Caller
  <2>2. ~OneId(HardwareIDs.nulls)
    BY <2>1, OneIdEndsInside
  <2>3. HardwareIDs.nulls = {} => ~caller'.valid
    BY <2>1 DEF MultiSz
  <2>4. OneIdAccepted'
    BY <2>1, <2>2, <2>3 DEF OneIdAccepted, ValidConfigAccepted
  <2> QED
    BY <2>1, <2>4 DEF StagesOK
<1> QED
  BY <1>1, <1>2

LEMMA StepStages == TypeOK /\ MeasureOK /\ StagesOK /\ [Next]_vars => StagesOK'
<1> SUFFICES ASSUME TypeOK, MeasureOK, StagesOK, [Next]_vars PROVE StagesOK'
  OBVIOUS
<1>1. CASE SetInstanceId
  BY <1>1, SetBufferStages DEF SetInstanceId, Buffers
<1>2. CASE SetHardwareIds
  <2>1. CASE caller.pc = "direct"
    <3>1. /\ caller' = caller
          /\ VhfConfig' \in {VhfConfig, VhfConfig \cup {"HardwareIDs"}}
          /\ UNCHANGED <<HardwareIDs, parser, DeviceInfo, VhfHandle, early>>
      BY <1>2, <2>1 DEF SetHardwareIds, SetBuffer, Returns, descriptor
    <3> QED
      BY <2>1, <3>1, AcceptedAfter DEF StagesOK
  <2>2. CASE caller.pc # "direct"
    <3> DEFINE fits == /\ HardwareIDs.len + 1 \in 2..MaxChars
                       /\ {HardwareIDs.len - 1, HardwareIDs.len}
                              \subseteq HardwareIDs.nulls
    <3>1. /\ HardwareIDs.at \in HardwareIDs.nulls
          /\ SetBuffer("HardwareIDs", fits, MultiSz(HardwareIDs.nulls))
      BY <1>2, <2>2 DEF SetHardwareIds
    <3>2. /\ fits \in BOOLEAN
          /\ MultiSz(HardwareIDs.nulls) \in BOOLEAN
          /\ "HardwareIDs" \in Buffers
      BY DEF MultiSz, Buffers
    <3>3. MultiSz(HardwareIDs.nulls)
          /\ (HardwareIDs.nulls = {} \/ OneId(HardwareIDs.nulls)) => fits
      BY <3>1, OneIdMeasured
    <3> HIDE DEF fits
    <3> QED
      BY <3>1, <3>2, <3>3, SetBufferStages
  <2> QED
    BY <2>1, <2>2
<1>3. CASE UNCHANGED vars
  BY <1>3, AcceptedAfter DEF vars, fileContext, descriptor, StagesOK
<1> QED
  BY <1>1, <1>2, <1>3, SetDeviceInfoStages, ReportDescriptorStages,
     CreateDeviceStages, ClientStages, MeasureStages
  DEF Next

LEMMA InitStages == Init => StagesOK /\ MeasureOK
  BY DEF Init, InitDescriptor, Caller, StagesOK, OneIdAccepted,
         ValidConfigAccepted, MeasureOK, NoIds, OneId

LEMMA Invariance == Spec => [](TypeOK /\ SumsFit /\ MeasureOK /\ StagesOK)
<1>1. Init => TypeOK /\ SumsFit /\ MeasureOK /\ StagesOK
  BY InitTypes, InitStages
<1>2. (TypeOK /\ SumsFit /\ MeasureOK /\ StagesOK) /\ [Next]_vars
      => (TypeOK /\ SumsFit /\ MeasureOK /\ StagesOK)'
  BY StepTypes, StepMeasure, StepStages
<1> QED
  BY <1>1, <1>2, PTL DEF Spec

\* Unless it was created while its descriptor was being parsed, a device is only
\* made of device information and a descriptor that was accepted as a whole;
\* and WinUHidCreateDevice returns one only if there is such a device.
THEOREM DevicesFromAccepted == Spec => []CreatedFromAccepted
<1>1. TypeOK /\ SumsFit /\ MeasureOK /\ StagesOK => CreatedFromAccepted
  BY DEF StagesOK, CreatedFromAccepted
<1> QED
  BY <1>1, Invariance, PTL

\* With no list of hardware ids or with one id, whatever is behind it in
\* memory, WinUHidCreateDevice only fails for what was malformed or too long
\* or because something gave out.
THEOREM OneIdIsAccepted == Spec => []OneIdAccepted
<1>1. TypeOK /\ SumsFit /\ MeasureOK /\ StagesOK => OneIdAccepted
  BY DEF StagesOK
<1> QED
  BY <1>1, Invariance, PTL

\* What a device was created from does not change while the device exists, but
\* for the end of the parse during which it was created.
THEOREM CreatedStaysFrozen == Spec => FrozenWhenCreated
<1> DEFINE Frozen == /\ UNCHANGED <<DeviceInfo, VhfConfig>>
                     /\ parser # "items"
                        => UNCHANGED <<HasDescriptor, ReportSizes, NumberedReports>>
<1>1. ASSUME StagesOK, [Next]_vars, VhfHandle, VhfHandle'
      PROVE  Frozen
  <2> SUFFICES /\ UNCHANGED <<DeviceInfo, VhfConfig>>
               /\ parser # "items" => UNCHANGED descriptor
    BY DEF descriptor, HasDescriptor
  <2>1. DeviceInfo # <<>>
    BY <1>1 DEF StagesOK
  <2>2. CASE SetDeviceInfo
    BY <1>1, <2>2 DEF SetDeviceInfo
  <2>3. CASE SetReportDescriptor
    BY <1>1, <2>3 DEF SetReportDescriptor
  <2>4. CASE ParseReportDescriptor \/ ReportDescriptorParsed
    BY <2>4 DEF ParseReportDescriptor, ReadItem, ReportDescriptorParsed, EndParse
  <2>5. CASE SetInstanceId \/ SetHardwareIds
    BY <1>1, <2>5 DEF SetInstanceId, SetHardwareIds, SetBuffer
  <2>6. CASE CreateDevice
    BY <2>6 DEF CreateDevice
  <2>7. CASE CloseFile
    BY <1>1, <2>7 DEF CloseFile
  <2>8. CASE \/ RefuseReportDescriptor \/ WinUHidCreateDevice \/ OpenFile
             \/ \E buffer \in Buffers : SkipBuffer(buffer)
             \/ GiveHardwareIds \/ MultiSzWcsLen \/ MultiSzWcsLenFaults
             \/ UNCHANGED vars
    BY <2>8 DEF RefuseReportDescriptor, WinUHidCreateDevice, OpenFile,
                SkipBuffer, GiveHardwareIds, MultiSzWcsLen,
                MultiSzWcsLenFaults, vars, fileContext
  <2> QED
    BY <1>1, <2>2, <2>3, <2>4, <2>5, <2>6, <2>7, <2>8 DEF Next
<1>2. (TypeOK /\ SumsFit /\ MeasureOK /\ StagesOK) /\ [Next]_vars
      => [VhfHandle /\ VhfHandle' => Frozen]_vars
  BY <1>1
<1> QED
  BY <1>2, Invariance, PTL DEF Spec, FrozenWhenCreated

-----------------------------------------------------------------------------
(* Sums                                                                    *)

\* Induction over the naturals, for a set.
LEMMA Induction ==
    ASSUME NEW G, 0 \in G, \A n \in Nat : n \in G => n + 1 \in G
    PROVE  Nat \subseteq G
<1> SUFFICES ASSUME Nat \ G # {} PROVE FALSE
  OBVIOUS
<1>1. PICK m \in Nat \ G : \A k \in Nat \ G : m <= k
  BY LeastNatural
<1>2. m - 1 \in Nat /\ m - 1 \in G
  BY <1>1
<1> QED
  BY <1>2

\* g sums up w over every set of elements of its domain.
IsSum(g, w) ==
    g = [s \in SUBSET DOMAIN w |->
            IF s = {} THEN 0
            ELSE w[CHOOSE x \in s : TRUE] + g[s \ {CHOOSE x \in s : TRUE}]]

SumsOf(w) == CHOOSE g : IsSum(g, w)

\* The sum of a function is what IsSum makes of the whole of its domain: the
\* recursive function that SumFunction chooses, which takes one element after
\* the other off a set.
LEMMA SumFunctionIs ==
    ASSUME NEW w
    PROVE  SumFunction(w) = SumsOf(w)[DOMAIN w]
  BY Zenon DEF SumFunction, SumFunctionOnSet, FoldFunctionOnSet,
               MapThenFoldSet, IsSum, SumsOf

\* There is such a function when the domain is finite: it is built for sets
\* of k elements from that for k - 1.
LEMMA SumsExist ==
    ASSUME NEW w, IsFiniteSet(DOMAIN w)
    PROVE  IsSum(SumsOf(w), w)
<1> DEFINE D == DOMAIN w
           F(g, s) == IF s = {} THEN 0
                      ELSE w[CHOOSE x \in s : TRUE] + g[s \ {CHOOSE x \in s : TRUE}]
           Small(k) == {s \in SUBSET D : Cardinality(s) <= k}
           G == {k \in Nat : \E g : \A s \in Small(k) : g[s] = F(g, s)}
<1>1. \A s \in SUBSET D : IsFiniteSet(s) /\ Cardinality(s) \in Nat
  BY FS_Subset, FS_CardinalityType
<1>2. 0 \in G
  <2> DEFINE g == [s \in SUBSET D |-> 0]
  <2>1. \A s \in Small(0) : s = {}
    BY <1>1, FS_EmptySet
  <2>2. \A s \in Small(0) : g[s] = F(g, s)
    BY <2>1
  <2> QED
    BY <2>2
<1>3. ASSUME NEW k \in Nat, k \in G PROVE k + 1 \in G
  <2>1. PICK g : \A s \in Small(k) : g[s] = F(g, s)
    BY <1>3
  <2> DEFINE h == [s \in SUBSET D |-> IF s \in Small(k) THEN g[s] ELSE F(g, s)]
  <2>2. ASSUME NEW s \in Small(k + 1) PROVE h[s] = F(h, s)
    <3>1. CASE s = {}
      BY <2>1, <3>1
    <3>2. CASE s # {}
      <4> DEFINE c == CHOOSE x \in s : TRUE
      <4>1. c \in s
        BY <3>2
      <4>2. s \ {c} \in Small(k)
        <5>1. /\ s \in SUBSET D /\ IsFiniteSet(s)
              /\ Cardinality(s) \in Nat /\ Cardinality(s) <= k + 1
          BY <1>1
        <5> HIDE DEF c
        <5>2. Cardinality(s \ {c}) = Cardinality(s) - 1
          BY <4>1, <5>1, FS_RemoveElement
        <5> QED
          BY <1>3, <5>1, <5>2
      <4>3. h[s] = F(g, s)
        BY <2>1
      <4>4. h[s \ {c}] = g[s \ {c}]
        BY <4>2
      <4> QED
        BY <3>2, <4>3, <4>4
    <3> QED
      BY <3>1, <3>2
  <2>3. \A s \in Small(k + 1) : h[s] = F(h, s)
    BY <2>2
  <2> HIDE DEF h, F, Small
  <2>4. \E f : \A s \in Small(k + 1) : f[s] = F(f, s)
    BY <2>3
  <2> QED
    BY <2>4
<1>4. Cardinality(D) \in G
  <2> HIDE DEF G
  <2> QED
    BY <1>1, <1>2, <1>3, Induction
<1>5. PICK g : \A s \in SUBSET D : g[s] = F(g, s)
  BY <1>1, <1>4, FS_Subset
<1> DEFINE h == [s \in SUBSET D |-> F(g, s)]
<1>6. \A s \in SUBSET D : h[s] = g[s]
  BY <1>5
<1>7. \A s \in SUBSET D : h[s] = F(h, s)
  <2> SUFFICES ASSUME NEW s \in SUBSET D PROVE h[s] = F(h, s)
    OBVIOUS
  <2>1. s \ {CHOOSE x \in s : TRUE} \in SUBSET D
    OBVIOUS
  <2> QED
    BY <1>6, <2>1
<1>8. h = [s \in SUBSET D |-> F(h, s)]
  BY <1>7
<1>9. IsSum(h, w)
  BY <1>8 DEF IsSum
<1> QED
  BY <1>9, Zenon DEF SumsOf

\* What it is for a set.
LEMMA SumsAre ==
    ASSUME NEW w, IsFiniteSet(DOMAIN w), NEW s \in SUBSET DOMAIN w
    PROVE  /\ s = {} => SumsOf(w)[s] = 0
           /\ s # {} => \E c \in s : SumsOf(w)[s] = w[c] + SumsOf(w)[s \ {c}]
<1>1. SumsOf(w)[s] = IF s = {} THEN 0
                     ELSE w[CHOOSE x \in s : TRUE]
                          + SumsOf(w)[s \ {CHOOSE x \in s : TRUE}]
  BY SumsExist DEF IsSum
<1>2. s # {} => (CHOOSE x \in s : TRUE) \in s
  OBVIOUS
<1> QED
  BY <1>1, <1>2

\* G holds of a subset when it holds of its subsets.
Hereditary(D, G) ==
    \A s \in SUBSET D : (\A t \in SUBSET s : t # s => t \in G) => s \in G

\* Induction over the subsets of a finite set.
LEMMA SubsetInduction ==
    ASSUME NEW D, IsFiniteSet(D), NEW G, Hereditary(D, G)
    PROVE  \A s \in SUBSET D : s \in G
<1> SUFFICES ASSUME (SUBSET D) \ G # {} PROVE FALSE
  OBVIOUS
<1>1. PICK s \in (SUBSET D) \ G :
         \A t \in (SUBSET D) \ G : <<t, s>> \notin StrictSubsetOrdering(D)
  <2> DEFINE T == (SUBSET D) \ G
  <2>1. FiniteSubsetsOf(D) = SUBSET D
    BY FS_FiniteSubsetsOfFinite
  <2>2. IsWellFoundedOn(StrictSubsetOrdering(D), FiniteSubsetsOf(D))
    BY FS_StrictSubsetOrderingWellFounded
  <2>3. T \subseteq FiniteSubsetsOf(D) /\ T # {}
    BY <2>1
  <2> HIDE DEF T
  <2>4. \E s \in T : \A t \in T : <<t, s>> \notin StrictSubsetOrdering(D)
    BY <2>2, <2>3, WFMin
  <2> QED
    BY <2>4 DEF T
<1>2. \A t \in SUBSET s : t # s => t \in G
  BY <1>1 DEF StrictSubsetOrdering
<1> QED
  BY <1>1, <1>2 DEF Hereditary

\* A sum of naturals is a natural.
LEMMA SumsNatural ==
    ASSUME NEW w, IsFiniteSet(DOMAIN w), \A x \in DOMAIN w : w[x] \in Nat
    PROVE  \A s \in SUBSET DOMAIN w : SumsOf(w)[s] \in Nat
<1> DEFINE G == {s \in SUBSET DOMAIN w : SumsOf(w)[s] \in Nat}
<1>1. ASSUME NEW s \in SUBSET DOMAIN w, \A t \in SUBSET s : t # s => t \in G
      PROVE  s \in G
  <2>1. CASE s = {}
    BY <2>1, SumsAre
  <2>2. CASE s # {}
    <3>1. PICK c \in s : SumsOf(w)[s] = w[c] + SumsOf(w)[s \ {c}]
      BY <2>2, SumsAre
    <3>2. s \ {c} \in SUBSET s /\ s \ {c} # s
      OBVIOUS
    <3>3. SumsOf(w)[s \ {c}] \in Nat /\ w[c] \in Nat
      BY <1>1, <3>2
    <3> QED
      BY <3>1, <3>3
  <2> QED
    BY <2>1, <2>2
<1> HIDE DEF G
<1>2. Hereditary(DOMAIN w, G)
  BY <1>1 DEF Hereditary
<1>3. \A s \in SUBSET DOMAIN w : s \in G
  BY <1>2, SubsetInduction
<1> QED
  BY <1>3 DEF G

\* In whatever order the elements are taken.
LEMMA SumsAnyOrder ==
    ASSUME NEW w, IsFiniteSet(DOMAIN w), \A x \in DOMAIN w : w[x] \in Nat
    PROVE  \A s \in SUBSET DOMAIN w : \A x \in s :
              SumsOf(w)[s] = w[x] + SumsOf(w)[s \ {x}]
<1> DEFINE S(s) == SumsOf(w)[s]
           G == {s \in SUBSET DOMAIN w : \A x \in s : S(s) = w[x] + S(s \ {x})}
<1>1. ASSUME NEW s \in SUBSET DOMAIN w, \A t \in SUBSET s : t # s => t \in G
      PROVE  s \in G
  <2> SUFFICES ASSUME NEW x \in s PROVE S(s) = w[x] + S(s \ {x})
    OBVIOUS
  <2>1. PICK c \in s : S(s) = w[c] + S(s \ {c})
    BY SumsAre
  <2>2. CASE c = x
    BY <2>1, <2>2
  <2>3. CASE c # x
    <3>1. s \ {c} \in G /\ s \ {x} \in G
      <4>1. s \ {c} # s /\ s \ {x} # s
        OBVIOUS
      <4> QED
        BY <1>1, <4>1
    <3>2. x \in s \ {c} /\ c \in s \ {x}
      BY <2>3
    <3>3. S(s \ {c}) = w[x] + S((s \ {c}) \ {x})
      BY <3>1, <3>2
    <3>4. S(s \ {x}) = w[c] + S((s \ {x}) \ {c})
      BY <3>1, <3>2
    <3>5. (s \ {c}) \ {x} = (s \ {x}) \ {c}
      OBVIOUS
    <3>6. /\ w[c] \in Nat /\ w[x] \in Nat
          /\ S((s \ {x}) \ {c}) \in Nat
      BY SumsNatural
    <3> HIDE DEF S
    <3> QED
      BY <2>1, <3>3, <3>4, <3>5, <3>6
  <2> QED
    BY <2>2, <2>3
<1> HIDE DEF G, S
<1>2. Hereditary(DOMAIN w, G)
  BY <1>1 DEF Hereditary
<1>3. \A s \in SUBSET DOMAIN w : s \in G
  BY <1>2, SubsetInduction
<1> QED
  BY <1>3 DEF G, S

\* A sum is that of any function that has the same values on the set.
LEMMA SumsAgree ==
    ASSUME NEW v, IsFiniteSet(DOMAIN v), NEW w, IsFiniteSet(DOMAIN w),
           DOMAIN v \subseteq DOMAIN w, \A x \in DOMAIN v : v[x] = w[x],
           \A x \in DOMAIN w : w[x] \in Nat
    PROVE  \A s \in SUBSET DOMAIN v : SumsOf(v)[s] = SumsOf(w)[s]
<1> DEFINE G == {s \in SUBSET DOMAIN v : SumsOf(v)[s] = SumsOf(w)[s]}
<1>1. ASSUME NEW s \in SUBSET DOMAIN v, \A t \in SUBSET s : t # s => t \in G
      PROVE  s \in G
  <2>0. s \in SUBSET DOMAIN w
    OBVIOUS
  <2>1. CASE s = {}
    BY <2>0, <2>1, SumsAre
  <2>2. CASE s # {}
    <3>1. PICK c \in s : SumsOf(v)[s] = v[c] + SumsOf(v)[s \ {c}]
      BY <2>2, SumsAre
    <3>2. SumsOf(w)[s] = w[c] + SumsOf(w)[s \ {c}]
      BY <2>0, SumsAnyOrder
    <3>3. s \ {c} \in SUBSET s /\ s \ {c} # s
      OBVIOUS
    <3> QED
      BY <1>1, <3>1, <3>2, <3>3
  <2> QED
    BY <2>1, <2>2
<1> HIDE DEF G
<1>2. Hereditary(DOMAIN v, G)
  BY <1>1 DEF Hereditary
<1>3. \A s \in SUBSET DOMAIN v : s \in G
  BY <1>2, SubsetInduction
<1> QED
  BY <1>3 DEF G

\* The sum of nothing, the type of a sum, and what one more element adds.
LEMMA SumFunctionEmpty == ASSUME NEW w, DOMAIN w = {} PROVE SumFunction(w) = 0
  BY SumFunctionIs, SumsAre, FS_EmptySet

LEMMA SumFunctionNatural ==
    ASSUME NEW w, IsFiniteSet(DOMAIN w), \A x \in DOMAIN w : w[x] \in Nat
    PROVE  SumFunction(w) \in Nat
  BY SumFunctionIs, SumsNatural

LEMMA SumFunctionGrows ==
    ASSUME NEW v, IsFiniteSet(DOMAIN v), NEW w, NEW n, n \notin DOMAIN v,
           DOMAIN w = DOMAIN v \cup {n}, \A x \in DOMAIN v : v[x] = w[x],
           \A x \in DOMAIN w : w[x] \in Nat
    PROVE  SumFunction(w) = SumFunction(v) + w[n]
<1>1. IsFiniteSet(DOMAIN w)
  BY FS_AddElement
<1>2. SumsOf(w)[DOMAIN w] = w[n] + SumsOf(w)[DOMAIN w \ {n}]
  BY <1>1, SumsAnyOrder
<1>3. DOMAIN w \ {n} = DOMAIN v
  OBVIOUS
<1>4. SumsOf(v)[DOMAIN v] = SumsOf(w)[DOMAIN v]
  BY <1>1, SumsAgree
<1>5. SumsOf(w)[DOMAIN v] \in Nat /\ w[n] \in Nat
  BY <1>1, SumsNatural
<1> QED
  BY <1>2, <1>3, <1>4, <1>5, SumFunctionIs

-----------------------------------------------------------------------------
(* Positions of a descriptor                                               *)

\* A set of positions has a last one.
LEMMA LastIs ==
    ASSUME NEW S, S \subseteq Nat, NEW m \in S, \A j \in S : j <= m
    PROVE  Max(S) = m
<1>1. \A x \in S : (\A y \in S : x >= y) => x = m
  <2> SUFFICES ASSUME NEW x \in S, \A y \in S : x >= y PROVE x = m
    OBVIOUS
  <2>1. x >= m /\ x <= m /\ x \in Nat /\ m \in Nat
    OBVIOUS
  <2> QED
    BY <2>1
<1>2. \A y \in S : m >= y
  <2> TAKE y \in S
  <2>1. y <= m /\ y \in Nat /\ m \in Nat
    OBVIOUS
  <2> QED
    BY <2>1
<1> QED
  BY <1>1, <1>2, Zenon DEF Max

LEMMA LastExists ==
    ASSUME NEW n \in Nat, NEW S, S \subseteq 1..n, S # {}
    PROVE  Max(S) \in S
<1> DEFINE T == {n - j : j \in S}
<1>1. T \subseteq Nat /\ T # {}
  <2>1. \A j \in S : n - j \in Nat
    OBVIOUS
  <2> QED
    BY <2>1
<1>2. PICK t \in T : \A k \in T : t <= k
  <2> HIDE DEF T
  <2> QED
    BY <1>1, LeastNatural
<1>3. PICK m \in S : t = n - m
  OBVIOUS
<1>4. \A j \in S : j <= m
  <2> TAKE j \in S
  <2>1. n - m <= n - j
    BY <1>2, <1>3
  <2>2. n \in Nat /\ m \in 1..n /\ j \in 1..n
    OBVIOUS
  <2> QED
    BY <2>1, <2>2
<1>5. S \subseteq Nat
  OBVIOUS
<1> QED
  BY <1>4, <1>5, LastIs

\* The tags of the items that carry data.
GlobalTags == {"ReportSize", "ReportCount", "ReportId"}

\* One more item has been read.
LEMMA AppendedItems ==
    ASSUME items \in Seq(Items), NEW item \in Items,
           items' = Append(items, item)
    PROVE  /\ Len(items) \in Nat
           /\ Len(items)' = Len(items) + 1
           /\ items' \in Seq(Items)
           /\ \A i \in 1..Len(items) : items'[i] = items[i]
           /\ items'[Len(items) + 1] = item
<1>1. items' \in Seq(Items) /\ Len(items') = Len(items) + 1
  BY AppendProperties
<1> QED
  BY <1>1, AppendProperties, LenProperties

\* The global items of a tag are finitely many, so that they can be counted.
LEMMA GlobalsFinite ==
    ASSUME NEW n \in Nat, NEW tag
    PROVE  /\ IsFiniteSet(Globals(tag, n))
           /\ Globals(tag, n) \subseteq 1..n
           /\ Cardinality(Globals(tag, n)) \in Nat
<1>1. Globals(tag, n) \subseteq 1..n
  BY DEF Globals
<1>2. IsFiniteSet(1..n)
  BY FS_Interval
<1> QED
  BY <1>1, <1>2, FS_Subset, FS_CardinalityType

LEMMA DepthInteger ==
    ASSUME NEW n \in Nat
    PROVE  Depth(n) \in Int
  BY GlobalsFinite DEF Depth

\* What has been read stays what it was, and the next item joins it.
LEMMA GlobalsKept ==
    ASSUME items \in Seq(Items), NEW item \in Items, items' = Append(items, item),
           NEW n \in 0..Len(items), NEW tag
    PROVE  Globals(tag, n)' = Globals(tag, n)
<1>1. \A i \in 1..n : items'[i] = items[i]
  BY AppendedItems
<1>2. Globals(tag, n)' = {i \in 1..n : items'[i].type = "global" /\ items'[i].tag = tag}
  BY DEF Globals
<1>3. Globals(tag, n) = {i \in 1..n : items[i].type = "global" /\ items[i].tag = tag}
  BY DEF Globals
<1> QED
  BY <1>1, <1>2, <1>3

LEMMA DepthKept ==
    ASSUME items \in Seq(Items), NEW item \in Items, items' = Append(items, item),
           NEW n \in 0..Len(items)
    PROVE  Depth(n)' = Depth(n)
<1>1. /\ Globals("Push", n)' = Globals("Push", n)
      /\ Globals("Pop", n)' = Globals("Pop", n)
  BY GlobalsKept
<1> QED
  BY <1>1 DEF Depth

LEMMA GlobalsNext ==
    ASSUME items \in Seq(Items), NEW item \in Items, items' = Append(items, item),
           NEW n, n = Len(items), NEW tag
    PROVE  Globals(tag, n + 1)'
              = Globals(tag, n)
                \cup (IF item.type = "global" /\ item.tag = tag THEN {n + 1} ELSE {})
<1>1. /\ n \in Nat
      /\ \A i \in 1..n : items'[i] = items[i]
      /\ items'[n + 1] = item
  BY AppendedItems
<1>2. 1..(n + 1) = (1..n) \cup {n + 1} /\ n + 1 \notin 1..n
  BY <1>1
<1> QED
  BY <1>1, <1>2 DEF Globals

\* Only Push and Pop change the depth.
LEMMA DepthNext ==
    ASSUME items \in Seq(Items), NEW item \in Items, items' = Append(items, item),
           NEW n, n = Len(items)
    PROVE  Depth(n + 1)'
              = Depth(n) + (IF item.type = "global" /\ item.tag = "Push" THEN 1
                            ELSE IF item.type = "global" /\ item.tag = "Pop" THEN 0 - 1
                            ELSE 0)
<1>1. n \in Nat /\ n + 1 \notin 1..n
  BY AppendedItems
<1>2. \A tag : IsFiniteSet(Globals(tag, n))
               /\ n + 1 \notin Globals(tag, n)
               /\ Cardinality(Globals(tag, n)) \in Nat
  BY <1>1, GlobalsFinite
<1>3. \A tag : Cardinality(Globals(tag, n) \cup {n + 1})
                = Cardinality(Globals(tag, n)) + 1
  BY <1>2, FS_AddElement
<1>5. Depth(n + 1)'
        = Cardinality(Globals("Push", n + 1)') - Cardinality(Globals("Pop", n + 1)')
  BY DEF Depth
<1> DEFINE a == Cardinality(Globals("Push", n))
           b == Cardinality(Globals("Pop", n))
<1>6. a \in Nat /\ b \in Nat /\ Depth(n) = a - b
  BY <1>2 DEF Depth
<1>7. ASSUME NEW tag
      PROVE  Cardinality(Globals(tag, n + 1)')
                = Cardinality(Globals(tag, n))
                  + (IF item.type = "global" /\ item.tag = tag THEN 1 ELSE 0)
  <2>1. CASE item.type = "global" /\ item.tag = tag
    <3>1. Globals(tag, n + 1)' = Globals(tag, n) \cup {n + 1}
      BY <2>1, GlobalsNext
    <3> QED
      BY <1>3, <2>1, <3>1
  <2>2. CASE ~(item.type = "global" /\ item.tag = tag)
    <3>1. Globals(tag, n + 1)' = Globals(tag, n)
      BY <2>2, GlobalsNext
    <3>2. Cardinality(Globals(tag, n)) \in Nat
      BY <1>2
    <3> QED
      BY <2>2, <3>1, <3>2
  <2> QED
    BY <2>1, <2>2
<1>8. /\ Cardinality(Globals("Push", n + 1)')
            = a + (IF item.type = "global" /\ item.tag = "Push" THEN 1 ELSE 0)
      /\ Cardinality(Globals("Pop", n + 1)')
            = b + (IF item.type = "global" /\ item.tag = "Pop" THEN 1 ELSE 0)
  BY <1>7
<1> HIDE DEF a, b
<1> DEFINE push == item.type = "global" /\ item.tag = "Push"
           pop  == item.type = "global" /\ item.tag = "Pop"
<1>9. Depth(n + 1)' = (a + (IF push THEN 1 ELSE 0)) - (b + (IF pop THEN 1 ELSE 0))
  BY <1>5, <1>8
<1>10. push => ~pop
  BY Zenon
<1>11. Depth(n + 1)' = a - b + (IF push THEN 1 ELSE IF pop THEN 0 - 1 ELSE 0)
  <2> HIDE DEF push, pop
  <2> QED
    BY <1>6, <1>9, <1>10
<1> QED
  BY <1>6, <1>11

-----------------------------------------------------------------------------
(* The stack of frames                                                     *)

\* The items that set a global item of the frame at a depth of the stack.
Standing(tag, d) ==
    {j \in Globals(tag, Len(items)) :
        Depth(j) <= d /\ \A i \in j..Len(items) : Depth(i) >= Depth(j)}

\* What the last of them sets it to.
LastData(read, set) == IF set = {} THEN 0 ELSE read[Max(set)].data

\* The stack of frames holds, at every depth, the items that are in force
\* there.
Framed ==
    /\ Len(frames) = Depth(Len(items)) + 1
    /\ \A k \in 1..Len(frames) : \A tag \in GlobalTags :
           frames[k][tag] = LastData(items, Standing(tag, k - 1))

\* An item sets a global item.
Sets(item, tag) == item.type = "global" /\ item.tag = tag

\* The next item stands at its own depth of the stack and not below; nothing
\* that stood at a depth the stack still has falls.
LEMMA StandingNext ==
    ASSUME items \in Seq(Items), NEW item \in Items, items' = Append(items, item),
           NEW n, n = Len(items), NEW tag \in GlobalTags,
           NEW d \in Int, d <= Depth(n + 1)'
    PROVE  Standing(tag, d)'
              = Standing(tag, d)
                \cup (IF Sets(item, tag) /\ Depth(n + 1)' <= d THEN {n + 1} ELSE {})
<1>1. /\ n \in Nat
      /\ Len(items)' = n + 1
      /\ Depth(n + 1)' \in Int
  <2>1. Depth(n) \in Int /\ n \in Nat /\ Len(items)' = n + 1
    BY AppendedItems, DepthInteger
  <2> QED
    BY <2>1, DepthNext
<1>2. \A j \in 1..n : Depth(j)' = Depth(j) /\ Depth(j) \in Int
  BY <1>1, DepthKept, DepthInteger
<1>3. Globals(tag, n + 1)'
        = Globals(tag, n) \cup (IF Sets(item, tag) THEN {n + 1} ELSE {})
  BY GlobalsNext DEF Sets
<1>4. Globals(tag, n) \subseteq 1..n
  BY <1>1, GlobalsFinite
<1>5. Standing(tag, d)'
        = {j \in Globals(tag, n + 1)' :
              Depth(j)' <= d /\ \A i \in j..(n + 1) : Depth(i)' >= Depth(j)'}
  BY <1>1 DEF Standing
<1>6. Standing(tag, d)
        = {j \in Globals(tag, n) :
              Depth(j) <= d /\ \A i \in j..n : Depth(i) >= Depth(j)}
  BY DEF Standing
<1>7. ASSUME NEW j \in Globals(tag, n)
      PROVE  j \in Standing(tag, d)' <=> j \in Standing(tag, d)
  <2>1. /\ j \in 1..n
        /\ j..(n + 1) = (j..n) \cup {n + 1}
        /\ j..n \subseteq 1..n
        /\ j \in Globals(tag, n + 1)'
    BY <1>1, <1>3, <1>4
  <2>2. Depth(j)' = Depth(j) /\ Depth(j) \in Int
    BY <1>2, <2>1
  <2>3. Depth(j) <= d => Depth(n + 1)' >= Depth(j)'
    BY <1>1, <2>2
  <2>4. \A i \in j..n : Depth(i)' = Depth(i)
    BY <1>2, <2>1
  <2> QED
    BY <1>5, <1>6, <2>1, <2>2, <2>3, <2>4
<1>8. n + 1 \in Standing(tag, d)' <=> Sets(item, tag) /\ Depth(n + 1)' <= d
  <2>1. (n + 1)..(n + 1) = {n + 1} /\ n + 1 \notin Globals(tag, n)
    BY <1>1, <1>4
  <2>2. Depth(n + 1)' >= Depth(n + 1)'
    BY <1>1
  <2>3. n + 1 \in Globals(tag, n + 1)' <=> Sets(item, tag)
    BY <1>3, <2>1
  <2> QED
    BY <1>5, <2>1, <2>2, <2>3
<1>9. /\ Standing(tag, d)' \subseteq Globals(tag, n) \cup {n + 1}
      /\ Standing(tag, d) \subseteq Globals(tag, n)
  BY <1>3, <1>5, <1>6
<1> QED
  BY <1>7, <1>8, <1>9

LEMMA StandingBounded ==
    ASSUME items \in Seq(Items), NEW tag, NEW d \in Int
    PROVE  Standing(tag, d) \subseteq 1..Len(items)
  BY GlobalsFinite, LenProperties DEF Standing

\* The last of a set of items has the data it had, and an item that joins
\* the set is the last.
LEMMA LastDataKept ==
    ASSUME items \in Seq(Items), NEW item \in Items, items' = Append(items, item),
           NEW S, S \subseteq 1..Len(items)
    PROVE  LastData(items', S) = LastData(items, S)
<1>1. CASE S = {}
  BY <1>1 DEF LastData
<1>2. CASE S # {}
  <2>1. Len(items) \in Nat
    BY LenProperties
  <2>2. Max(S) \in S
    BY <1>2, <2>1, LastExists
  <2>3. items'[Max(S)] = items[Max(S)]
    BY <2>2, AppendedItems
  <2> QED
    BY <2>3 DEF LastData
<1> QED
  BY <1>1, <1>2

LEMMA LastDataNext ==
    ASSUME items \in Seq(Items), NEW item \in Items, items' = Append(items, item),
           NEW n, n = Len(items), NEW S, S \subseteq 1..n
    PROVE  LastData(items', S \cup {n + 1}) = item.data
<1>1. n \in Nat /\ items'[n + 1] = item
  BY AppendedItems
<1>2. Max(S \cup {n + 1}) = n + 1
  <2>0. \A j \in 1..n : j \in Nat /\ j <= n + 1
    BY <1>1
  <2>00. n + 1 \in Nat /\ n + 1 <= n + 1
    BY <1>1
  <2>1. S \cup {n + 1} \subseteq Nat
    BY <2>0, <2>00
  <2>2. \A j \in S \cup {n + 1} : j <= n + 1
    BY <2>0, <2>00
  <2> QED
    BY <2>1, <2>2, LastIs
<1> QED
  BY <1>1, <1>2 DEF LastData

LEMMA InForceIs ==
    ASSUME NEW tag, NEW n
    PROVE  InForce(tag, n) = LastData(items, Setters(tag, n))
  BY DEF InForce, LastData

\* The frame the parser uses holds what is in force for the next item.
LEMMA CurrentInForce ==
    ASSUME DescriptorTypeOK, Framed, NEW n, n = Len(items), NEW tag \in GlobalTags
    PROVE  Current[tag] = InForce(tag, n + 1)
<1>1. /\ n \in Nat
      /\ Len(frames) \in 1..Len(frames)
      /\ Len(frames) \in Nat
  BY LenProperties, DescriptorAssumption DEF DescriptorTypeOK
<1>2. Depth(n) \in Int /\ Len(frames) - 1 = Depth(n)
  BY <1>1, DepthInteger DEF Framed
<1>3. Current[tag] = LastData(items, Standing(tag, Depth(n)))
  BY <1>1, <1>2 DEF Framed, Current
<1>4. Standing(tag, Depth(n)) = Setters(tag, n + 1)
  <2>1. (n + 1) - 1 = n
    BY <1>1
  <2>2. \A j \in Globals(tag, n) : n \in j..n
    BY <1>1, GlobalsFinite
  <2>3. Setters(tag, n + 1)
          = {j \in Globals(tag, n) : \A i \in j..n : Depth(i) >= Depth(j)}
    BY <2>1 DEF Setters
  <2>4. Standing(tag, Depth(n))
          = {j \in Globals(tag, n) :
                Depth(j) <= Depth(n) /\ \A i \in j..n : Depth(i) >= Depth(j)}
    BY DEF Standing
  <2>5. ASSUME NEW j \in Globals(tag, n), \A i \in j..n : Depth(i) >= Depth(j)
        PROVE  Depth(j) <= Depth(n)
    <3>1. Depth(n) >= Depth(j)
      BY <2>2, <2>5
    <3>2. Depth(j) \in Int
      BY <1>1, GlobalsFinite, DepthInteger
    <3> QED
      BY <1>2, <3>1, <3>2
  <2> QED
    BY <2>3, <2>4, <2>5
<1> QED
  BY <1>3, <1>4, InForceIs

\* The stack of frames stays true to the items: a global item changes the
\* top frame only, Push copies the top, where nothing stands that did not
\* stand below, and Pop uncovers the frame below as it was.
LEMMA FramedStep ==
    ASSUME DescriptorTypeOK, Framed, NEW item \in Items, ReadItem(item),
           parser' # "failed"
    PROVE  Framed'
<1> PICK n : n = Len(items)
  OBVIOUS
<1> DEFINE D == Depth(n)
           E == Depth(n + 1)'
<1>1. /\ items \in Seq(Items)
      /\ items' = Append(items, item)
      /\ frames \in Seq(Frame)
      /\ Len(frames) \in Nat \ {0}
      /\ n \in Nat
      /\ Len(items)' = n + 1
      /\ D \in Int
      /\ Len(frames) = D + 1
  <2>1. items \in Seq(Items) /\ items' = Append(items, item)
    BY DEF DescriptorTypeOK, ReadItem
  <2>2. n \in Nat /\ Len(items)' = n + 1
    BY <2>1, AppendedItems
  <2> QED
    BY <2>1, <2>2, DepthInteger, DescriptorAssumption DEF DescriptorTypeOK, Framed
<1>2. E = D + (IF item.type = "global" /\ item.tag = "Push" THEN 1
               ELSE IF item.type = "global" /\ item.tag = "Pop" THEN 0 - 1
               ELSE 0)
  BY <1>1, DepthNext
<1>3. E \in Int
  BY <1>1, <1>2
<1> HIDE DEF D, E
\* What stands at a depth the stack still has.
<1>4. ASSUME NEW k \in 1..(E + 1), NEW tag \in GlobalTags
      PROVE  LastData(items', Standing(tag, k - 1)')
                = IF Sets(item, tag) /\ E = k - 1 THEN item.data
                  ELSE LastData(items, Standing(tag, k - 1))
  <2>1. k - 1 \in Int /\ k - 1 <= E
    BY <1>3
  <2>2. Standing(tag, k - 1)'
          = Standing(tag, k - 1)
            \cup (IF Sets(item, tag) /\ E <= k - 1 THEN {n + 1} ELSE {})
    BY <1>1, <2>1, StandingNext DEF E
  <2>3. Standing(tag, k - 1) \subseteq 1..n
    BY <1>1, <2>1, StandingBounded
  <2>4. E <= k - 1 <=> E = k - 1
    BY <1>3, <2>1
  <2>5. CASE Sets(item, tag) /\ E = k - 1
    <3>1. Standing(tag, k - 1)' = Standing(tag, k - 1) \cup {n + 1}
      BY <2>2, <2>4, <2>5
    <3>2. LastData(items', Standing(tag, k - 1) \cup {n + 1}) = item.data
      BY <1>1, <2>3, LastDataNext
    <3> QED
      BY <2>5, <3>1, <3>2
  <2>6. CASE ~(Sets(item, tag) /\ E = k - 1)
    <3>1. Standing(tag, k - 1)' = Standing(tag, k - 1)
      BY <2>2, <2>4, <2>6
    <3>2. LastData(items', Standing(tag, k - 1)) = LastData(items, Standing(tag, k - 1))
      BY <1>1, <2>3, LastDataKept
    <3> QED
      BY <2>6, <3>1, <3>2
  <2> QED
    BY <2>5, <2>6
<1>5. SUFFICES /\ Len(frames') = E + 1
               /\ \A k \in 1..(E + 1) : \A tag \in GlobalTags :
                     frames'[k][tag] = IF Sets(item, tag) /\ E = k - 1 THEN item.data
                                       ELSE LastData(items, Standing(tag, k - 1))
  BY <1>1, <1>4 DEF Framed, E
<1>6. \A k \in 1..(D + 1) : \A tag \in GlobalTags :
         frames[k][tag] = LastData(items, Standing(tag, k - 1))
  BY <1>1 DEF Framed
<1>7. CASE SetGlobalItem(item)
  <2>1. /\ E = D
        /\ item.type = "global"
        /\ item.tag \in GlobalTags
        /\ frames' = [frames EXCEPT ![Len(frames)][item.tag] = item.data]
    BY <1>1, <1>2, <1>7 DEF SetGlobalItem, GlobalTags
  <2>2. Len(frames') = E + 1
    BY <1>1, <2>1
  <2>3. ASSUME NEW k \in 1..(E + 1), NEW tag \in GlobalTags
        PROVE  frames'[k][tag] = IF Sets(item, tag) /\ E = k - 1 THEN item.data
                                 ELSE LastData(items, Standing(tag, k - 1))
    <3>1. k \in 1..Len(frames) /\ frames[k] \in Frame
      BY <1>1, <2>1, ElementOfSeq
    <3>2. DOMAIN frames[k] = {"ReportId", "ReportCount", "ReportSize"}
      BY <3>1 DEF Frame
    <3>3. E = k - 1 <=> k = Len(frames)
      <4>1. k \in Int /\ D \in Int /\ E = D /\ Len(frames) = D + 1
        BY <1>1, <2>1, <3>1
      <4> QED
        BY <4>1
    <3>4. frames'[k] = IF k = Len(frames) THEN [frames[k] EXCEPT ![item.tag] = item.data]
                       ELSE frames[k]
      <4> DEFINE set == [frames[Len(frames)] EXCEPT ![item.tag] = item.data]
      <4>1. frames' = [frames EXCEPT ![Len(frames)] = set]
        BY <2>1
      <4>2. DOMAIN frames = 1..Len(frames)
        BY <1>1
      <4> HIDE DEF set
      <4>3. frames'[k] = IF k = Len(frames) THEN set ELSE frames[k]
        BY <3>1, <4>1, <4>2
      <4> QED
        BY <4>3 DEF set
    <3>5. frames'[k][tag] = IF k = Len(frames) /\ item.tag = tag THEN item.data
                            ELSE frames[k][tag]
      BY <3>2, <3>4 DEF GlobalTags
    <3> QED
      BY <1>6, <2>1, <3>3, <3>5 DEF Sets
  <2> QED
    BY <2>2, <2>3
<1>8. ASSUME item.type = "global" => item.tag \notin GlobalTags
      PROVE  \A tag \in GlobalTags : ~Sets(item, tag)
  BY <1>8 DEF Sets
<1>9. CASE PushFrame(item)
  <2>1. E = D + 1 /\ frames' = Append(frames, frames[Len(frames)])
    BY <1>2, <1>9 DEF PushFrame, Current
  <2>2. /\ Len(frames') = Len(frames) + 1
        /\ \A k \in 1..Len(frames) : frames'[k] = frames[k]
        /\ frames'[Len(frames) + 1] = frames[Len(frames)]
    <3>1. frames[Len(frames)] \in Frame
      BY <1>1, ElementOfSeq
    <3> QED
      BY <1>1, <2>1, <3>1, AppendProperties
  <2>3. \A tag \in GlobalTags : ~Sets(item, tag)
    BY <1>8, <1>9 DEF PushFrame, GlobalTags
  <2>4. ASSUME NEW k \in 1..(E + 1), NEW tag \in GlobalTags
        PROVE  frames'[k][tag] = LastData(items, Standing(tag, k - 1))
    <3>1. CASE k \in 1..(D + 1)
      BY <1>1, <1>6, <2>2, <3>1
    <3>2. CASE k = D + 2
      <4>1. frames'[k] = frames[D + 1]
        BY <1>1, <2>2, <3>2
      <4>2. frames[D + 1][tag] = LastData(items, Standing(tag, D))
        <5>1. D + 1 \in 1..(D + 1) /\ (D + 1) - 1 = D
          BY <1>1
        <5> QED
          BY <1>6, <5>1
      <4>3. Standing(tag, D + 1) = Standing(tag, D)
        <5>1. ASSUME NEW j \in Globals(tag, n), \A i \in j..n : Depth(i) >= Depth(j)
              PROVE  Depth(j) <= D /\ Depth(j) <= D + 1
          <6>1. j \in 1..n
            BY <1>1, GlobalsFinite
          <6>2. n \in j..n /\ Depth(j) \in Int
            BY <1>1, <6>1, DepthInteger
          <6>3. D >= Depth(j)
            BY <5>1, <6>2 DEF D
          <6> QED
            BY <1>1, <6>2, <6>3
        <5> QED
          BY <5>1 DEF Standing
      <4>4. k - 1 = D + 1
        BY <1>1, <3>2
      <4> QED
        BY <4>1, <4>2, <4>3, <4>4
    <3> QED
      BY <1>1, <2>1, <3>1, <3>2
  <2> QED
    BY <1>1, <2>1, <2>2, <2>3, <2>4
<1>10. CASE PopFrame(item)
  <2>1. /\ E = D - 1
        /\ frames' = SubSeq(frames, 1, Len(frames) - 1)
        /\ Len(frames) > 1
    BY <1>1, <1>2, <1>10 DEF PopFrame
  <2>2. /\ Len(frames') = Len(frames) - 1
        /\ \A k \in 1..(Len(frames) - 1) : frames'[k] = frames[k]
    BY <1>1, <2>1
  <2>3. \A tag \in GlobalTags : ~Sets(item, tag)
    BY <1>8, <1>10 DEF PopFrame, GlobalTags
  <2> QED
    BY <1>1, <1>6, <2>1, <2>2, <2>3
<1>11. CASE AddMainItem(item) \/ SkipItem(item)
  <2>1. item.type # "global" /\ frames' = frames
    BY <1>11 DEF AddMainItem, SkipItem
  <2>2. E = D
    BY <1>1, <1>2, <2>1
  <2>3. \A tag \in GlobalTags : ~Sets(item, tag)
    BY <1>8, <2>1
  <2> QED
    BY <1>1, <1>6, <2>1, <2>2, <2>3
<1>12. ~RefuseItem(item)
  BY DEF RefuseItem
<1> QED
  BY <1>7, <1>9, <1>10, <1>11, <1>12 DEF ReadItem

-----------------------------------------------------------------------------
(* The bits of a report                                                    *)

LEMMA SettersBounded ==
    ASSUME NEW m \in Nat \ {0}, NEW tag
    PROVE  Setters(tag, m) \subseteq 1..(m - 1)
<1>1. m - 1 \in Nat
  OBVIOUS
<1> QED
  BY <1>1, GlobalsFinite DEF Setters

\* What is in force for an item does not change when more are read.
LEMMA InForceKept ==
    ASSUME items \in Seq(Items), NEW item \in Items, items' = Append(items, item),
           NEW m \in 1..(Len(items) + 1), NEW tag
    PROVE  InForce(tag, m)' = InForce(tag, m)
<1>1. Len(items) \in Nat /\ m \in Nat \ {0} /\ m - 1 \in 0..Len(items)
  BY LenProperties
<1>2. /\ Globals(tag, m - 1)' = Globals(tag, m - 1)
      /\ Globals(tag, m - 1) \subseteq 1..(m - 1)
  BY <1>1, GlobalsKept, GlobalsFinite
<1>3. \A i \in 1..(m - 1) : Depth(i)' = Depth(i)
  BY <1>1, DepthKept
<1>4. Setters(tag, m)'
        = {j \in Globals(tag, m - 1)' : \A i \in j..(m - 1) : Depth(i)' >= Depth(j)'}
  BY DEF Setters
<1>5. ASSUME NEW j \in Globals(tag, m - 1)
      PROVE  Depth(j)' = Depth(j) /\ \A i \in j..(m - 1) : Depth(i)' = Depth(i)
  <2>1. j \in 1..(m - 1) /\ j..(m - 1) \subseteq 1..(m - 1)
    BY <1>1, <1>2
  <2> QED
    BY <1>3, <2>1
<1>6. Setters(tag, m)' = Setters(tag, m)
  BY <1>2, <1>4, <1>5 DEF Setters
<1>7. Setters(tag, m) \subseteq 1..Len(items)
  BY <1>1, SettersBounded
<1>8. LastData(items', Setters(tag, m)) = LastData(items, Setters(tag, m))
  BY <1>7, LastDataKept
<1>9. InForce(tag, m)' = LastData(items', Setters(tag, m)')
  BY DEF InForce, LastData
<1> QED
  BY <1>6, <1>8, <1>9, InForceIs

\* Global items in force are sizes and counts.
LEMMA InForceNatural ==
    ASSUME items \in Seq(Items), NEW m \in 1..(Len(items) + 1), NEW tag \in GlobalTags
    PROVE  InForce(tag, m) \in Nat
<1>1. Len(items) \in Nat /\ m \in Nat \ {0} /\ m - 1 \in 0..Len(items)
  BY LenProperties
<1>2. CASE Setters(tag, m) = {}
  BY <1>2 DEF InForce
<1>3. CASE Setters(tag, m) # {}
  <2> PICK j \in Setters(tag, m) : j = Max(Setters(tag, m))
    BY <1>1, <1>3, SettersBounded, LastExists
  <2>1. j \in Globals(tag, m - 1) /\ j \in 1..Len(items)
    BY <1>1, SettersBounded DEF Setters
  <2>2. items[j] \in Items /\ items[j].type = "global" /\ items[j].tag = tag
    BY <2>1, ElementOfSeq DEF Globals
  <2>3. items[j].data \in 0..ULongMax
    BY <2>2, ItemFacts DEF GlobalTags
  <2> QED
    BY <1>3, <2>3, DescriptorAssumption DEF InForce
<1> QED
  BY <1>2, <1>3

LEMMA DeclaredItemsNatural ==
    ASSUME items \in Seq(Items), NEW kind, NEW id
    PROVE  /\ IsFiniteSet(DOMAIN DeclaredItems(kind, id))
           /\ DOMAIN DeclaredItems(kind, id) \subseteq 1..Len(items)
           /\ \A m \in DOMAIN DeclaredItems(kind, id) : DeclaredItems(kind, id)[m] \in Nat
<1>1. Len(items) \in Nat
  BY LenProperties
<1>2. DOMAIN DeclaredItems(kind, id) \subseteq 1..Len(items)
  BY DEF DeclaredItems
<1>3. IsFiniteSet(1..Len(items))
  BY <1>1, FS_Interval
<1>4. ASSUME NEW m \in 1..Len(items)
      PROVE  InForce("ReportSize", m) * InForce("ReportCount", m) \in Nat
  <2>1. m \in 1..(Len(items) + 1)
    BY <1>1
  <2> QED
    BY <2>1, InForceNatural, ProductIsNatural DEF GlobalTags
<1> QED
  BY <1>2, <1>3, <1>4, FS_Subset DEF DeclaredItems

LEMMA DeclaredBitsNatural ==
    ASSUME items \in Seq(Items), NEW kind, NEW id
    PROVE  DeclaredBits(kind, id) \in Nat
  BY DeclaredItemsNatural, SumFunctionNatural DEF DeclaredBits

\* A main item adds to its report what the current frame says, and nothing
\* to any other.
LEMMA DeclaredBitsNext ==
    ASSUME DescriptorTypeOK, Framed, NEW item \in Items,
           items' = Append(items, item), NEW kind, NEW id
    PROVE  DeclaredBits(kind, id)'
              = DeclaredBits(kind, id)
                + (IF item.type = "main" /\ item.tag = kind /\ Current.ReportId = id
                   THEN ReportDataBits ELSE 0)
<1> PICK n : n = Len(items)
  OBVIOUS
<1> PICK v : v = DeclaredItems(kind, id)
  OBVIOUS
<1> PICK w : w = DeclaredItems(kind, id)'
  OBVIOUS
<1> DEFINE adds == item.type = "main" /\ item.tag = kind /\ Current.ReportId = id
<1>1. /\ items \in Seq(Items)
      /\ items' \in Seq(Items)
      /\ n \in Nat
      /\ Len(items)' = n + 1
      /\ items'[n + 1] = item
      /\ \A m \in 1..n : items'[m] = items[m]
      /\ 1..(n + 1) = (1..n) \cup {n + 1}
      /\ n + 1 \notin 1..n
  <2>1. items \in Seq(Items)
    BY DEF DescriptorTypeOK
  <2>2. n \in Nat
    BY <2>1, LenProperties
  <2> QED
    BY <2>1, <2>2, AppendedItems
<1>2. \A m \in 1..(n + 1) : \A tag : InForce(tag, m)' = InForce(tag, m)
  BY <1>1, InForceKept
<1>3. /\ Current.ReportId = InForce("ReportId", n + 1)
      /\ Current.ReportSize = InForce("ReportSize", n + 1)
      /\ Current.ReportCount = InForce("ReportCount", n + 1)
  <2>1. \A tag \in GlobalTags : Current[tag] = InForce(tag, n + 1)
    BY CurrentInForce
  <2> QED
    BY <2>1 DEF GlobalTags
<1>4. v = [m \in {m \in 1..n : /\ items[m].type = "main"
                               /\ items[m].tag = kind
                               /\ InForce("ReportId", m) = id}
             |-> InForce("ReportSize", m) * InForce("ReportCount", m)]
  BY DEF DeclaredItems
<1>5. w = [m \in {m \in 1..(n + 1) : /\ items'[m].type = "main"
                                     /\ items'[m].tag = kind
                                     /\ InForce("ReportId", m)' = id}
             |-> InForce("ReportSize", m)' * InForce("ReportCount", m)']
  BY <1>1 DEF DeclaredItems
<1>6. \A m \in 1..n : m \in DOMAIN w <=> m \in DOMAIN v
  BY <1>1, <1>2, <1>4, <1>5
<1>7. n + 1 \in DOMAIN w <=> adds
  BY <1>1, <1>2, <1>3, <1>5
<1>8. DOMAIN w \subseteq 1..(n + 1) /\ DOMAIN v \subseteq 1..n
  BY <1>4, <1>5
<1>9. DOMAIN w = DOMAIN v \cup (IF adds THEN {n + 1} ELSE {})
  <2> HIDE DEF adds
  <2> QED
    BY <1>1, <1>6, <1>7, <1>8
<1>10. \A m \in DOMAIN v : v[m] = w[m]
  <2> TAKE m \in DOMAIN v
  <2>1. m \in 1..n /\ m \in 1..(n + 1) /\ m \in DOMAIN w
    BY <1>1, <1>6, <1>8
  <2>2. v[m] = InForce("ReportSize", m) * InForce("ReportCount", m)
    BY <1>4
  <2>3. w[m] = InForce("ReportSize", m)' * InForce("ReportCount", m)'
    BY <1>5, <2>1
  <2> QED
    BY <1>2, <2>1, <2>2, <2>3
<1>11. DeclaredBits(kind, id) = SumFunction(v) /\ DeclaredBits(kind, id)' = SumFunction(w)
  BY DEF DeclaredBits
<1>12. SumFunction(v) \in Nat /\ IsFiniteSet(DOMAIN v) /\ \A m \in DOMAIN v : v[m] \in Nat
  BY <1>1, <1>11, DeclaredItemsNatural, DeclaredBitsNatural
<1>13. CASE adds
  <2>1. w[n + 1] = ReportDataBits
    <3>1. w[n + 1] = InForce("ReportSize", n + 1)' * InForce("ReportCount", n + 1)'
      BY <1>5, <1>7, <1>13
    <3> QED
      BY <1>1, <1>2, <1>3, <3>1 DEF ReportDataBits
  <2>2. DOMAIN w = DOMAIN v \cup {n + 1} /\ n + 1 \notin DOMAIN v
    BY <1>1, <1>8, <1>9, <1>13
  <2>3. \A m \in DOMAIN w : w[m] \in Nat
    BY <1>10, <1>12, <2>1, <2>2, ReportDataBitsNatural
  <2>4. SumFunction(w) = SumFunction(v) + w[n + 1]
    BY <1>10, <1>12, <2>2, <2>3, SumFunctionGrows
  <2> QED
    BY <1>11, <1>13, <2>1, <2>4
<1>14. CASE ~adds
  <2>1. v = w
    <3>1. DOMAIN v = DOMAIN w
      BY <1>9, <1>14
    <3>2. v = [m \in DOMAIN v |-> v[m]] /\ w = [m \in DOMAIN w |-> w[m]]
      BY <1>4, <1>5
    <3> QED
      BY <1>10, <3>1, <3>2
  <2> QED
    BY <1>11, <1>12, <1>14, <2>1
<1> QED
  BY <1>13, <1>14

\* The least number of bytes that hold b bits.
LEMMA WholeBytes ==
    ASSUME NEW b \in Nat \ {0}
    PROVE  Min({n \in 1..b : 8 * n >= b}) = (b \div 8) + (IF b % 8 # 0 THEN 1 ELSE 0)
<1> DEFINE q == (b \div 8) + (IF b % 8 # 0 THEN 1 ELSE 0)
           S == {n \in 1..b : 8 * n >= b}
<1>1. /\ b \div 8 \in Nat
      /\ b % 8 \in 0..7
      /\ b = 8 * (b \div 8) + (b % 8)
  OBVIOUS
<1>2. q \in S /\ \A n \in S : q <= n
  <2> DEFINE d == b \div 8
             r == b % 8
  <2>1. d \in Nat /\ r \in 0..7 /\ b = 8 * d + r /\ q = d + (IF r # 0 THEN 1 ELSE 0)
    BY <1>1
  <2> HIDE DEF d, r, q
  <2>2. q \in 1..b /\ 8 * q >= b
    BY <2>1
  <2>3. \A n \in 1..b : 8 * n >= b => q <= n
    BY <2>1
  <2> QED
    BY <2>2, <2>3
<1>3. \A x \in S : (\A y \in S : x =< y) => x = q
  <2> TAKE x \in S
  <2>1. x \in Int /\ q \in Int /\ q <= x
    BY <1>2
  <2> HIDE DEF q, S
  <2> QED
    BY <1>2, <2>1
<1> HIDE DEF q, S
<1>4. Min(S) = q
  BY <1>2, <1>3, Zenon DEF Min
<1> QED
  BY <1>4 DEF q, S

-----------------------------------------------------------------------------
(* The sizes the driver keeps                                              *)

\* All of this depends on the items only.
LEMMA SameItems ==
    ASSUME items' = items, NEW kind, NEW id
    PROVE  /\ DeclaredBits(kind, id)' = DeclaredBits(kind, id)
           /\ DeclaredBytes(kind, id)' = DeclaredBytes(kind, id)
           /\ \A tag : Globals(tag, Len(items))' = Globals(tag, Len(items))
           /\ Framed /\ frames' = frames => Framed'
<1>1. \A tag, n : Globals(tag, n)' = Globals(tag, n)
  BY DEF Globals
<1>2. \A n : Depth(n)' = Depth(n)
  BY <1>1 DEF Depth
<1>3. \A tag, n : Setters(tag, n)' = Setters(tag, n)
  BY <1>1, <1>2 DEF Setters
<1>4. \A tag, n : InForce(tag, n)' = InForce(tag, n)
  BY <1>3 DEF InForce
<1>5. DeclaredItems(kind, id)' = DeclaredItems(kind, id)
  BY <1>4 DEF DeclaredItems
<1>6. DeclaredBits(kind, id)' = DeclaredBits(kind, id)
  BY <1>5 DEF DeclaredBits
<1>7. \A tag : Globals(tag, Len(items))' = Globals(tag, Len(items))
  BY DEF Globals
<1>8. DeclaredBytes(kind, id)' = DeclaredBytes(kind, id)
  BY <1>6, <1>7 DEF DeclaredBytes
<1>9. \A tag, d : Standing(tag, d)' = Standing(tag, d)
  BY <1>1, <1>2, <1>7 DEF Standing
<1>10. Depth(Len(items))' = Depth(Len(items))
  BY <1>1 DEF Depth
<1>11. Framed /\ frames' = frames => Framed'
  BY <1>9, <1>10 DEF Framed
<1> QED
  BY <1>6, <1>7, <1>8, <1>11

\* While a descriptor is read, the stack and the flag of numbered reports
\* agree with what has been read of it.
Measured ==
    parser = "items" =>
        /\ Framed
        /\ NumberedReports <=> Globals("ReportId", Len(items)) # {}

\* Every round of the loop keeps the sums true to the items.
LEMMA MeasuredReadItem ==
    ASSUME DescriptorTypeOK, Measured, SizesAsDeclared,
           NEW item \in Items, ReadItem(item)
    PROVE  Measured' /\ SizesAsDeclared'
<1>1. CASE parser' = "failed"
  BY <1>1 DEF Measured, SizesAsDeclared
<1>2. CASE parser' # "failed"
  <2> PICK n : n = Len(items)
    OBVIOUS
  <2>1. /\ parser = "items"
        /\ Framed
        /\ items \in Seq(Items)
        /\ items' = Append(items, item)
        /\ Len(items)' = n + 1
    BY AppendedItems DEF ReadItem, Measured, DescriptorTypeOK
  <2>2. parser' = "items" /\ ~RefuseItem(item)
    BY <1>2, <2>1 DEF ReadItem, SetGlobalItem, PushFrame, PopFrame, AddMainItem,
                      SkipItem, RefuseItem
  <2>3. Framed'
    BY <1>2, <2>1, FramedStep
  <2>4. NumberedReports' <=> NumberedReports \/ Sets(item, "ReportId")
    <3>1. NumberedReports \in BOOLEAN
      BY DEF DescriptorTypeOK
    <3>2. CASE SetGlobalItem(item)
      <4>1. /\ item.type = "global"
            /\ NumberedReports' = (NumberedReports \/ item.tag = "ReportId")
        BY <3>2 DEF SetGlobalItem
      <4> QED
        BY <3>1, <4>1, Zenon DEF Sets
    <3>3. CASE PushFrame(item) \/ PopFrame(item) \/ AddMainItem(item) \/ SkipItem(item)
      <4>1. NumberedReports' = NumberedReports /\ ~Sets(item, "ReportId")
        BY <3>3 DEF PushFrame, PopFrame, AddMainItem, SkipItem, Sets
      <4> QED
        BY <4>1
    <3> QED
      BY <2>2, <3>2, <3>3 DEF ReadItem
  <2>5. Globals("ReportId", n + 1)'
          = Globals("ReportId", n) \cup (IF Sets(item, "ReportId") THEN {n + 1} ELSE {})
    BY <2>1, GlobalsNext DEF Sets
  <2>6. Globals("ReportId", Len(items))' = Globals("ReportId", n + 1)'
    BY <2>1 DEF Globals
  <2>7. Measured'
    BY <2>1, <2>3, <2>4, <2>5, <2>6 DEF Measured
  <2>8. ASSUME NEW kind \in Kinds, NEW id \in ReportIds
        PROVE  ReportSizes'[kind][id] = DeclaredBits(kind, id)'
    <3>1. /\ ReportSizes[kind][id] = DeclaredBits(kind, id)
          /\ DeclaredBits(kind, id) \in Nat
          /\ ReportSizes \in [Kinds -> [ReportIds -> 0..(ULongMax + 1)]]
      BY <2>1, DeclaredBitsNatural DEF SizesAsDeclared, DescriptorTypeOK
    <3> DEFINE adds == item.type = "main" /\ item.tag = kind /\ Current.ReportId = id
    <3>2. DeclaredBits(kind, id)'
            = DeclaredBits(kind, id) + (IF adds THEN ReportDataBits ELSE 0)
      BY <2>1, DeclaredBitsNext
    <3>3. CASE adds
      <4>1. AddMainItem(item)
        BY <2>1, <2>2, <3>3 DEF ReadItem, SetGlobalItem, PushFrame, PopFrame, SkipItem
      <4>2. ReportSizes'[kind][id] = ReportSizes[kind][id] + ReportDataBits
        BY <3>1, <3>3, <4>1 DEF AddMainItem
      <4> QED
        BY <3>1, <3>2, <3>3, <4>2
    <3>4. CASE ~adds
      <4>1. ReportSizes'[kind][id] = ReportSizes[kind][id]
        <5>1. CASE AddMainItem(item) /\ item.tag \in Kinds
          <6>1. ReportSizes' = [ReportSizes EXCEPT
                   ![item.tag][Current.ReportId] = @ + ReportDataBits]
            BY <5>1 DEF AddMainItem
          <6>2. ~(item.tag = kind /\ Current.ReportId = id)
            BY <3>4, <5>1 DEF AddMainItem
          <6> QED
            BY <3>1, <6>1, <6>2
        <5>2. CASE ReportSizes' = ReportSizes
          BY <5>2
        <5> QED
          BY <2>2, <5>1, <5>2
          DEF ReadItem, SetGlobalItem, PushFrame, PopFrame, AddMainItem, SkipItem
      <4> QED
        BY <3>1, <3>2, <3>4, <4>1
    <3> QED
      BY <3>3, <3>4
  <2>9. SizesAsDeclared'
    BY <2>2, <2>8 DEF SizesAsDeclared
  <2> QED
    BY <2>7, <2>9
<1> QED
  BY <1>1, <1>2

\* The end of the descriptor makes bytes of the bits.
LEMMA MeasuredEndParse ==
    ASSUME DescriptorTypeOK, Measured, SizesAsDeclared, EndParse
    PROVE  Measured' /\ SizesAsDeclared'
<1>1. parser = "items" /\ parser' = "done" /\ items' = items /\ items \in Seq(Items)
  BY DEF EndParse, DescriptorTypeOK
<1>2. ASSUME NEW kind \in Kinds, NEW id \in ReportIds
      PROVE  ReportSizes'[kind][id] = DeclaredBytes(kind, id)'
  <2> PICK b : b = DeclaredBits(kind, id)
    OBVIOUS
  <2>1. b \in Nat /\ ReportSizes[kind][id] = b
    BY <1>1, DeclaredBitsNatural DEF SizesAsDeclared
  <2>2. ReportSizes'[kind][id]
          = IF b = 0 THEN 0 ELSE PostProcessReportSize(b, NumberedReports)
    BY <2>1 DEF EndParse
  <2>3. DeclaredBytes(kind, id)
          = IF b = 0 THEN 0
            ELSE Min({n \in 1..b : 8 * n >= b})
                 + (IF Globals("ReportId", Len(items)) = {} THEN 0 ELSE 1)
    BY DEF DeclaredBytes
  <2>4. NumberedReports <=> Globals("ReportId", Len(items)) # {}
    BY <1>1 DEF Measured
  <2>5. CASE b = 0
    BY <1>1, <2>2, <2>3, <2>5, SameItems
  <2>6. CASE b # 0
    <3>1. Min({n \in 1..b : 8 * n >= b}) = (b \div 8) + (IF b % 8 # 0 THEN 1 ELSE 0)
      BY <2>1, <2>6, WholeBytes
    <3>2. PostProcessReportSize(b, NumberedReports) = DeclaredBytes(kind, id)
      BY <2>3, <2>4, <2>6, <3>1 DEF PostProcessReportSize
    <3> QED
      BY <1>1, <2>2, <2>6, <3>2, SameItems
  <2> QED
    BY <2>5, <2>6
<1> QED
  BY <1>1, <1>2 DEF Measured, SizesAsDeclared

\* A new descriptor finds nothing left of one that was refused.
LEMMA MeasuredBeginParse ==
    ASSUME BeginParse
    PROVE  Measured' /\ SizesAsDeclared'
<1>1. /\ parser' = "items"
      /\ items' = <<>>
      /\ frames' = <<ZeroFrame>>
      /\ ReportSizes' = ZeroSizes
      /\ NumberedReports' = FALSE
      /\ Len(items)' = 0
  BY DEF BeginParse
<1>2. \A tag : Globals(tag, 0)' = {}
  BY DEF Globals
<1>3. \A tag : Globals(tag, Len(items))' = {}
  BY <1>1 DEF Globals
<1>4. Depth(Len(items))' = 0
  <2>1. Cardinality({}) = 0
    BY FS_EmptySet
  <2>2. Depth(Len(items))'
          = Cardinality(Globals("Push", Len(items))')
            - Cardinality(Globals("Pop", Len(items))')
    BY DEF Depth
  <2>3. /\ Cardinality(Globals("Push", Len(items))') = 0
        /\ Cardinality(Globals("Pop", Len(items))') = 0
    BY <1>3, <2>1
  <2> QED
    BY <2>2, <2>3
<1>5. \A tag, d : Standing(tag, d)' = {}
  BY <1>3 DEF Standing
<1>6. Framed'
  <2>1. Len(frames)' = 1 /\ frames'[1] = ZeroFrame
    BY <1>1
  <2>2. \A tag \in GlobalTags : ZeroFrame[tag] = 0
    BY DEF ZeroFrame, GlobalTags
  <2>3. \A tag, d : LastData(items', Standing(tag, d)') = 0
    BY <1>5 DEF LastData
  <2> QED
    BY <1>4, <2>1, <2>2, <2>3 DEF Framed
<1>7. \A kind, id : DeclaredBits(kind, id)' = 0
  <2> TAKE kind, id
  <2>1. DOMAIN DeclaredItems(kind, id)' = {}
    BY <1>1 DEF DeclaredItems
  <2> QED
    BY <2>1, SumFunctionEmpty DEF DeclaredBits
<1> QED
  BY <1>1, <1>3, <1>6, <1>7 DEF Measured, SizesAsDeclared, ZeroSizes

LEMMA MeasuredStep ==
    TypeOK /\ Measured /\ SizesAsDeclared /\ [Next]_vars => Measured' /\ SizesAsDeclared'
<1> SUFFICES ASSUME TypeOK, Measured, SizesAsDeclared, [Next]_vars
             PROVE  Measured' /\ SizesAsDeclared'
  OBVIOUS
<1>1. CASE BeginParse
  BY <1>1, MeasuredBeginParse
<1>2. CASE ResetDescriptor
  BY <1>2 DEF ResetDescriptor, Measured, SizesAsDeclared
<1>3. CASE EndParse
  BY <1>3, MeasuredEndParse DEF TypeOK
<1>4. CASE \E item \in Items : ReadItem(item)
  BY <1>4, MeasuredReadItem DEF TypeOK
<1>5. CASE UNCHANGED descriptor
  <2>1. UNCHANGED <<parser, items, frames, ReportSizes, NumberedReports>>
    BY <1>5 DEF descriptor
  <2> QED
    BY <2>1, SameItems DEF Measured, SizesAsDeclared
<1> QED
  BY <1>1, <1>2, <1>3, <1>4, <1>5, DescriptorSteps

\* The sizes the driver clamps transfers to are those the descriptor declares,
\* by the HID specification's reading of its global items.
THEOREM SizesAreDeclared == Spec => []SizesAsDeclared
<1>1. Init => Measured /\ SizesAsDeclared
  BY DEF Init, InitDescriptor, Measured, SizesAsDeclared
<1>2. (TypeOK /\ SumsFit /\ StagesOK) /\ (Measured /\ SizesAsDeclared) /\ [Next]_vars
      => (Measured /\ SizesAsDeclared)'
  BY MeasuredStep
<1>3. Measured /\ SizesAsDeclared => SizesAsDeclared
  OBVIOUS
<1> QED
  BY <1>1, <1>2, <1>3, Invariance, PTL DEF Spec

=============================================================================
