--------------------------- MODULE ReportDescriptor ---------------------------
(***************************************************************************)
(* ParseReportDescriptor of the driver: one pass over the items of a HID   *)
(* report descriptor with a stack of global items, which sums up how many  *)
(* bits each report has and rounds the sums to bytes.                      *)
(*                                                                         *)
(* The bytes of a descriptor are only read by this pass, so that an item   *)
(* is chosen when the loop comes to it; items is what has been read.       *)
(***************************************************************************)
EXTENDS Integers, Sequences, FiniteSetsExt

CONSTANTS
    ULongMax,   \* the largest ULONG
    ReportIds,  \* the values of a UCHAR
    MaxFrames,  \* ARRAYSIZE(hidParserFrames)
    Items,      \* items of descriptors
    MaxItems    \* a bound on the length of descriptors

Kinds == {"Input", "Output", "Feature"}

Frame == [ReportId : ReportIds, ReportCount : 0..ULongMax,
          ReportSize : 0..ULongMax]

\* What the loop makes of an item's header and data: a main or global item
\* with its tag and data, one it skips (local and reserved types, long items
\* whose size is not that of a short one), or one whose header or data goes
\* beyond the end of the descriptor.
ItemType ==
    [type : {"main"}, tag : Kinds \cup {"Collection"}]
    \cup [type : {"global"},
          tag : {"ReportSize", "ReportId", "ReportCount"}, data : 0..ULongMax]
    \cup [type : {"global"}, tag : {"Push", "Pop"}]
    \cup [type : {"skipped", "truncated"}]

ASSUME DescriptorAssumption ==
    /\ ULongMax \in Nat
    /\ 0 \in ReportIds
    /\ ReportIds \subseteq 0..ULongMax
    /\ MaxFrames \in Nat \ {0}
    /\ Items \subseteq ItemType

VARIABLES
    parser,          \* "none", "items", "done", "failed"
    items,
    frames,          \* hidParserFrames[0..currentFrame]
    ReportSizes,     \* in bits, and in bytes when the parser is done
    NumberedReports

descriptor == <<parser, items, frames, ReportSizes, NumberedReports>>

ZeroFrame == [ReportId |-> 0, ReportCount |-> 0, ReportSize |-> 0]
ZeroSizes == [kind \in Kinds |-> [id \in ReportIds |-> 0]]

\* The file context of a new file object.
InitDescriptor ==
    /\ parser = "none"
    /\ items = <<>>
    /\ frames = <<ZeroFrame>>
    /\ ReportSizes = ZeroSizes
    /\ NumberedReports = FALSE

ResetDescriptor ==
    /\ parser' = "none"
    /\ items' = <<>>
    /\ frames' = <<ZeroFrame>>
    /\ ReportSizes' = ZeroSizes
    /\ NumberedReports' = FALSE

-----------------------------------------------------------------------------
(* The loop                                                                *)

\* Mutant: the sizes of a descriptor that was refused are kept.
BeginParseAgain ==
    /\ parser' = "items"
    /\ items' = <<>>
    /\ frames' = <<ZeroFrame>>
    /\ UNCHANGED <<ReportSizes, NumberedReports>>

\* Reinitialize parser state and parsed data.
BeginParse ==
    /\ parser' = "items"
    /\ items' = <<>>
    /\ frames' = <<ZeroFrame>>
    /\ ReportSizes' = ZeroSizes
    /\ NumberedReports' = FALSE

Current == frames[Len(frames)]

ReportDataBits == Current.ReportSize * Current.ReportCount

SetGlobalItem(item) ==
    /\ item.type = "global"
    /\ item.tag \in {"ReportSize", "ReportCount", "ReportId"}
    /\ item.tag = "ReportId" => item.data \in ReportIds
    /\ frames' = [frames EXCEPT ![Len(frames)][item.tag] = item.data]
    /\ NumberedReports' = (NumberedReports \/ item.tag = "ReportId")
    /\ UNCHANGED <<parser, ReportSizes>>

\* Mutant: the stack of frames may overrun its array.
PushFrameUnbounded(item) ==
    /\ item.type = "global"
    /\ item.tag = "Push"
    /\ frames' = Append(frames, Current)
    /\ UNCHANGED <<parser, ReportSizes, NumberedReports>>

PushFrame(item) ==
    /\ item.type = "global"
    /\ item.tag = "Push"
    /\ Len(frames) < MaxFrames
    /\ frames' = Append(frames, Current)
    /\ UNCHANGED <<parser, ReportSizes, NumberedReports>>

PopFrame(item) ==
    /\ item.type = "global"
    /\ item.tag = "Pop"
    /\ Len(frames) > 1
    /\ frames' = SubSeq(frames, 1, Len(frames) - 1)
    /\ UNCHANGED <<parser, ReportSizes, NumberedReports>>

\* Collections are main items too: their product is computed, and added to
\* nothing.
AddMainItem(item) ==
    /\ item.type = "main"
    /\ ReportDataBits <= ULongMax
    /\ IF item.tag \in Kinds
       THEN /\ ReportSizes[item.tag][Current.ReportId] + ReportDataBits <= ULongMax
            /\ ReportSizes' =
                   [ReportSizes EXCEPT
                       ![item.tag][Current.ReportId] = @ + ReportDataBits]
       ELSE UNCHANGED ReportSizes
    /\ UNCHANGED <<parser, frames, NumberedReports>>

SkipItem(item) ==
    /\ item.type = "skipped"
    /\ UNCHANGED <<parser, frames, ReportSizes, NumberedReports>>

\* The early returns.  ULongAdd leaves the largest ULONG in a sum that
\* overflows.
RefuseItem(item) ==
    /\ \/ /\ item.type = "truncated"
          /\ UNCHANGED ReportSizes
       \/ /\ item.type = "global"
          /\ \/ item.tag = "ReportId" /\ item.data \notin ReportIds
             \/ item.tag = "Push" /\ Len(frames) >= MaxFrames
             \/ item.tag = "Pop" /\ Len(frames) = 1
          /\ UNCHANGED ReportSizes
       \/ /\ item.type = "main"
          /\ ReportDataBits > ULongMax
          /\ UNCHANGED ReportSizes
       \/ /\ item.type = "main"
          /\ item.tag \in Kinds
          /\ ReportDataBits <= ULongMax
          /\ ReportSizes[item.tag][Current.ReportId] + ReportDataBits > ULongMax
          /\ ReportSizes' = [ReportSizes EXCEPT
                                ![item.tag][Current.ReportId] = ULongMax]
    /\ parser' = "failed"
    /\ UNCHANGED <<frames, NumberedReports>>

\* One round of the loop.
ReadItem(item) ==
    /\ parser = "items"
    /\ Len(items) < MaxItems
    /\ items' = Append(items, item)
    /\ \/ SetGlobalItem(item)
       \/ PushFrame(item)
       \/ PopFrame(item)
       \/ AddMainItem(item)
       \/ SkipItem(item)
       \/ RefuseItem(item)

PostProcessReportSize(size, numbered) ==
    (size \div 8) + (IF size % 8 # 0 THEN 1 ELSE 0) + (IF numbered THEN 1 ELSE 0)

\* The end of the descriptor, which has at least one item: bits to bytes.
\* Reports without bits stay without bytes.
EndParse ==
    /\ parser = "items"
    /\ items # <<>>
    /\ parser' = "done"
    /\ ReportSizes' =
           [kind \in Kinds |-> [id \in ReportIds |->
               IF ReportSizes[kind][id] = 0 THEN 0
               ELSE PostProcessReportSize(ReportSizes[kind][id], NumberedReports)]]
    /\ UNCHANGED <<items, frames, NumberedReports>>

DescriptorTypeOK ==
    /\ parser \in {"none", "items", "done", "failed"}
    /\ items \in Seq(Items)
    /\ frames \in Seq(Frame)
    /\ Len(frames) \in 1..MaxFrames
    /\ ReportSizes \in [Kinds -> [ReportIds -> 0..(ULongMax + 1)]]
    /\ NumberedReports \in BOOLEAN

-----------------------------------------------------------------------------
(* What the HID specification makes of the items, without a stack          *)

\* Those of the first n items that are global items of this tag.
Globals(tag, n) ==
    {i \in 1..n : items[i].type = "global" /\ items[i].tag = tag}

\* How deep the nth item leaves the stack of global items.
Depth(n) == Cardinality(Globals("Push", n)) - Cardinality(Globals("Pop", n))

\* The items before the nth that set a global item and have not been popped
\* since.  The last of them is in force.
Setters(tag, n) ==
    {j \in Globals(tag, n - 1) : \A i \in j..(n - 1) : Depth(i) >= Depth(j)}

InForce(tag, n) ==
    IF Setters(tag, n) = {} THEN 0 ELSE items[Max(Setters(tag, n))].data

\* What each main item of a report adds to it.
DeclaredItems(kind, id) ==
    [n \in {n \in 1..Len(items) : /\ items[n].type = "main"
                                  /\ items[n].tag = kind
                                  /\ InForce("ReportId", n) = id}
        |-> InForce("ReportSize", n) * InForce("ReportCount", n)]

DeclaredBits(kind, id) == SumFunction(DeclaredItems(kind, id))

\* As few bytes as hold the bits of the report, if it has any, and one for
\* its number if any report is numbered.
DeclaredBytes(kind, id) ==
    LET bits == DeclaredBits(kind, id)
    IN  IF bits = 0 THEN 0
        ELSE Min({n \in 1..bits : 8 * n >= bits})
             + (IF Globals("ReportId", Len(items)) = {} THEN 0 ELSE 1)

\* The sizes the driver clamps transfers to are those the descriptor
\* declares: while it is read, at its end, and also when an earlier
\* descriptor of the file was refused half way.
SizesAsDeclared ==
    \A kind \in Kinds, id \in ReportIds :
        /\ parser = "items" => ReportSizes[kind][id] = DeclaredBits(kind, id)
        /\ parser = "done" => ReportSizes[kind][id] = DeclaredBytes(kind, id)

=============================================================================
