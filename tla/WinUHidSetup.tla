----------------------------- MODULE WinUHidSetup -----------------------------
(***************************************************************************)
(* The setup of one file object of the driver, and its two kinds of        *)
(* client: the SDK's WinUHidCreateDevice, which sends the setup IOCTLs in  *)
(* their order and gives up at the first that fails, and a client of its   *)
(* own, which sends them in any order and tries again, and also while the  *)
(* descriptor it sent is being parsed, as the driver's queue is parallel.  *)
(***************************************************************************)
EXTENDS ReportDescriptor

CONSTANTS
    Events,   \* the sets of SupportedEvents a client may ask for
    Unknown,  \* an event type the driver does not know
    Lists,    \* where the memory from Config->HardwareIDs on has its nulls
    MaxChars  \* the characters in MAXUINT16 bytes

Known == {"GET_FEATURE", "SET_FEATURE", "WRITE_REPORT", "READ_REPORT"}

ASSUME SetupAssumption ==
    /\ Unknown \notin Known
    /\ \A e \in Events : e \subseteq Known \cup {Unknown}
    /\ \A nulls \in Lists : nulls \subseteq Nat /\ nulls # {}
    /\ MaxChars \in Nat

Buffers == {"InstanceID", "HardwareIDs"}

VARIABLES
    HardwareIDs, \* Config->HardwareIDs and the loop of MultiSzWcsLen over it
    caller,     \* who uses the file, and how far WinUHidCreateDevice is
    DeviceInfo, \* <<the events of VhfConfig>> once DeviceInfoSet, or <<>>
    VhfConfig,  \* the buffers that are set
    VhfHandle,  \* TRUE iff the device is created
    early       \* history: it was created while its descriptor was parsed

fileContext == <<descriptor, DeviceInfo, VhfConfig, VhfHandle, early>>
vars == <<caller, HardwareIDs, fileContext>>

Stages == {"info", "ReportDescriptor", "InstanceID", "HardwareIDs", "create"}

\* After the stages WinUHidCreateDevice returns the device or NULL.  valid
\* and starved are history: whether all the caller passed was well-formed,
\* and whether memory, handles or VHF gave out.
Callers == [pc : Stages \cup {"idle", "direct", "device", "failed"},
            valid : BOOLEAN, starved : BOOLEAN]

\* MultiSzString has come to the character at, and len is what it measured.
\* With no list there is nothing to measure.
NoIds == [nulls |-> {}, at |-> 0, len |-> 0]

Caller(pc, valid, starved) == [pc |-> pc, valid |-> valid, starved |-> starved]

Init ==
    /\ caller = Caller("idle", TRUE, FALSE)
    /\ HardwareIDs = NoIds
    /\ DeviceInfo = <<>>
    /\ VhfConfig = {}
    /\ VhfHandle = FALSE
    /\ early = FALSE
    /\ InitDescriptor

\* VhfConfig points to a descriptor from when it is copied.
HasDescriptor == parser \in {"items", "done"}

\* The IOCTL of a stage is sent by a client of its own at any time and by
\* WinUHidCreateDevice when it is there; only a client of its own sends one
\* while the descriptor of another is parsed.
Sends(stage) ==
    /\ caller.pc \in {stage, "direct"}
    /\ parser = "items" => caller.pc = "direct"

After(stage) ==
    [info |-> "ReportDescriptor", ReportDescriptor |-> "InstanceID",
     InstanceID |-> "HardwareIDs", HardwareIDs |-> "create",
     create |-> "device"][stage]

\* The IOCTL returns to who sent it.
Returns(stage, status, valid) ==
    caller' = IF caller.pc = "direct" THEN caller
              ELSE Caller(IF status = "success" THEN After(stage) ELSE "failed",
                          caller.valid /\ valid,
                          caller.starved \/ status = "starved")

-----------------------------------------------------------------------------
(* The driver's handlers                                                   *)

\* Mutant: the configuration of a created device may still be changed.
SetReportDescriptorLate ==
    /\ Sends("ReportDescriptor")
    /\ ~HasDescriptor \/ VhfHandle
    /\ BeginParse
    /\ UNCHANGED <<caller, HardwareIDs, DeviceInfo, VhfConfig, VhfHandle, early>>

\* Device information is set once, and only with event types it knows.
SetDeviceInfo ==
    /\ Sends("info")
    /\ \E events \in Events :
           IF DeviceInfo # <<>> \/ VhfHandle \/ Unknown \in events
           THEN /\ Returns("info", "refused", Unknown \notin events)
                /\ UNCHANGED DeviceInfo
           ELSE /\ DeviceInfo' = <<events>>
                /\ Returns("info", "success", TRUE)
    /\ UNCHANGED <<HardwareIDs, descriptor, VhfConfig, VhfHandle, early>>

\* The descriptor is copied and VhfConfig points to it while it is parsed.
SetReportDescriptor ==
    /\ Sends("ReportDescriptor")
    /\ ~HasDescriptor
    /\ ~VhfHandle
    /\ BeginParse
    /\ UNCHANGED <<caller, HardwareIDs, DeviceInfo, VhfConfig, VhfHandle, early>>

\* One is there, or is being parsed; there is no memory; or its length does
\* not fit in a USHORT, which that of WinUHidCreateDevice does.
RefuseReportDescriptor ==
    /\ Sends("ReportDescriptor")
    /\ IF HasDescriptor \/ VhfHandle
       THEN Returns("ReportDescriptor", "refused", TRUE)
       ELSE \/ Returns("ReportDescriptor", "starved", TRUE)
            \/ /\ caller.pc = "direct"
               /\ Returns("ReportDescriptor", "refused", TRUE)
    /\ UNCHANGED <<HardwareIDs, fileContext>>

ParseReportDescriptor ==
    /\ \E item \in Items : ReadItem(item)
    /\ IF parser' = "failed"
       THEN Returns("ReportDescriptor", "refused", FALSE)
       ELSE UNCHANGED caller
    /\ UNCHANGED <<HardwareIDs, DeviceInfo, VhfConfig, VhfHandle, early>>

ReportDescriptorParsed ==
    /\ EndParse
    /\ Returns("ReportDescriptor", "success", TRUE)
    /\ UNCHANGED <<HardwareIDs, DeviceInfo, VhfConfig, VhfHandle, early>>

\* SET_INSTANCE_ID and SET_HARDWARE_IDS.
SetBuffer(buffer, wellFormed, valid) ==
    /\ Sends(buffer)
    /\ IF buffer \in VhfConfig \/ VhfHandle \/ ~wellFormed
       THEN /\ Returns(buffer, "refused", valid)
            /\ UNCHANGED VhfConfig
       ELSE \/ /\ VhfConfig' = VhfConfig \cup {buffer}
               /\ Returns(buffer, "success", valid)
            \/ /\ Returns(buffer, "starved", valid)
               /\ UNCHANGED VhfConfig
    /\ UNCHANGED <<HardwareIDs, descriptor, DeviceInfo, VhfHandle, early>>

\* A client's buffer may be too short for a character or too long for a
\* USHORT; that of the SDK ends with its null.
SetInstanceId ==
    \E wellFormed \in BOOLEAN : SetBuffer("InstanceID", wellFormed, wellFormed)

\* A set of strings, each with its null, and a second null at its end, which
\* fits in the USHORT of the VHF_CONFIG.
MultiSz(nulls) ==
    \E n \in nulls :
        /\ n + 1 \in nulls
        /\ n + 2 <= MaxChars
        /\ \A m \in nulls : m < n => m + 1 \notin nulls

\* SET_HARDWARE_IDS wants two characters at least, of which the last two are
\* null.  The SDK sends one more than it measured.
SetHardwareIds ==
    \/ /\ caller.pc = "direct"
       /\ \E wellFormed \in BOOLEAN : SetBuffer("HardwareIDs", wellFormed, TRUE)
    \/ /\ caller.pc = "HardwareIDs"
       /\ HardwareIDs.at \in HardwareIDs.nulls
       /\ SetBuffer("HardwareIDs",
                    /\ HardwareIDs.len + 1 \in 2..MaxChars
                    /\ {HardwareIDs.len - 1, HardwareIDs.len} \subseteq HardwareIDs.nulls,
                    MultiSz(HardwareIDs.nulls))

\* Mutant: a device is created before its descriptor is there.
CreateDeviceBeforeDescriptor ==
    /\ Sends("create")
    /\ IF VhfHandle \/ DeviceInfo = <<>>
       THEN /\ Returns("create", "refused", TRUE)
            /\ UNCHANGED VhfHandle
       ELSE /\ VhfHandle' = TRUE
            /\ Returns("create", "success", TRUE)
    /\ early' = IF VhfHandle THEN early ELSE VhfHandle' /\ parser = "items"
    /\ UNCHANGED <<HardwareIDs, descriptor, DeviceInfo, VhfConfig>>

\* VhfCreate may fail.
CreateDevice ==
    /\ Sends("create")
    /\ IF VhfHandle \/ ~HasDescriptor \/ DeviceInfo = <<>>
       THEN /\ Returns("create", "refused", TRUE)
            /\ UNCHANGED VhfHandle
       ELSE \/ /\ VhfHandle' = TRUE
               /\ Returns("create", "success", TRUE)
            \/ /\ Returns("create", "starved", TRUE)
               /\ UNCHANGED VhfHandle
    /\ early' = IF VhfHandle THEN early ELSE VhfHandle' /\ parser = "items"
    /\ UNCHANGED <<HardwareIDs, descriptor, DeviceInfo, VhfConfig>>

-----------------------------------------------------------------------------
(* The clients                                                             *)

\* WinUHidCreateDevice up to CreateFile: it refuses a configuration without
\* a descriptor, and an event, the device's memory, its timer or the file
\* may not be had.
WinUHidCreateDevice ==
    /\ caller.pc = "idle"
    /\ \/ caller' = Caller("info", TRUE, FALSE)
       \/ caller' = Caller("failed", FALSE, FALSE)
       \/ caller' = Caller("failed", TRUE, TRUE)
    /\ UNCHANGED <<HardwareIDs, fileContext>>

\* Config->InstanceID or Config->HardwareIDs is NULL.
SkipBuffer(buffer) ==
    /\ caller.pc = buffer
    /\ HardwareIDs = NoIds
    /\ caller' = [caller EXCEPT !.pc = After(buffer)]
    /\ UNCHANGED <<HardwareIDs, fileContext>>

GiveHardwareIds ==
    /\ caller.pc = "HardwareIDs"
    /\ HardwareIDs = NoIds
    /\ \E nulls \in Lists : HardwareIDs' = [NoIds EXCEPT !.nulls = nulls]
    /\ UNCHANGED <<caller, fileContext>>

\* The memory ends somewhere after its last null.
wcslen(nulls, at) == Min({n \in nulls : n >= at}) - at

\* Mutant: the null of a string is not counted.
MultiSzWcsLenUncounted ==
    /\ caller.pc = "HardwareIDs"
    /\ HardwareIDs.at \notin HardwareIDs.nulls
    /\ \E n \in HardwareIDs.nulls : n > HardwareIDs.at
    /\ LET len == HardwareIDs.len + wcslen(HardwareIDs.nulls, HardwareIDs.at)
       IN  HardwareIDs' = [HardwareIDs EXCEPT !.len = len, !.at = @ + len]
    /\ UNCHANGED <<caller, fileContext>>

\* One round of the loop at a character that is not null.  The pointer goes
\* on by all that was measured, not by the last string.
MultiSzWcsLen ==
    /\ caller.pc = "HardwareIDs"
    /\ HardwareIDs.at \notin HardwareIDs.nulls
    /\ \E n \in HardwareIDs.nulls : n > HardwareIDs.at
    /\ LET len == HardwareIDs.len + 1 + wcslen(HardwareIDs.nulls, HardwareIDs.at)
       IN  HardwareIDs' = [HardwareIDs EXCEPT !.len = len, !.at = @ + len]
    /\ UNCHANGED <<caller, fileContext>>

\* Nothing is null from there on: it reads beyond the memory, and the process
\* is gone.
MultiSzWcsLenFaults ==
    /\ caller.pc = "HardwareIDs"
    /\ HardwareIDs # NoIds
    /\ \A n \in HardwareIDs.nulls : n < HardwareIDs.at
    /\ caller' = Caller("failed", caller.valid /\ MultiSz(HardwareIDs.nulls),
                        caller.starved)
    /\ UNCHANGED <<HardwareIDs, fileContext>>

OpenFile ==
    /\ caller.pc = "idle"
    /\ caller' = Caller("direct", TRUE, FALSE)
    /\ UNCHANGED <<HardwareIDs, fileContext>>

\* The Fail branch of WinUHidCreateDevice, WinUHidDestroyDevice or the
\* client closes the file, and its context goes.
CloseFile ==
    /\ caller.pc \in {"direct", "device", "failed"}
    /\ parser # "items"
    /\ caller' = Caller("idle", TRUE, FALSE)
    /\ HardwareIDs' = NoIds
    /\ DeviceInfo' = <<>>
    /\ VhfConfig' = {}
    /\ VhfHandle' = FALSE
    /\ early' = FALSE
    /\ ResetDescriptor

Next ==
    \/ SetDeviceInfo
    \/ SetReportDescriptor
    \/ RefuseReportDescriptor
    \/ ParseReportDescriptor
    \/ ReportDescriptorParsed
    \/ SetInstanceId
    \/ SetHardwareIds
    \/ CreateDevice
    \/ WinUHidCreateDevice
    \/ \E buffer \in Buffers : SkipBuffer(buffer)
    \/ GiveHardwareIds
    \/ MultiSzWcsLen
    \/ MultiSzWcsLenFaults
    \/ OpenFile
    \/ CloseFile

Spec == Init /\ [][Next]_vars

-----------------------------------------------------------------------------
(* Properties                                                              *)

\* Types, and who may have which file.
TypeOK ==
    /\ DescriptorTypeOK
    /\ caller \in Callers
    /\ HardwareIDs \in [nulls : Lists \cup {{}}, at : Nat, len : Nat]
    /\ DeviceInfo \in {<<>>} \cup {<<events>> : events \in Events}
    /\ VhfConfig \subseteq Buffers
    /\ VhfHandle \in BOOLEAN
    /\ early \in BOOLEAN

\* A device is only made of device information and a descriptor that was
\* accepted as a whole, whatever was refused before, unless it was created
\* while its descriptor was still being parsed; and WinUHidCreateDevice returns
\* a device only if there is one, and never such an early one.
CreatedFromAccepted ==
    /\ VhfHandle /\ ~early => parser = "done" /\ DeviceInfo # <<>>
    /\ caller.pc = "device" => VhfHandle /\ ~early

\* Nothing a device was created from changes until the file is closed: the
\* sizes WinUHidEvtVhfAsyncOperation* and EvtIoWrite clamp to are those of
\* the device VHF knows.  "Report descriptor can only be set once before
\* device creation", say the handlers (WinUHid.c:755).  Only the parser that was
\* at its descriptor when an early device was created still comes to its end.
FrozenWhenCreated ==
    [][VhfHandle /\ VhfHandle'
       => /\ UNCHANGED <<DeviceInfo, VhfConfig>>
          /\ parser # "items"
             => UNCHANGED <<HasDescriptor, ReportSizes, NumberedReports>>]_vars

\* WinUHidCreateDevice fails for what it was given or because something gives
\* out, but never for what it was documented to take: a descriptor the parser
\* accepts, known event types, an instance id that fits, and hardware ids that
\* fit and are a REG_MULTI_SZ, "a set of null terminated strings terminated by
\* a second consecutive null" (WinUHid.h:60).
ValidConfigAccepted ==
    caller.pc = "failed" /\ caller.valid => caller.starved

\* The first string is not empty, and the list ends after it.
OneId(nulls) ==
    \E n \in nulls : /\ n > 0
                     /\ n + 1 \in nulls
                     /\ \A m \in nulls : n <= m

\* So it is with no list of hardware ids, and with a list of one id, whatever
\* the memory behind it holds: MultiSzWcsLen measures what the driver wants,
\* and no stage is refused for what an earlier one set.
OneIdAccepted ==
    HardwareIDs.nulls = {} \/ OneId(HardwareIDs.nulls) => ValidConfigAccepted

=============================================================================
