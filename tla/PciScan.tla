------------------------------ MODULE PciScan ------------------------------
(***************************************************************************)
(* GpuScanPci of PciScan.c: the pass over the PciIo handles, its one       *)
(* repetition after all drivers were connected, the brute-force pass       *)
(* through the root bridges, and the sorted list of display adapters they  *)
(* leave behind.                                                           *)
(*                                                                         *)
(* A device is a segment, bus and device number, a slot is one of its      *)
(* function numbers; both are numbered in the order of the sort key.  The  *)
(* firmware hands out handles in any order, and any access may fail: an    *)
(* error status, or all ones.  (A header type that reads as all ones while *)
(* the rest of the header does not is left out.)  What is recorded of an   *)
(* adapter besides its location is not modelled here.                      *)
(***************************************************************************)
EXTENDS Naturals, Sequences, FiniteSets

CONSTANTS
    LastDevice,    \* of all the buses
    LastFunction,  \* of a device (7)
    Machines,      \* what the slots of the machine may hold
    Bridges,       \* root bridges; each a contiguous set of Devices it owns
    Capacity       \* GPUCHECK_MAX_DISPLAY_DEVICES (32)

ASSUME NumbersAssumption ==
    LastDevice \in Nat /\ LastFunction \in Nat /\ Capacity \in Nat

Devices   == 0 .. LastDevice
Functions == 0 .. LastFunction

(* A device: the functions it has, those that are display controllers, and *)
(* whether it decodes the function number (AD[10:8]).  One that does not   *)
(* is a single function that answers at all eight numbers.                 *)
Device == [functions : SUBSET Functions, displays : SUBSET Functions,
           decodes : BOOLEAN]

ASSUME MachinesAssumption ==
    /\ Machines \subseteq [Devices -> Device]
    /\ \A m \in Machines, d \in Devices :
         /\ m[d].displays \subseteq m[d].functions
         /\ m[d].functions # {} => 0 \in m[d].functions
         /\ ~m[d].decodes => m[d].functions = {0}

ASSUME BridgesAssumption ==
    \A b \in Bridges : \E d, e \in Devices : d =< e /\ b = d .. e

Slots == Devices \X Functions

VARIABLES
    machine,
    phase,         \* which part of GpuScanPci runs
    handles,       \* PciIo handles still to be visited
    handleCount,   \* PciIoHandleCount
    bridges,       \* root bridges still to be visited
    bus, last,     \* next device to probe on this bridge, and the last one
    func,          \* next function of it
    sorted,        \* how many adapters are in order (i of SortByBdf)
    results,       \* Results->Devices
    overflow,      \* Overflow
    connected,     \* ConnectAllAttempted
    fallback,      \* UsedRootBridgeFallback
    (* History *)
    offered,       \* slots behind the handles of the current pass
    probed,        \* devices probed through a root bridge
    failed         \* devices an access to which has failed

pass == <<handles, handleCount, offered>>
walk == <<bridges, bus, last, func, probed>>
list == <<results, overflow>>
fixed == <<machine, sorted>>   \* before the list is sorted
vars == <<machine, phase, pass, walk, sorted, list, connected, fallback,
          failed>>

-----------------------------------------------------------------------------
(* The slot whose registers an access to slot s reads. *)
Registers(s) == IF machine[s[1]].decodes THEN s ELSE <<s[1], 0>>

Responds(s) == Registers(s)[2] \in machine[s[1]].functions
IsDisplay(s) == Registers(s)[2] \in machine[s[1]].displays

(* The multi-function bit of the header type, the same in every function   *)
(* that is asked for it.                                                   *)
MultiFunction(d) == machine[d].functions # {0}

Present == {s \in Slots : s[2] \in machine[s[1]].functions}

AlreadyRecorded(s) == \E i \in DOMAIN results : results[i] = s

(* Faults for RecordIfDisplayDevice: the count is checked too late, and    *)
(* before it is known whether the adapter is new.                          *)
RecordIfDisplayDevice_OffByOne(s) ==
    IF ~IsDisplay(s) \/ AlreadyRecorded(s) THEN UNCHANGED <<results, overflow>>
    ELSE IF Len(results) > Capacity THEN overflow' = TRUE /\ UNCHANGED results
    ELSE results' = Append(results, s) /\ UNCHANGED overflow

RecordIfDisplayDevice_FullFirst(s) ==
    IF ~IsDisplay(s) THEN UNCHANGED <<results, overflow>>
    ELSE IF Len(results) >= Capacity THEN overflow' = TRUE /\ UNCHANGED results
    ELSE IF AlreadyRecorded(s) THEN UNCHANGED <<results, overflow>>
    ELSE results' = Append(results, s) /\ UNCHANGED overflow

RecordIfDisplayDevice(s) ==
    IF ~IsDisplay(s) \/ AlreadyRecorded(s) THEN UNCHANGED <<results, overflow>>
    ELSE IF Len(results) >= Capacity THEN overflow' = TRUE /\ UNCHANGED results
    ELSE results' = Append(results, s) /\ UNCHANGED overflow

Before(s, t) == s[1] < t[1] \/ (s[1] = t[1] /\ s[2] =< t[2])

(* One round of SortByBdf: adapter i goes behind the last one before it    *)
(* that does not come after it, and those between move up.                 *)
SortRound(i) ==
    \E j \in 1 .. i :
        /\ j > 1 => Before(results[j - 1], results[i])
        /\ \A k \in j .. (i - 1) : ~Before(results[k], results[i])
        /\ results' = [k \in DOMAIN results |->
                           IF k < j \/ k > i THEN results[k]
                           ELSE IF k = j THEN results[i] ELSE results[k - 1]]

-----------------------------------------------------------------------------
TypeOK ==
    /\ machine \in Machines
    /\ phase \in {"locate", "pciio", "bridge", "probe", "sort", "done"}
    /\ handles \subseteq offered /\ offered \subseteq Present
    /\ handleCount = Cardinality(offered)
    /\ bridges \subseteq Bridges
    /\ bus \in Nat /\ last \in Devices /\ func \in Functions
    /\ sorted \in 1 .. Capacity + 1
    /\ results \in Seq(Slots) /\ Len(results) =< Capacity
    /\ overflow \in BOOLEAN /\ connected \in BOOLEAN /\ fallback \in BOOLEAN
    /\ probed \subseteq Devices /\ failed \subseteq Devices

Init ==
    /\ machine \in Machines
    /\ phase = "locate"
    /\ handles = {} /\ handleCount = 0 /\ offered = {}
    /\ bridges = {} /\ bus = 0 /\ last = 0 /\ func = 0 /\ probed = {}
    /\ sorted = 1 /\ results = <<>> /\ overflow = FALSE
    /\ connected = FALSE /\ fallback = FALSE
    /\ failed = {}

-----------------------------------------------------------------------------
(* ScanViaPciIo *)

(* Firmware exposes what its bus driver has bound so far: any part of what *)
(* is there, or nothing (an error of LocateHandleBuffer).                  *)
LocateHandles ==
    /\ phase = "locate"
    /\ offered' \in SUBSET Present
    /\ handles' = offered'
    /\ handleCount' = Cardinality(offered')
    /\ phase' = "pciio"
    /\ UNCHANGED <<fixed, walk, list, connected, fallback, failed>>

(* A handle that cannot be opened, located or read is passed over. *)
PassOverHandle ==
    /\ phase = "pciio"
    /\ \E s \in handles :
         /\ handles' = handles \ {s}
         /\ failed' = failed \union {s[1]}
    /\ UNCHANGED <<fixed, phase, handleCount, offered, walk, list,
                   connected, fallback>>

VisitHandle ==
    /\ phase = "pciio"
    /\ \E s \in handles :
         /\ handles' = handles \ {s}
         /\ RecordIfDisplayDevice(s)
    /\ UNCHANGED <<fixed, phase, handleCount, offered, walk, connected,
                   fallback, failed>>

-----------------------------------------------------------------------------
(* GpuScanPci between the passes *)

PassDone == phase = "pciio" /\ handles = {}

(* ConnectAllControllers, and once more from a clean slate. *)
ConnectAll ==
    /\ PassDone /\ handleCount = 0 /\ ~connected
    /\ connected' = TRUE
    /\ results' = <<>> /\ overflow' = FALSE
    /\ phase' = "locate"
    /\ UNCHANGED <<fixed, pass, walk, fallback, failed>>

FallBack ==
    /\ PassDone /\ (handleCount # 0 \/ connected)
    /\ results = <<>>
    /\ fallback' = TRUE
    /\ bridges' \in {Bridges, {}}
    /\ phase' = "bridge"
    /\ UNCHANGED <<fixed, pass, bus, last, func, probed, list, connected,
                   failed>>

AdaptersFound ==
    /\ PassDone /\ results # <<>>
    /\ phase' = "sort"
    /\ UNCHANGED <<fixed, pass, walk, list, connected, fallback, failed>>

-----------------------------------------------------------------------------
(* ScanViaRootBridge *)

First(ds) == CHOOSE d \in ds : \A e \in ds : d =< e
Final(ds) == CHOOSE d \in ds : \A e \in ds : e =< d

(* GetRootBridgeBusRange: what the bridge says it owns, or everything if   *)
(* its resource descriptors cannot be read or make no sense.               *)
GetRootBridgeBusRange(b) == {b, Devices}

(* A bridge without the protocol is passed over. *)
PassOverBridge ==
    /\ phase = "bridge"
    /\ \E b \in bridges : bridges' = bridges \ {b}
    /\ UNCHANGED <<fixed, phase, pass, bus, last, func, probed, list,
                   connected, fallback, failed>>

VisitBridge ==
    /\ phase = "bridge"
    /\ \E b \in bridges : \E range \in GetRootBridgeBusRange(b) :
         /\ bridges' = bridges \ {b}
         /\ bus' = First(range)
         /\ last' = Final(range)
         /\ probed' = probed \union range
    /\ func' = 0
    /\ phase' = "probe"
    /\ UNCHANGED <<fixed, pass, list, connected, fallback, failed>>

Slot == <<bus, func>>

Probing == phase = "probe" /\ bus =< last

(* Fault for NextDevice: a bus number too narrow to pass the last one. *)
NextDevice_Wraps ==
    /\ bus' = (bus + 1) % Cardinality(Devices)
    /\ func' = 0
    /\ UNCHANGED <<fixed, phase, pass, bridges, last, probed, connected,
                   fallback>>

(* break: the next device *)
NextDevice ==
    /\ bus' = bus + 1
    /\ func' = 0
    /\ UNCHANGED <<fixed, phase, pass, bridges, last, probed, connected,
                   fallback>>

(* continue: the next function, if there is one *)
NextFunction ==
    IF func + 1 \in Functions
    THEN /\ func' = func + 1
         /\ UNCHANGED <<fixed, phase, pass, bridges, bus, last, probed,
                        connected, fallback>>
    ELSE NextDevice

(* The bus range of this bridge is done. *)
RangeDone ==
    /\ phase = "probe" /\ bus > last
    /\ phase' = "bridge"
    /\ UNCHANGED <<fixed, pass, walk, list, connected, fallback, failed>>

(* Reading the vendor ID fails: with an error, which ends the device, or   *)
(* with all ones, which of function 0 does the same.                       *)
VendorFails ==
    /\ Probing
    /\ failed' = failed \union {bus}
    /\ NextDevice \/ (func # 0 /\ NextFunction)
    /\ UNCHANGED list

(* Fault for NobodyHome: a gap in the functions ends the device. *)
NobodyHome_EndsDevice ==
    /\ Probing /\ ~Responds(Slot)
    /\ NextDevice
    /\ UNCHANGED <<list, failed>>

(* Vendor ID FFFF: no function 0 means no device. *)
NobodyHome ==
    /\ Probing /\ ~Responds(Slot)
    /\ IF func = 0 THEN NextDevice ELSE NextFunction
    /\ UNCHANGED <<list, failed>>

(* Reading the header fails, with an error or with all ones, which are     *)
(* no display controller.  The header type, read first, may have got       *)
(* through or counts as zero.                                              *)
HeaderFails ==
    /\ Probing /\ Responds(Slot)
    /\ failed' = failed \union {bus}
    /\ \E multi \in {MultiFunction(bus), FALSE} :
         IF func = 0 /\ ~multi THEN NextDevice ELSE NextFunction
    /\ UNCHANGED list

(* Fault for ProbeFunction: all eight functions of any device are probed. *)
ProbeFunction_AllEight ==
    /\ Probing /\ Responds(Slot)
    /\ RecordIfDisplayDevice(Slot)
    /\ NextFunction
    /\ UNCHANGED failed

(* The header is read and recorded.  The header type, read first, may have *)
(* failed all the same, and the device then counts as a single function.   *)
ProbeFunction ==
    /\ Probing /\ Responds(Slot)
    /\ RecordIfDisplayDevice(Slot)
    /\ \/ /\ IF func = 0 /\ ~MultiFunction(bus) THEN NextDevice
             ELSE NextFunction
          /\ UNCHANGED failed
       \/ /\ IF func = 0 THEN NextDevice ELSE NextFunction
          /\ failed' = failed \union {bus}

BridgesDone ==
    /\ phase = "bridge" /\ bridges = {}
    /\ phase' = "sort"
    /\ UNCHANGED <<fixed, pass, walk, list, connected, fallback, failed>>

-----------------------------------------------------------------------------
(* SortByBdf *)
Sort ==
    /\ phase = "sort" /\ sorted < Len(results)
    /\ SortRound(sorted + 1)
    /\ sorted' = sorted + 1
    /\ UNCHANGED <<machine, phase, pass, walk, overflow, connected, fallback,
                   failed>>

(* Fault for Sorted: the last adapter is left where it is. *)
Sorted_SkipsLast ==
    /\ phase = "sort" /\ sorted >= Len(results) - 1
    /\ phase' = "done"
    /\ UNCHANGED <<machine, pass, walk, sorted, list, connected, fallback,
                   failed>>

Sorted ==
    /\ phase = "sort" /\ sorted >= Len(results)
    /\ phase' = "done"
    /\ UNCHANGED <<machine, pass, walk, sorted, list, connected, fallback,
                   failed>>

Done == phase = "done" /\ UNCHANGED vars

PciIoPass == LocateHandles \/ PassOverHandle \/ VisitHandle

RootBridgePass ==
    \/ PassOverBridge \/ VisitBridge \/ RangeDone
    \/ VendorFails \/ NobodyHome \/ HeaderFails \/ ProbeFunction
    \/ BridgesDone

Scan ==
    \/ PciIoPass \/ ConnectAll \/ FallBack \/ AdaptersFound
    \/ RootBridgePass \/ Sort \/ Sorted

Next == Scan \/ Done

Spec == Init /\ [][Next]_vars

FairSpec == Spec /\ WF_vars(Scan)

-----------------------------------------------------------------------------
(* No adapter is listed twice, not through two root bridges that both read *)
(* the whole bus range, and not under the eight function numbers a device  *)
(* that ignores them answers to (the comment at PciScan.c:727).            *)
NoAdapterTwice ==
    \A i, j \in DOMAIN results :
        Registers(results[i]) = Registers(results[j]) => i = j

(* What the firmware offered and let be read is on the list, as far as it  *)
(* has room: no pass is cut short by an adapter that fails, and the        *)
(* root-bridge pass misses no function it could have read.                 *)
NoReadableAdapterMissed ==
    phase = "done" =>
        \A s \in Present :
            /\ IsDisplay(s) /\ s[1] \notin failed
            /\ s \in offered \/ (fallback /\ s[1] \in probed)
            => AlreadyRecorded(s) \/ (overflow /\ Len(results) = Capacity)

(* The list is in the order of segment, bus, device and function, whatever *)
(* the order of the handles ("so that the display order does not depend on *)
(* firmware handle ordering").                                             *)
ListIsSorted ==
    phase = "done" =>
        \A i, j \in DOMAIN results : i < j => Before(results[i], results[j])

(* The list is only reported as truncated when there are more adapters     *)
(* than it has room for.                                                   *)
TruncatedMeansMore ==
    overflow => Cardinality({s \in Present : IsDisplay(s)}) > Capacity

(* Every scan ends. *)
ScanEnds == <>(phase = "done")
=============================================================================
