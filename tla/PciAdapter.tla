----------------------------- MODULE PciAdapter -----------------------------
(***************************************************************************)
(* What RecordIfDisplayDevice of PciScan.c finds out about one adapter:    *)
(* the walk along its capability list (ParsePcieCapability) and the        *)
(* verdict on what kind of adapter it is (ClassifyGpu).  The list comes    *)
(* from the device and may loop, be unaligned or lead anywhere, and any    *)
(* read of it may fail.                                                    *)
(*                                                                         *)
(* Offsets into configuration space are the real ones.  What the link      *)
(* registers hold is left out: nothing but the screen depends on it.       *)
(***************************************************************************)
EXTENDS Naturals, FiniteSets

CONSTANTS
    CapOffsets,  \* where capabilities can start, 0x40 .. 0xFC
    Adapters,    \* what the adapter may be
    Limit        \* capabilities the walk looks at (64)

(* What an adapter is and says of itself.  "apu" is a device ID of AMD's   *)
(* in mAmdIntegratedRanges; "root" says it is on bus 0 of segment 0; the   *)
(* bytes of a capability are its ID, "pcie" or "ones" or another, and the  *)
(* pointer to the next one.                                                *)
Adapter ==
    [vendor : {"nvidia", "intel", "amd", "apu", "other"},
     root : BOOLEAN, rom : BOOLEAN, integrated : BOOLEAN,
     port : {"endpoint", "rcIntegrated"}, version : 1 .. 2,
     capList : BOOLEAN, first : 0 .. 255,
     caps : [CapOffsets -> [id : {"pcie", "ones", "other"}, next : 0 .. 255]]]

ASSUME OffsetsAssumption ==
    CapOffsets \subseteq {p \in 64 .. 252 : p % 4 = 0}

(* There are fewer places for a capability than the walk looks at. *)
ASSUME LimitAssumption ==
    IsFiniteSet(CapOffsets) /\ Limit \in Nat /\ Cardinality(CapOffsets) =< Limit

(* The hardware facts that the comments in ClassifyGpu start from.         *)
ASSUME AdaptersAssumption ==
    /\ Adapters \subseteq Adapter
    /\ \A a \in Adapters :
         /\ a.root \/ a.vendor = "apu" \/ a.port = "rcIntegrated" => a.integrated
         /\ a.vendor = "nvidia" => ~a.integrated
         /\ a.vendor = "intel" /\ a.integrated => a.root
         /\ a.integrated => ~a.rom

(* Registers of the PCI Express capability: offset and size. *)
Capabilities == [name |-> "capabilities", off |-> 2, size |-> 2]
LinkCap      == [name |-> "linkCap",     off |-> 12, size |-> 4]
LinkStatus   == [name |-> "linkStatus",  off |-> 18, size |-> 2]
LinkCap2     == [name |-> "linkCap2",   off |-> 44, size |-> 4]

VARIABLES
    adapter,
    source,    \* Info->Source
    ptr,       \* CapPtr
    guard,     \* Guard
    pc,
    port,      \* PcieDevicePortType, once read
    version,   \* PcieCapVersion, once read
    valid,     \* PcieCapValid
    type,      \* Info->Type
    (* History *)
    reads,     \* the extents of all capability reads
    failed     \* one of them has failed

given == <<adapter, source>>
vars == <<given, ptr, guard, pc, port, version, valid, type, reads, failed>>

TypeOK ==
    /\ adapter \in Adapters
    /\ source \in {"pciIo", "rootBridge"}
    /\ ptr \in 0 .. 252 /\ ptr % 4 = 0
    /\ guard \in 0 .. Limit
    /\ pc \in {"header", "walk", "capabilities", "linkCap", "linkStatus",
               "linkCap2", "classify", "done"}
    /\ port \in {"none", "endpoint", "rcIntegrated"}
    /\ version \in 0 .. 2
    /\ valid \in BOOLEAN
    /\ type \in {"none", "integrated", "discrete", "unknown"}
    /\ reads \subseteq (0 .. 255) \X (1 .. 4)
    /\ failed \in BOOLEAN

Init ==
    /\ adapter \in Adapters
    /\ source \in {"pciIo", "rootBridge"}
    /\ ptr = 0 /\ guard = 0 /\ pc = "header"
    /\ port = "none" /\ version = 0 /\ valid = FALSE /\ type = "none"
    /\ reads = {} /\ failed = FALSE

-----------------------------------------------------------------------------
(* ParsePcieCapability *)

(* Fault for Masked: the reserved bits are part of the offset. *)
Masked_Whole(byte) == byte

(* The two low bits of a capability pointer are reserved. *)
Masked(byte) == (byte \div 4) * 4

Header ==
    /\ pc = "header"
    /\ IF adapter.capList
       THEN pc' = "walk" /\ ptr' = Masked(adapter.first)
       ELSE pc' = "classify" /\ UNCHANGED ptr
    /\ UNCHANGED <<given, guard, port, version, valid, type, reads, failed>>

(* Fault for MoreToWalk: the last capability is not looked at. *)
MoreToWalk_OffByOne == guard + 1 < Limit /\ ptr >= 64

MoreToWalk == guard < Limit /\ ptr >= 64

(* The end of the list, or of our patience with it. *)
WalkEnds ==
    /\ pc = "walk" /\ ~MoreToWalk
    /\ pc' = "classify"
    /\ UNCHANGED <<given, ptr, guard, port, version, valid, type, reads, failed>>

Extent(off, size) == <<ptr + off, size>>

(* The ID or the pointer of a capability cannot be read. *)
WalkFails ==
    /\ pc = "walk" /\ MoreToWalk
    /\ \/ reads' = reads \union {Extent(0, 1)}
       \/ reads' = reads \union {Extent(0, 1), Extent(1, 1)}
    /\ failed' = TRUE
    /\ pc' = "classify"
    /\ UNCHANGED <<given, ptr, guard, port, version, valid, type>>

(* The capability at an offset.  Where there is none, zeros are read. *)
CapAt(p) ==
    IF p \in CapOffsets THEN adapter.caps[p] ELSE [id |-> "other", next |-> 0]

(* Fault for Visit: a loop in the list is followed for ever. *)
Visit_Unguarded ==
    /\ pc = "walk" /\ MoreToWalk
    /\ pc' = CASE CapAt(ptr).id = "pcie" -> "capabilities"
               [] CapAt(ptr).id = "ones" -> "classify"
               [] OTHER                  -> "walk"
    /\ ptr' = IF pc' = "walk" THEN Masked(CapAt(ptr).next) ELSE ptr
    /\ UNCHANGED <<given, guard, port, version, valid, type, reads, failed>>

Visit ==
    /\ pc = "walk" /\ MoreToWalk
    /\ LET cap == CapAt(ptr) IN
       /\ reads' = reads \union {Extent(0, 1), Extent(1, 1)}
       /\ \/ cap.id = "pcie"  /\ pc' = "capabilities" /\ UNCHANGED <<ptr, guard>>
          \/ cap.id = "ones"  /\ pc' = "classify" /\ UNCHANGED <<ptr, guard>>
          \/ cap.id = "other" /\ ptr' = Masked(cap.next) /\ guard' = guard + 1
                              /\ UNCHANGED pc
    /\ UNCHANGED <<given, port, version, valid, type, failed>>

(* Fault for InWindow: four bytes too many. *)
InWindow_OffByFour(reg) == ptr + reg.off =< 256

(* The whole register is inside the 256 bytes of legacy configuration      *)
(* space.                                                                  *)
InWindow(reg) == ptr + reg.off + reg.size =< 256

(* The port type and version decide; without them nothing more is read. *)
ReadCapabilities ==
    /\ pc = "capabilities"
    /\ reads' = reads \union {Extent(Capabilities.off, Capabilities.size)}
    /\ \/ /\ port' = adapter.port /\ version' = adapter.version
          /\ pc' = "linkCap"
          /\ UNCHANGED failed
       \/ /\ failed' = TRUE
          /\ pc' = "classify"
          /\ UNCHANGED <<port, version>>
    /\ UNCHANGED <<given, ptr, guard, valid, type>>

(* Each of the link registers is read if it is in the window; whether that *)
(* fails or not, the next one is the next step.                            *)
ReadLink(reg, wanted, next) ==
    /\ pc = reg.name
    /\ IF wanted /\ InWindow(reg)
       THEN /\ reads' = reads \union {Extent(reg.off, reg.size)}
            /\ failed' \in {failed, TRUE}
       ELSE UNCHANGED <<reads, failed>>
    /\ pc' = next
    /\ valid' = (next = "classify")
    /\ UNCHANGED <<given, ptr, guard, port, version, type>>

ReadLinkCap    == ReadLink(LinkCap, TRUE, "linkStatus")
ReadLinkStatus == ReadLink(LinkStatus, TRUE, "linkCap2")
ReadLinkCap2   == ReadLink(LinkCap2, version >= 2, "classify")

-----------------------------------------------------------------------------
(* ClassifyGpu *)

(* Info->RomSize: the root-bridge pass does not know it. *)
RomSeen == adapter.rom /\ source = "pciIo"

(* Fault for KnownIntegrated: bus 0 says nothing. *)
KnownIntegrated_AnyBus ==
    (valid /\ port = "rcIntegrated") \/ adapter.vendor = "apu"

KnownIntegrated ==
    \/ valid /\ port = "rcIntegrated"
    \/ adapter.root
    \/ adapter.vendor = "apu"

KnownDiscrete ==
    \/ adapter.vendor \in {"nvidia", "intel"}
    \/ RomSeen /\ valid /\ port = "endpoint"

ClassifyGpu ==
    /\ pc = "classify"
    /\ \/ KnownIntegrated /\ type' = "integrated"
       \/ ~KnownIntegrated /\ KnownDiscrete /\ type' = "discrete"
       \/ ~KnownIntegrated /\ ~KnownDiscrete /\ type' = "unknown"
    /\ pc' = "done"
    /\ UNCHANGED <<given, ptr, guard, port, version, valid, reads, failed>>

Done == pc = "done" /\ UNCHANGED vars

-----------------------------------------------------------------------------
Record ==
    \/ Header \/ WalkEnds \/ WalkFails \/ Visit
    \/ ReadCapabilities \/ ReadLinkCap \/ ReadLinkStatus \/ ReadLinkCap2
    \/ ClassifyGpu

Next == Record \/ Done

Spec == Init /\ [][Next]_vars

FairSpec == Spec /\ WF_vars(Record)

-----------------------------------------------------------------------------
(* No read leaves the 256 bytes of legacy configuration space, however far *)
(* up the device claims its capability to be (the comment at               *)
(* PciScan.c:185: it would be re-encoded as an extended-config access).    *)
ReadsStayInWindow == \A r \in reads : r[1] + r[2] =< 256

(* The list as the device means it: the first n capabilities, each found   *)
(* where the pointer of the one before leads.                              *)
IsRoute(route, n) ==
    /\ route[1] = Masked(adapter.first)
    /\ \A i \in 1 .. n - 1 :
          /\ adapter.caps[route[i]].id = "other"
          /\ route[i + 1] = Masked(adapter.caps[route[i]].next)

(* A capability on the list is at the end of a route to it, and of one no  *)
(* longer than there are capabilities.                                     *)
OnTheList(id) ==
    /\ adapter.capList
    /\ \E n \in 1 .. Cardinality(CapOffsets) : \E route \in [1 .. n -> CapOffsets] :
         IsRoute(route, n) /\ adapter.caps[route[n]].id = id

(* A board is recognised wherever in the list, and however high up, its    *)
(* PCI Express capability is: the walk gives up on a loop, never on a long *)
(* list.  Boards of vendors who build no integrated graphics off bus 0 are *)
(* recognised even if nothing on the list can be read.                     *)
BoardsAreRecognised ==
    pc = "done" /\ ~adapter.integrated
      /\ \/ adapter.vendor \in {"nvidia", "intel"}
         \/ RomSeen /\ ~failed /\ OnTheList("pcie")
    => type = "discrete"

(* Whatever cannot be read, integrated graphics are never taken for the    *)
(* discrete card whose absence must stop the boot.                         *)
NoFalseDiscrete == type = "discrete" => ~adapter.integrated

(* The walk ends, on a list that loops as well. *)
WalkEventuallyEnds == <>(pc = "done")

(* "Only integrated graphics enumerated.  The card did not appear on PCI   *)
(* at all": what README.md:419 says the warning means that the screen      *)
(* shows when no adapter it found is discrete.  Asked only of an adapter   *)
(* that gives every sign ClassifyGpu looks for: a ROM of its own, and a    *)
(* PCI Express endpoint whose capability was read without a failure.  The  *)
(* pass over the root bridges does not know the ROM (PciScan.c:756).       *)
WarningMeansNoCard ==
    /\ pc = "done" /\ type # "discrete"
    /\ adapter.rom /\ valid /\ port = "endpoint" /\ ~failed
    => adapter.integrated
=============================================================================
