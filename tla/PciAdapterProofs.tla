-------------------------- MODULE PciAdapterProofs --------------------------
(***************************************************************************)
(* PciAdapter for every adapter that the hardware facts allow, every       *)
(* capability list, looping or not, and every read that fails.             *)
(***************************************************************************)
EXTENDS PciAdapter, FiniteSetTheorems, TLAPS

(* A pointer byte without its reserved bits is an aligned offset. *)
LEMMA MaskedAligns ==
    ASSUME NEW byte \in 0 .. 255
    PROVE  Masked(byte) \in 0 .. 252 /\ Masked(byte) % 4 = 0
  BY DEF Masked

(* Whatever is read at an offset, its pointer is a byte. *)
LEMMA CapBytes ==
    ASSUME TypeOK
    PROVE  /\ adapter.first \in 0 .. 255
           /\ adapter.port \in {"endpoint", "rcIntegrated"}
           /\ adapter.version \in 1 .. 2
           /\ \A p : CapAt(p).next \in 0 .. 255
  <1>1. adapter \in Adapter
    BY AdaptersAssumption DEF TypeOK
  <1>2. \A p : CapAt(p).next \in 0 .. 255
    <2>1. ASSUME NEW p, p \in CapOffsets
          PROVE  CapAt(p).next \in 0 .. 255
      BY <1>1, <2>1 DEF CapAt, Adapter
    <2>2. ASSUME NEW p, p \notin CapOffsets
          PROVE  CapAt(p).next \in 0 .. 255
      BY <2>2 DEF CapAt
    <2>3. QED BY <2>1, <2>2
  <1>3. QED BY <1>1, <1>2 DEF Adapter

(* An extent that starts at most at 255 is one TypeOK allows. *)
LEMMA Extents ==
    ASSUME TypeOK, NEW off \in Nat, NEW size \in 1 .. 4, ptr + off + size =< 256
    PROVE  /\ Extent(off, size) \in (0 .. 255) \X (1 .. 4)
           /\ Extent(off, size)[1] + Extent(off, size)[2] =< 256
  BY DEF TypeOK, Extent

-----------------------------------------------------------------------------
(* One lemma does both the types and the window: each read is an extent    *)
(* that its guard, or the range of an aligned pointer, keeps inside.       *)
WindowInv == TypeOK /\ ReadsStayInWindow

(* Reading a link register, as far as it is inside the window. *)
LEMMA ReadLinkKeeps ==
    ASSUME WindowInv, NEW wanted \in BOOLEAN,
           NEW reg \in {LinkCap, LinkStatus, LinkCap2},
           NEW next \in {"linkStatus", "linkCap2", "classify"},
           ReadLink(reg, wanted, next)
    PROVE  WindowInv'
  <1>1. reg.off \in Nat /\ reg.size \in 1 .. 4
    BY DEF LinkCap, LinkStatus, LinkCap2
  <1>2. reads' \subseteq (0 .. 255) \X (1 .. 4) /\ ReadsStayInWindow' /\ failed' \in BOOLEAN
    <2>0. /\ reads \subseteq (0 .. 255) \X (1 .. 4)
          /\ \A r \in reads : r[1] + r[2] =< 256
          /\ failed \in BOOLEAN
      BY DEF WindowInv, TypeOK, ReadsStayInWindow
    <2>1. CASE wanted /\ InWindow(reg)
      <3>1. /\ Extent(reg.off, reg.size) \in (0 .. 255) \X (1 .. 4)
            /\ Extent(reg.off, reg.size)[1] + Extent(reg.off, reg.size)[2] =< 256
        BY <1>1, <2>1, Extents DEF WindowInv, InWindow
      <3>2. reads' = reads \union {Extent(reg.off, reg.size)} /\ failed' \in {failed, TRUE}
        BY <2>1 DEF ReadLink
      <3>3. failed' \in BOOLEAN
        BY <2>0, <3>2
      <3>4. reads' \subseteq (0 .. 255) \X (1 .. 4) /\ ReadsStayInWindow'
        BY <2>0, <3>1, <3>2 DEF ReadsStayInWindow
      <3>5. QED BY <3>3, <3>4
    <2>2. CASE ~(wanted /\ InWindow(reg))
      BY <2>0, <2>2 DEF ReadLink, ReadsStayInWindow
    <2>3. QED BY <2>1, <2>2
  <1>3. valid' \in BOOLEAN /\ pc' = next
    BY DEF ReadLink
  <1>4. QED BY <1>2, <1>3 DEF ReadLink, WindowInv, TypeOK, given

(* Every step keeps types and window. *)
LEMMA StepWindow == WindowInv /\ [Next]_vars => WindowInv'
  <1> SUFFICES ASSUME WindowInv, [Next]_vars PROVE WindowInv'
    OBVIOUS
  <1>0. TypeOK BY DEF WindowInv
  <1>a. /\ Extent(0, 1) \in (0 .. 255) \X (1 .. 4)
        /\ Extent(0, 1)[1] + Extent(0, 1)[2] =< 256
        /\ Extent(1, 1) \in (0 .. 255) \X (1 .. 4)
        /\ Extent(1, 1)[1] + Extent(1, 1)[2] =< 256
    BY <1>0, Extents DEF TypeOK
  <1>b. ptr \in 0 .. 252 /\ ptr % 4 = 0
    BY <1>0 DEF TypeOK
  <1>c. /\ Masked(adapter.first) \in 0 .. 252 /\ Masked(adapter.first) % 4 = 0
        /\ Masked(CapAt(ptr).next) \in 0 .. 252 /\ Masked(CapAt(ptr).next) % 4 = 0
    <2>1. adapter.first \in 0 .. 255 /\ CapAt(ptr).next \in 0 .. 255
      BY <1>0, CapBytes
    <2>2. QED BY <2>1, MaskedAligns
  <1>1. CASE Header
    <2>1. ptr' = ptr \/ ptr' = Masked(adapter.first)
      BY <1>1 DEF Header
    <2>2. ptr' \in 0 .. 252 /\ ptr' % 4 = 0
      BY <1>b, <1>c, <2>1
    <2>3. QED BY <1>1, <2>2 DEF Header, WindowInv, TypeOK, ReadsStayInWindow, given
  <1>2. CASE WalkEnds
    BY <1>2 DEF WalkEnds, WindowInv, TypeOK, ReadsStayInWindow, given
  <1>3. CASE WalkFails
    <2>1. reads' \subseteq (0 .. 255) \X (1 .. 4) /\ ReadsStayInWindow'
      BY <1>3, <1>a DEF WalkFails, WindowInv, TypeOK, ReadsStayInWindow
    <2>2. QED BY <1>3, <2>1 DEF WalkFails, WindowInv, TypeOK, given
  <1>4. CASE Visit
    <2>1. reads' \subseteq (0 .. 255) \X (1 .. 4) /\ ReadsStayInWindow'
      BY <1>4, <1>a DEF Visit, WindowInv, TypeOK, ReadsStayInWindow
    <2>2. ptr' \in 0 .. 252 /\ ptr' % 4 = 0
      <3>1. ptr' = ptr \/ ptr' = Masked(CapAt(ptr).next)
        BY <1>4 DEF Visit
      <3>2. QED BY <1>b, <1>c, <3>1
    <2>3. guard' \in 0 .. Limit
      BY <1>0, <1>4, LimitAssumption DEF Visit, MoreToWalk, TypeOK
    <2>4. pc' \in {"walk", "capabilities", "classify"}
      BY <1>4 DEF Visit
    <2>5. QED BY <1>4, <2>1, <2>2, <2>3, <2>4 DEF Visit, WindowInv, TypeOK, given
  <1>5. CASE ReadCapabilities
    <2>1. /\ Extent(2, 2) \in (0 .. 255) \X (1 .. 4)
          /\ Extent(2, 2)[1] + Extent(2, 2)[2] =< 256
      <3>1. ptr + 2 + 2 =< 256 /\ 2 \in Nat /\ 2 \in 1 .. 4
        BY <1>0 DEF TypeOK
      <3>2. QED BY <1>0, <3>1, Extents
    <2>2. reads' \subseteq (0 .. 255) \X (1 .. 4) /\ ReadsStayInWindow'
      BY <1>5, <2>1 DEF ReadCapabilities, Capabilities, WindowInv, TypeOK, ReadsStayInWindow
    <2>3. port' \in {"none", "endpoint", "rcIntegrated"} /\ version' \in 0 .. 2
      <3>1. adapter.port \in {"none", "endpoint", "rcIntegrated"} /\ adapter.version \in 0 .. 2
        <4>1. adapter.port \in {"none", "endpoint", "rcIntegrated"}
          BY <1>0, CapBytes
        <4>2. adapter.version \in 0 .. 2
          BY <1>0, CapBytes
        <4>3. QED BY <4>1, <4>2
      <3>2. port \in {"none", "endpoint", "rcIntegrated"} /\ version \in 0 .. 2
        BY <1>0 DEF TypeOK
      <3>3. \/ port' = adapter.port /\ version' = adapter.version
            \/ port' = port /\ version' = version
        BY <1>5 DEF ReadCapabilities
      <3>4. QED BY <3>1, <3>2, <3>3
    <2>4. QED BY <1>5, <2>2, <2>3 DEF ReadCapabilities, WindowInv, TypeOK, given
  <1>6. CASE ReadLinkCap
    BY <1>6, ReadLinkKeeps DEF ReadLinkCap
  <1>7. CASE ReadLinkStatus
    BY <1>7, ReadLinkKeeps DEF ReadLinkStatus
  <1>8. CASE ReadLinkCap2
    <2>1. (version >= 2) \in BOOLEAN
      OBVIOUS
    <2>2. QED BY <1>8, <2>1, ReadLinkKeeps DEF ReadLinkCap2
  <1>9. CASE ClassifyGpu
    BY <1>9 DEF ClassifyGpu, WindowInv, TypeOK, ReadsStayInWindow, given
  <1>10. CASE UNCHANGED vars
    BY <1>10 DEF vars, WindowInv, TypeOK, ReadsStayInWindow, given
  <1>11. QED
    BY <1>1, <1>2, <1>3, <1>4, <1>5, <1>6, <1>7, <1>8, <1>9, <1>10 DEF Next, Record, Done

(* Before the header is read nothing has been. *)
LEMMA InitWindow == Init => WindowInv
  <1> SUFFICES ASSUME Init PROVE WindowInv
    OBVIOUS
  <1>1. ptr \in 0 .. 252 /\ ptr % 4 = 0
    BY DEF Init
  <1>2. guard \in 0 .. Limit
    BY LimitAssumption DEF Init
  <1>3. reads \subseteq (0 .. 255) \X (1 .. 4) /\ ReadsStayInWindow
    BY DEF Init, ReadsStayInWindow
  <1>4. version \in 0 .. 2
    BY DEF Init
  <1>5. valid \in BOOLEAN /\ failed \in BOOLEAN
    BY DEF Init
  <1>6. QED BY <1>1, <1>2, <1>3, <1>4, <1>5 DEF Init, WindowInv, TypeOK

(* Types and window hold for ever. *)
LEMMA WindowCorrect == Spec => []WindowInv
  BY InitWindow, StepWindow, PTL DEF Spec

(* The variables of the walk keep their types. *)
THEOREM AdapterTypes == Spec => []TypeOK
  <1>1. WindowInv => TypeOK BY DEF WindowInv
  <1>2. QED BY <1>1, WindowCorrect, PTL

(* No read is re-encoded as an extended-config access, however high up the *)
(* capability is (ParsePcieCapability).                                    *)
THEOREM ReadsInWindow == Spec => []ReadsStayInWindow
  <1>1. WindowInv => ReadsStayInWindow BY DEF WindowInv
  <1>2. QED BY <1>1, WindowCorrect, PTL

-----------------------------------------------------------------------------
(* What the two lists of evidence in ClassifyGpu amount to: with the facts *)
(* about the hardware, evidence for a board that no evidence against it    *)
(* precedes is proof.                                                      *)
LEMMA EvidenceIsProof ==
    ASSUME TypeOK, ~KnownIntegrated, KnownDiscrete
    PROVE  ~adapter.integrated
  <1> DEFINE a == adapter
  <1>1. a \in Adapters
    BY DEF TypeOK
  <1>2. CASE a.vendor = "nvidia"
    BY <1>1, <1>2, AdaptersAssumption
  <1>3. CASE a.vendor = "intel"
    BY <1>1, <1>3, AdaptersAssumption DEF KnownIntegrated
  <1>4. CASE a.rom
    BY <1>1, <1>4, AdaptersAssumption
  <1>5. QED
    BY <1>2, <1>3, <1>4 DEF KnownDiscrete, RomSeen

(* The verdict is only ever set by ClassifyGpu. *)
LEMMA StepDiscrete ==
    TypeOK /\ NoFalseDiscrete /\ [Next]_vars => NoFalseDiscrete'
  <1> SUFFICES ASSUME TypeOK, NoFalseDiscrete, [Next]_vars
               PROVE  NoFalseDiscrete'
    OBVIOUS
  <1>1. CASE ClassifyGpu
    <2>1. adapter' = adapter
      BY <1>1 DEF ClassifyGpu, given
    <2>2. type' = "discrete" => ~KnownIntegrated /\ KnownDiscrete
      BY <1>1 DEF ClassifyGpu
    <2>3. QED BY <2>1, <2>2, EvidenceIsProof DEF NoFalseDiscrete
  <1>2. CASE type' = type /\ adapter' = adapter
    BY <1>2 DEF NoFalseDiscrete
  <1>3. ASSUME ~ClassifyGpu PROVE type' = type /\ adapter' = adapter
    BY <1>3 DEF Next, Record, Done, vars, given, Header, WalkEnds, WalkFails, Visit,
                ReadCapabilities, ReadLinkCap, ReadLinkStatus, ReadLinkCap2, ReadLink
  <1>4. QED BY <1>1, <1>2, <1>3

(* Integrated graphics are never taken for the card whose absence is to    *)
(* stop the boot: for every adapter, every list and every failing read.    *)
THEOREM IntegratedIsNeverDiscrete == Spec => []NoFalseDiscrete
  <1>1. Init => NoFalseDiscrete
    BY DEF Init, NoFalseDiscrete
  <1>2. QED BY <1>1, StepDiscrete, AdapterTypes, PTL DEF Spec

-----------------------------------------------------------------------------
(* A board is found along its capability list.  A route to its PCI Express *)
(* capability is no longer than the number of capabilities, which the walk *)
(* outlasts: as long as nothing fails it follows the route, one capability *)
(* behind its guard, and at the end it reads the port type.                *)

HasRoute(n, route) ==
    /\ adapter.capList
    /\ IsRoute(route, n)
    /\ adapter.caps[route[n]].id = "pcie"

OnRoute(n, route) ==
    HasRoute(n, route) /\ ~failed =>
        /\ pc = "header" => guard = 0
        /\ pc = "walk" => guard < n /\ ptr = route[guard + 1]
        /\ pc \in {"linkCap", "linkStatus", "linkCap2"} => port = adapter.port
        /\ pc = "classify" => valid /\ port = adapter.port

RoutesInv ==
    \A n \in 1 .. Cardinality(CapOffsets) :
        \A route \in [1 .. n -> CapOffsets] : OnRoute(n, route)

(* The port type in Info is the adapter's, once there is one. *)
PortInv == port # "none" => port = adapter.port

(* On a route the walk neither ends nor loses its way. *)
LEMMA StepRoute ==
    ASSUME TypeOK, [Next]_vars,
           NEW n \in 1 .. Cardinality(CapOffsets), NEW route \in [1 .. n -> CapOffsets],
           OnRoute(n, route)
    PROVE  OnRoute(n, route)'
  <1> SUFFICES ASSUME HasRoute(n, route)', ~failed'
               PROVE  OnRoute(n, route)'
    BY DEF OnRoute
  <1>1. UNCHANGED given
    BY DEF Next, Record, Done, vars, Header, WalkEnds, WalkFails, Visit,
           ReadCapabilities, ReadLinkCap, ReadLinkStatus, ReadLinkCap2, ReadLink,
           ClassifyGpu
  <1>2. adapter' = adapter
    BY <1>1 DEF given
  <1>3. HasRoute(n, route)
    BY <1>2 DEF HasRoute, IsRoute
  <1>4. ~failed
    BY DEF Next, Record, Done, vars, Header, WalkEnds, WalkFails, Visit,
           ReadCapabilities, ReadLinkCap, ReadLinkStatus, ReadLinkCap2, ReadLink,
           ClassifyGpu, TypeOK
  <1>5. /\ pc = "header" => guard = 0
        /\ pc = "walk" => guard < n /\ ptr = route[guard + 1]
        /\ pc \in {"linkCap", "linkStatus", "linkCap2"} => port = adapter.port
        /\ pc = "classify" => valid /\ port = adapter.port
    BY <1>3, <1>4 DEF OnRoute
  <1>6. n \in Nat /\ guard \in Nat /\ n =< Limit /\ Limit \in Nat
    BY LimitAssumption, FS_CardinalityType DEF TypeOK
  <1>7. \A i \in 1 .. n : route[i] \in CapOffsets /\ route[i] >= 64
    <2>1. \A p \in CapOffsets : p \in Nat /\ p >= 64
      BY OffsetsAssumption
    <2>2. \A i \in 1 .. n : route[i] \in CapOffsets
      OBVIOUS
    <2> QED
      BY <2>1, <2>2
  <1>8. pc = "walk" => guard + 1 \in 1 .. n /\ ptr \in CapOffsets /\ MoreToWalk
    <2> SUFFICES ASSUME pc = "walk" PROVE guard + 1 \in 1 .. n /\ ptr \in CapOffsets /\ MoreToWalk
      OBVIOUS
    <2>1. guard + 1 \in 1 .. n
      BY <1>5, <1>6
    <2>2. ptr \in CapOffsets /\ ptr >= 64
      BY <1>5, <1>7, <2>1
    <2>3. guard < Limit
      BY <1>5, <1>6
    <2> QED
      BY <2>1, <2>2, <2>3 DEF MoreToWalk
  <1> USE DEF OnRoute
  <1>9. CASE Header
    <2>1. pc' = "walk" /\ ptr' = Masked(adapter.first) /\ guard' = 0
      BY <1>3, <1>5, <1>9 DEF Header, HasRoute
    <2>2. ptr' = route[1] /\ 0 + 1 = 1
      BY <1>3, <2>1 DEF HasRoute, IsRoute
    <2> QED
      BY <1>6, <2>1, <2>2
  <1>10. CASE WalkEnds \/ WalkFails
    BY <1>8, <1>10 DEF WalkEnds, WalkFails
  <1>11. CASE Visit
    <2>1. pc = "walk" /\ CapAt(ptr) = adapter.caps[route[guard + 1]]
      BY <1>5, <1>8, <1>11 DEF Visit, CapAt
    <2>2. CASE guard + 1 = n
      <3>1. CapAt(ptr).id = "pcie"
        BY <1>3, <2>1, <2>2 DEF HasRoute
      <3> QED
        BY <1>11, <3>1 DEF Visit
    <2>3. CASE guard + 1 # n
      <3>1. guard + 1 \in 1 .. n - 1
        BY <1>6, <1>8, <2>1, <2>3
      <3>2. /\ CapAt(ptr).id = "other"
            /\ route[guard + 1 + 1] = Masked(CapAt(ptr).next)
        BY <1>3, <2>1, <3>1 DEF HasRoute, IsRoute
      <3>3. /\ pc' = "walk" /\ ptr' = Masked(CapAt(ptr).next) /\ guard' = guard + 1
        BY <1>11, <3>2 DEF Visit
      <3>4. guard' < n /\ ptr' = route[guard' + 1]
        BY <1>6, <3>1, <3>2, <3>3
      <3> QED
        BY <3>3, <3>4
    <2> QED
      BY <2>2, <2>3
  <1>12. CASE ReadCapabilities
    BY <1>2, <1>12 DEF ReadCapabilities
  <1>13. CASE ReadLinkCap
    BY <1>2, <1>5, <1>13 DEF ReadLinkCap, ReadLink, LinkCap
  <1>14. CASE ReadLinkStatus
    BY <1>2, <1>5, <1>14 DEF ReadLinkStatus, ReadLink, LinkStatus
  <1>15. CASE ReadLinkCap2
    BY <1>2, <1>5, <1>15 DEF ReadLinkCap2, ReadLink, LinkCap2
  <1>16. CASE ClassifyGpu
    BY <1>16 DEF ClassifyGpu
  <1>17. CASE UNCHANGED vars
    BY <1>2, <1>5, <1>17 DEF vars
  <1> QED
    BY <1>9, <1>10, <1>11, <1>12, <1>13, <1>14, <1>15, <1>16, <1>17
       DEF Next, Record, Done

(* The port type is only ever read from the adapter. *)
LEMMA StepPort == TypeOK /\ PortInv /\ [Next]_vars => PortInv'
  BY DEF TypeOK, PortInv, Next, Record, Done, vars, given, Header, WalkEnds,
         WalkFails, Visit, ReadCapabilities, ReadLinkCap, ReadLinkStatus,
         ReadLinkCap2, ReadLink, ClassifyGpu

(* No evidence speaks against a board. *)
LEMMA BoardIsNotIntegrated ==
    ASSUME TypeOK, PortInv, ~adapter.integrated
    PROVE  ~KnownIntegrated
  <1>1. ~(adapter.root \/ adapter.vendor = "apu" \/ adapter.port = "rcIntegrated")
    BY AdaptersAssumption DEF TypeOK
  <1> QED
    BY <1>1 DEF KnownIntegrated, PortInv

(* At the verdict, a board of a vendor of boards only, or one with an      *)
(* option ROM whose capability is on the list, is known to be discrete.    *)
LEMMA BoardIsDiscrete ==
    ASSUME TypeOK, PortInv, RoutesInv, pc = "classify", ~adapter.integrated,
           \/ adapter.vendor \in {"nvidia", "intel"}
           \/ RomSeen /\ ~failed /\ OnTheList("pcie")
    PROVE  KnownDiscrete
  <1>1. CASE adapter.vendor \in {"nvidia", "intel"}
    BY <1>1 DEF KnownDiscrete
  <1>2. CASE RomSeen /\ ~failed /\ OnTheList("pcie")
    <2>1. PICK n \in 1 .. Cardinality(CapOffsets) :
              \E route \in [1 .. n -> CapOffsets] :
                 adapter.capList /\ IsRoute(route, n) /\ adapter.caps[route[n]].id = "pcie"
      BY <1>2 DEF OnTheList
    <2>2. PICK route \in [1 .. n -> CapOffsets] : HasRoute(n, route)
      BY <2>1 DEF HasRoute
    <2>3. valid /\ port = adapter.port
      BY <1>2, <2>2 DEF RoutesInv, OnRoute
    <2>4. adapter.port \in {"endpoint", "rcIntegrated"}
      BY CapBytes
    <2>5. adapter.port # "rcIntegrated"
      BY AdaptersAssumption DEF TypeOK
    <2> QED
      BY <1>2, <2>3, <2>4, <2>5 DEF KnownDiscrete
  <1> QED
    BY <1>1, <1>2

BoardsInv == PortInv /\ RoutesInv /\ BoardsAreRecognised

(* Every step keeps the walk on its route; the verdict is drawn from it. *)
LEMMA StepBoards == TypeOK /\ BoardsInv /\ [Next]_vars => BoardsInv'
  <1> SUFFICES ASSUME TypeOK, BoardsInv, [Next]_vars PROVE BoardsInv'
    OBVIOUS
  <1>1. PortInv'
    BY StepPort DEF BoardsInv
  <1>2. RoutesInv'
    <2>1. ASSUME NEW n \in 1 .. Cardinality(CapOffsets), NEW route \in [1 .. n -> CapOffsets]
          PROVE  OnRoute(n, route)'
      BY StepRoute DEF BoardsInv, RoutesInv
    <2> QED
      BY <2>1 DEF RoutesInv
  <1>3. BoardsAreRecognised'
    <2> SUFFICES ASSUME pc' = "done", ~adapter.integrated',
                        \/ adapter.vendor' \in {"nvidia", "intel"}
                        \/ RomSeen' /\ ~failed' /\ OnTheList("pcie")'
                 PROVE  type' = "discrete"
      BY DEF BoardsAreRecognised
    <2>1. ClassifyGpu \/ UNCHANGED vars
      BY DEF Next, Record, Done, Header, WalkEnds, WalkFails, Visit,
             ReadCapabilities, ReadLinkCap, ReadLinkStatus, ReadLinkCap2, ReadLink
    <2>2. UNCHANGED <<adapter, source, failed>>
      BY <2>1 DEF ClassifyGpu, vars, given
    <2>3. OnTheList("pcie")' = OnTheList("pcie") /\ RomSeen' = RomSeen
      BY <2>2 DEF OnTheList, IsRoute, RomSeen
    <2>4. CASE ClassifyGpu
      <3>1. KnownDiscrete
        BY <2>2, <2>3, <2>4, BoardIsDiscrete DEF BoardsInv, ClassifyGpu
      <3>2. ~KnownIntegrated
        BY <2>2, BoardIsNotIntegrated DEF BoardsInv
      <3> QED
        BY <2>4, <3>1, <3>2 DEF ClassifyGpu
    <2>5. CASE UNCHANGED vars
      BY <2>2, <2>3, <2>5 DEF BoardsInv, BoardsAreRecognised, vars
    <2> QED
      BY <2>1, <2>4, <2>5
  <1> QED
    BY <1>1, <1>2, <1>3 DEF BoardsInv

(* A board is recognised wherever on its list, looping or not, its PCI     *)
(* Express capability is, and by its vendor alone if that tells.           *)
THEOREM BoardsAreDiscrete == Spec => []BoardsAreRecognised
  <1>1. Init => BoardsInv
    BY DEF Init, BoardsInv, PortInv, RoutesInv, OnRoute, BoardsAreRecognised
  <1>2. BoardsInv => BoardsAreRecognised
    BY DEF BoardsInv
  <1> QED
    BY <1>1, <1>2, StepBoards, AdapterTypes, PTL DEF Spec
=============================================================================
