--------------------------- MODULE PciScanProofs ---------------------------
(***************************************************************************)
(* Proofs about PciScan: for every number of devices and functions, every  *)
(* capacity of the list, and every access that fails.                      *)
(***************************************************************************)
EXTENDS PciScan, FiniteSetTheorems, TLAPS

-----------------------------------------------------------------------------
(* The invariant *)

(* The passes come one after the other, and each starts from scratch. *)
Passes ==
    /\ phase \in {"locate", "pciio"} => ~fallback /\ probed = {}
    /\ phase \notin {"locate", "pciio"} => handles = {}
    /\ phase \notin {"sort", "done"} => sorted = 1

(* A device probed past its function 0 has said it has more. *)
Probes == phase = "probe" /\ bus =< last /\ func # 0 => MultiFunction(bus)

(* Only adapters of this machine are on the list, each once. *)
Listed == \A i \in DOMAIN results : results[i] \in Present /\ IsDisplay(results[i])
Distinct == \A i, j \in DOMAIN results : results[i] = results[j] => i = j

(* The list is full, and there is an adapter it has no room for. *)
Truncated ==
    overflow => /\ Len(results) = Capacity
                /\ \E s \in Present : IsDisplay(s) /\ ~AlreadyRecorded(s)

Wanted(s) == s \in Present /\ IsDisplay(s) /\ s[1] \notin failed
Found(s)  == AlreadyRecorded(s) \/ overflow

(* Still to come in the present bus range. *)
Ahead(s) == phase = "probe" /\ s[1] \in bus .. last /\ (s[1] = bus => s[2] >= func)

(* What was visited was found. *)
Visited == \A s \in offered \ handles : Wanted(s) => Found(s)
Covered == \A s \in Slots : s[1] \in probed /\ Wanted(s) => Found(s) \/ Ahead(s)

(* The first adapters are in order; in the end all are. *)
InOrder ==
    /\ \A i, j \in 1 .. Len(results) :
          i < j /\ j =< sorted => Before(results[i], results[j])
    /\ phase = "done" => sorted >= Len(results)

ScanInv ==
    /\ TypeOK /\ Passes /\ Probes /\ Listed /\ Distinct /\ Truncated
    /\ Visited /\ Covered /\ InOrder

-----------------------------------------------------------------------------
(* The machine *)

(* A machine says of each device what it is. *)
LEMMA MachineTypes ==
    ASSUME TypeOK, NEW d \in Devices
    PROVE  /\ machine[d].functions \subseteq Functions
           /\ machine[d].displays \subseteq machine[d].functions
           /\ machine[d].decodes \in BOOLEAN
           /\ machine[d].functions # {} => 0 \in machine[d].functions
           /\ ~machine[d].decodes => machine[d].functions = {0}
  BY MachinesAssumption DEF TypeOK, Device

(* A function that is there answers for itself. *)
LEMMA PresentAnswers ==
    ASSUME TypeOK, NEW s \in Present
    PROVE  Registers(s) = s /\ Responds(s)
<1>1. s \in Slots /\ s[1] \in Devices /\ s[2] \in Functions /\ s = <<s[1], s[2]>>
      /\ s[2] \in machine[s[1]].functions
  BY DEF Present, Slots
<1>2. CASE machine[s[1]].decodes
  BY <1>1, <1>2 DEF Registers, Responds
<1>3. CASE ~machine[s[1]].decodes
  <2>1. s[2] = 0
    BY <1>1, <1>3, MachineTypes
  <2> QED
    BY <1>1, <1>3, <2>1 DEF Registers, Responds
<1> QED
  BY <1>2, <1>3

(* What does not answer is not there. *)
LEMMA SilentIsAbsent ==
    ASSUME TypeOK, NEW s \in Slots, ~Responds(s)
    PROVE  s \notin Present /\ (s[2] = 0 => machine[s[1]].functions = {})
<1>1. s \notin Present
  BY PresentAnswers
<1>2. s[1] \in Devices /\ s[2] \in Functions
  BY DEF Slots
<1>3. Registers(s)[2] \notin machine[s[1]].functions
  BY DEF Responds
<1>4. s[2] = 0 => 0 \notin machine[s[1]].functions
  BY <1>2, <1>3 DEF Registers
<1> QED
  BY <1>1, <1>2, <1>4, MachineTypes

(* There are only finitely many of them. *)
LEMMA PresentIsFinite == ASSUME NEW S \in SUBSET Slots PROVE IsFiniteSet(S)
<1>1. IsFiniteSet(Devices) /\ IsFiniteSet(Functions)
  BY NumbersAssumption, FS_Interval DEF Devices, Functions
<1>2. IsFiniteSet(Slots)
  BY <1>1, FS_Product DEF Slots
<1> QED
  BY <1>2, FS_Subset

(* A bus range that a bridge may report begins and ends at devices. *)
LEMMA Ranges ==
    ASSUME NEW b \in Bridges, NEW range \in GetRootBridgeBusRange(b)
    PROVE  /\ range \subseteq Devices
           /\ First(range) \in Devices /\ Final(range) \in Devices
           /\ \A d \in range : d \in First(range) .. Final(range)
<1>1. PICK d \in Devices, e \in Devices : d =< e /\ range = d .. e
  BY BridgesAssumption, NumbersAssumption DEF GetRootBridgeBusRange, Devices
<1>2. d \in Nat /\ e \in Nat
  BY <1>1, NumbersAssumption DEF Devices
<1>3. d \in range /\ \A x \in range : d =< x
  BY <1>1, <1>2
<1>4. e \in range /\ \A x \in range : x =< e
  BY <1>1, <1>2
<1>5. First(range) = d
  BY <1>1, <1>2, <1>3 DEF First
<1>6. Final(range) = e
  BY <1>1, <1>2, <1>4 DEF Final
<1> QED
  BY <1>1, <1>2, <1>5, <1>6, NumbersAssumption DEF Devices

-----------------------------------------------------------------------------
(* The list *)

(* What one visit does to the list: nothing, where the function is no      *)
(* adapter or is on it; a mark, where it is full; or one adapter more.     *)
LEMMA RecordCases ==
    ASSUME NEW s, RecordIfDisplayDevice(s)
    PROVE  \/ /\ ~IsDisplay(s) \/ AlreadyRecorded(s)
              /\ results' = results /\ overflow' = overflow
           \/ /\ IsDisplay(s) /\ ~AlreadyRecorded(s) /\ Len(results) >= Capacity
              /\ results' = results /\ overflow' = TRUE
           \/ /\ IsDisplay(s) /\ ~AlreadyRecorded(s) /\ ~(Len(results) >= Capacity)
              /\ results' = Append(results, s) /\ overflow' = overflow
  BY DEF RecordIfDisplayDevice

(* A longer list. *)
LEMMA Appended ==
    ASSUME NEW S, NEW q \in Seq(S), NEW x \in S
    PROVE  /\ Append(q, x) \in Seq(S) /\ Len(Append(q, x)) = Len(q) + 1
           /\ DOMAIN Append(q, x) = 1 .. Len(q) + 1 /\ DOMAIN q = 1 .. Len(q)
           /\ \A i \in 1 .. Len(q) : Append(q, x)[i] = q[i]
           /\ Append(q, x)[Len(q) + 1] = x
  OBVIOUS

(* The parts of ScanInv that speak of the list. *)
ListInv == Listed /\ Distinct /\ Truncated

(* A visit keeps the list a list of adapters, each once, and finds its     *)
(* adapter.                                                                *)
LEMMA RecordKeeps ==
    ASSUME TypeOK, ListInv, UNCHANGED machine, NEW s \in Present, RecordIfDisplayDevice(s)
    PROVE  /\ results' \in Seq(Slots) /\ Len(results') =< Capacity
           /\ overflow' \in BOOLEAN
           /\ Listed' /\ Distinct' /\ Truncated'
           /\ \A t : Found(t) => Found(t)'
           /\ IsDisplay(s) => Found(s)'
<1>0. /\ results \in Seq(Slots) /\ Len(results) \in Nat /\ Len(results) =< Capacity
      /\ s \in Slots /\ Capacity \in Nat /\ overflow \in BOOLEAN
      /\ DOMAIN results = 1 .. Len(results)
  BY NumbersAssumption DEF TypeOK, Present
<1>c. Len(results) \in Nat /\ Capacity \in Nat /\ Len(results) =< Capacity
  BY <1>0
<1>a. \A t : IsDisplay(t)' = IsDisplay(t)
  BY DEF IsDisplay, Registers
<1>b. Present' = Present
  BY DEF Present
<1>1. CASE results' = results /\ overflow' = overflow /\ (~IsDisplay(s) \/ AlreadyRecorded(s))
  <2>1. \A t : AlreadyRecorded(t)' = AlreadyRecorded(t)
    BY <1>1 DEF AlreadyRecorded
  <2> QED
    BY <1>0, <1>1, <1>a, <1>b, <2>1 DEF ListInv, Listed, Distinct, Truncated, Found
<1>2. CASE /\ IsDisplay(s) /\ ~AlreadyRecorded(s) /\ Len(results) >= Capacity
           /\ results' = results /\ overflow' = TRUE
  <2>1. \A t : AlreadyRecorded(t)' = AlreadyRecorded(t)
    BY <1>2 DEF AlreadyRecorded
  <2>2. Len(results) = Capacity
    <3>1. Len(results) >= Capacity
      BY <1>2
    <3> QED
      BY <1>c, <3>1
  <2>3. Truncated'
    BY <1>2, <1>a, <1>b, <2>1, <2>2 DEF Truncated
  <2> QED
    BY <1>0, <1>2, <1>a, <1>b, <2>1, <2>3 DEF ListInv, Listed, Distinct, Found
<1>3. CASE /\ IsDisplay(s) /\ ~AlreadyRecorded(s) /\ ~(Len(results) >= Capacity)
           /\ results' = Append(results, s) /\ overflow' = overflow
  <2>1. /\ results' \in Seq(Slots) /\ Len(results') = Len(results) + 1
        /\ DOMAIN results' = 1 .. Len(results) + 1
        /\ \A i \in 1 .. Len(results) : results'[i] = results[i]
        /\ results'[Len(results) + 1] = s
    BY <1>0, <1>3, Appended
  <2>2. Len(results') =< Capacity
    BY <1>0, <1>3, <2>1
  <2>3. ~overflow /\ ~overflow'
    BY <1>3 DEF ListInv, Truncated
  <2>4. Listed'
    BY <1>0, <1>3, <1>a, <1>b, <2>1 DEF ListInv, Listed
  <2>5. \A i \in 1 .. Len(results) : results'[i] # s
    BY <1>0, <1>3, <2>1 DEF AlreadyRecorded
  <2>6. Distinct'
    BY <1>0, <2>1, <2>5 DEF ListInv, Distinct
  <2>7. (\A t : AlreadyRecorded(t) => AlreadyRecorded(t)') /\ AlreadyRecorded(s)'
    BY <1>0, <2>1 DEF AlreadyRecorded
  <2>8. (\A t : Found(t) => Found(t)') /\ Found(s)'
    BY <2>3, <2>7 DEF Found
  <2>9. Truncated' /\ overflow' \in BOOLEAN
    BY <1>0, <1>3, <2>3 DEF Truncated
  <2> QED
    BY <2>1, <2>2, <2>4, <2>6, <2>8, <2>9
<1> QED
  BY <1>1, <1>2, <1>3, RecordCases

(* One round of the sort: the same adapters, and one more of them in       *)
(* order.                                                                  *)
LEMMA RoundIs ==
    ASSUME TypeOK, NEW m \in 1 .. Len(results), SortRound(m)
    PROVE  \E j \in 1 .. m :
              /\ results' \in Seq(Slots) /\ Len(results') = Len(results)
              /\ DOMAIN results' = 1 .. Len(results) /\ DOMAIN results = 1 .. Len(results)
              /\ j > 1 => Before(results[j - 1], results[m])
              /\ \A k \in j .. (m - 1) : ~Before(results[k], results[m])
              /\ \A k \in 1 .. (j - 1) : results'[k] = results[k]
              /\ results'[j] = results[m]
              /\ \A k \in (j + 1) .. m : results'[k] = results[k - 1]
              /\ \A k \in (m + 1) .. Len(results) : results'[k] = results[k]
<1>0. /\ results \in Seq(Slots) /\ Len(results) \in Nat
      /\ DOMAIN results = 1 .. Len(results) /\ m \in Nat
      /\ \A i \in 1 .. Len(results) : results[i] \in Slots
  BY DEF TypeOK
<1>1. PICK j \in 1 .. m :
         /\ j > 1 => Before(results[j - 1], results[m])
         /\ \A k \in j .. (m - 1) : ~Before(results[k], results[m])
         /\ results' = [k \in DOMAIN results |->
                            IF k < j \/ k > m THEN results[k]
                            ELSE IF k = j THEN results[m] ELSE results[k - 1]]
  BY DEF SortRound
<1>2. /\ DOMAIN results' = 1 .. Len(results)
      /\ \A k \in 1 .. Len(results) :
            results'[k] = IF k < j \/ k > m THEN results[k]
                          ELSE IF k = j THEN results[m] ELSE results[k - 1]
  BY <1>0, <1>1
<1>3. \A k \in 1 .. Len(results) : results'[k] \in Slots
  BY <1>0, <1>2
<1>4. results' \in Seq(Slots) /\ Len(results') = Len(results)
  BY <1>0, <1>1, <1>2, <1>3
<1>5. j \in Nat /\ 1 =< j /\ j =< m /\ m =< Len(results)
  BY <1>0
<1>6. \A k \in 1 .. (j - 1) : results'[k] = results[k]
  BY <1>0, <1>2, <1>5
<1>7. results'[j] = results[m]
  BY <1>0, <1>2, <1>5
<1>8. \A k \in (j + 1) .. m : results'[k] = results[k - 1]
  BY <1>0, <1>2, <1>5
<1>9. \A k \in (m + 1) .. Len(results) : results'[k] = results[k]
  BY <1>0, <1>2, <1>5
<1> QED
  BY <1>0, <1>1, <1>2, <1>4, <1>6, <1>7, <1>8, <1>9

(* The list stays one of adapters, each once, and none is lost.            *)
LEMMA RoundKeeps ==
    ASSUME TypeOK, ListInv, UNCHANGED <<machine, overflow>>,
           NEW m \in 1 .. Len(results), SortRound(m)
    PROVE  /\ Listed' /\ Distinct' /\ Truncated'
           /\ \A t : AlreadyRecorded(t)' <=> AlreadyRecorded(t)
<1>1. PICK j \in 1 .. m :
         /\ DOMAIN results' = 1 .. Len(results) /\ DOMAIN results = 1 .. Len(results)
         /\ Len(results') = Len(results)
         /\ \A k \in 1 .. (j - 1) : results'[k] = results[k]
         /\ results'[j] = results[m]
         /\ \A k \in (j + 1) .. m : results'[k] = results[k - 1]
         /\ \A k \in (m + 1) .. Len(results) : results'[k] = results[k]
  BY RoundIs
<1>0. /\ Len(results) \in Nat /\ m \in Nat /\ j \in Nat
      /\ 1 =< j /\ j =< m /\ m =< Len(results)
  BY DEF TypeOK
<1> DEFINE n == Len(results)
           Old(k) == IF k < j THEN k ELSE IF k = j THEN m
                     ELSE IF k =< m THEN k - 1 ELSE k
           New(k) == IF k < j THEN k ELSE IF k = m THEN j
                     ELSE IF k < m THEN k + 1 ELSE k
<1>2. \A k \in 1 .. n : Old(k) \in 1 .. n /\ New(k) \in 1 .. n
  BY <1>0
<1>3. \A k \in 1 .. n : Old(New(k)) = k
  BY <1>0
<1>4. \A k, l \in 1 .. n : Old(k) = Old(l) => k = l
  BY <1>0
<1>5. \A k \in 1 .. n : results'[k] = results[Old(k)]
  <2>1. ASSUME NEW k \in 1 .. n PROVE results'[k] = results[Old(k)]
    <3>1. \/ k \in 1 .. (j - 1) \/ k = j \/ k \in (j + 1) .. m \/ k \in (m + 1) .. n
      BY <1>0
    <3>2. CASE k \in 1 .. (j - 1)
      BY <1>0, <1>1, <3>2
    <3>3. CASE k = j
      BY <1>0, <1>1, <3>3
    <3>4. CASE k \in (j + 1) .. m
      BY <1>0, <1>1, <3>4
    <3>5. CASE k \in (m + 1) .. n
      BY <1>0, <1>1, <3>5
    <3> QED
      BY <3>1, <3>2, <3>3, <3>4, <3>5
  <2> QED
    BY <2>1
<1> HIDE DEF Old, New
<1>6. \A k \in 1 .. n : results[k] = results'[New(k)]
  BY <1>2, <1>3, <1>5
<1>7. \A t : AlreadyRecorded(t)' <=> AlreadyRecorded(t)
  <2>1. \A t : AlreadyRecorded(t) <=> \E k \in 1 .. n : results[k] = t
    BY <1>1 DEF AlreadyRecorded
  <2>2. \A t : AlreadyRecorded(t)' <=> \E k \in 1 .. n : results'[k] = t
    BY <1>1 DEF AlreadyRecorded
  <2>3. ASSUME NEW t, NEW k \in 1 .. n, results'[k] = t
        PROVE  \E l \in 1 .. n : results[l] = t
    BY <1>2, <1>5, <2>3
  <2>4. ASSUME NEW t, NEW k \in 1 .. n, results[k] = t
        PROVE  \E l \in 1 .. n : results'[l] = t
    BY <1>2, <1>6, <2>4
  <2> QED
    BY <2>1, <2>2, <2>3, <2>4
<1>8. (\A t : IsDisplay(t)' <=> IsDisplay(t)) /\ Present' = Present
  BY DEF IsDisplay, Registers, Present
<1>9. Listed'
  BY <1>1, <1>2, <1>5, <1>8 DEF ListInv, Listed
<1>10. Distinct'
  BY <1>1, <1>2, <1>4, <1>5 DEF ListInv, Distinct
<1>11. Truncated'
  BY <1>1, <1>7, <1>8 DEF ListInv, Truncated
<1> QED
  BY <1>7, <1>9, <1>10, <1>11

(* The order of the sort is total and transitive. *)
LEMMA Order ==
    /\ \A s, t \in Slots : Before(s, t) \/ Before(t, s)
    /\ \A s, t, u \in Slots : Before(s, t) /\ Before(t, u) => Before(s, u)
<1>1. \A s \in Slots : s[1] \in Nat /\ s[2] \in Nat
  BY NumbersAssumption DEF Slots, Devices, Functions
<1>2. \A s, t \in Slots : Before(s, t) \/ Before(t, s)
  BY <1>1 DEF Before
<1>3. ASSUME NEW s \in Slots, NEW t \in Slots, NEW u \in Slots, Before(s, t), Before(t, u)
      PROVE  Before(s, u)
  <2>1. /\ s[1] \in Nat /\ s[2] \in Nat /\ t[1] \in Nat /\ t[2] \in Nat
        /\ u[1] \in Nat /\ u[2] \in Nat
    BY <1>1
  <2> QED
    BY <1>3, <2>1 DEF Before
<1> QED
  BY <1>2, <1>3

(* A list whose first adapters are in order. *)
OrderedTo(q, m) == \A i, j \in 1 .. Len(q) : i < j /\ j =< m => Before(q[i], q[j])

(* A round puts one more in order. *)
LEMMA RoundOrders ==
    ASSUME TypeOK, NEW m \in 1 .. Len(results), SortRound(m), OrderedTo(results, m - 1)
    PROVE  OrderedTo(results', m)
<1>1. PICK j \in 1 .. m :
         /\ Len(results') = Len(results)
         /\ j > 1 => Before(results[j - 1], results[m])
         /\ \A k \in j .. (m - 1) : ~Before(results[k], results[m])
         /\ \A k \in 1 .. (j - 1) : results'[k] = results[k]
         /\ results'[j] = results[m]
         /\ \A k \in (j + 1) .. m : results'[k] = results[k - 1]
  BY RoundIs
<1>0. /\ Len(results) \in Nat /\ m \in Nat /\ j \in Nat
      /\ 1 =< j /\ j =< m /\ m =< Len(results)
      /\ \A k \in 1 .. Len(results) : results[k] \in Slots
  BY DEF TypeOK
<1>2. \A a, b \in 1 .. Len(results) : a < b /\ b < m => Before(results[a], results[b])
  BY <1>0 DEF OrderedTo
<1>3. \A k \in 1 .. (j - 1) : Before(results[k], results[m])
  <2>1. ASSUME NEW k \in 1 .. (j - 1) PROVE Before(results[k], results[m])
    <3>1. k \in 1 .. Len(results) /\ j - 1 \in 1 .. Len(results) /\ j > 1 /\ j - 1 < m
      BY <1>0
    <3>2. CASE k = j - 1
      BY <1>1, <3>1, <3>2
    <3>3. CASE k < j - 1
      <4>1. Before(results[k], results[j - 1]) /\ Before(results[j - 1], results[m])
        BY <1>1, <1>2, <3>1, <3>3
      <4> QED
        BY <1>0, <3>1, <4>1, Order
    <3> QED
      BY <1>0, <3>1, <3>2, <3>3
  <2> QED
    BY <2>1
<1>4. \A k \in j .. (m - 1) : Before(results[m], results[k])
  <2>1. \A k \in j .. (m - 1) : k \in 1 .. Len(results)
    BY <1>0
  <2> QED
    BY <1>0, <1>1, <2>1, Order
<1> SUFFICES ASSUME NEW a \in 1 .. Len(results), NEW b \in 1 .. Len(results),
                    a < b, b =< m
             PROVE  Before(results'[a], results'[b])
  BY <1>1 DEF OrderedTo
<1>5. CASE b < j
  <2>1. a \in 1 .. (j - 1) /\ b \in 1 .. (j - 1) /\ b < m
    BY <1>0, <1>5
  <2> QED
    BY <1>1, <1>2, <2>1
<1>6. CASE b = j
  <2>1. a \in 1 .. (j - 1)
    BY <1>0, <1>6
  <2> QED
    BY <1>1, <1>3, <1>6, <2>1
<1>7. CASE b > j /\ a < j
  <2>1. /\ b \in (j + 1) .. m /\ a \in 1 .. (j - 1)
        /\ b - 1 \in 1 .. Len(results) /\ a < b - 1 /\ b - 1 < m
    BY <1>0, <1>7
  <2> QED
    BY <1>1, <1>2, <2>1
<1>8. CASE b > j /\ a = j
  <2>1. b \in (j + 1) .. m /\ b - 1 \in j .. (m - 1)
    BY <1>0, <1>8
  <2> QED
    BY <1>1, <1>4, <1>8, <2>1
<1>9. CASE b > j /\ a > j
  <2>1. /\ b \in (j + 1) .. m /\ a \in (j + 1) .. m
        /\ b - 1 \in 1 .. Len(results) /\ a - 1 \in 1 .. Len(results)
        /\ a - 1 < b - 1 /\ b - 1 < m
    BY <1>0, <1>9
  <2> QED
    BY <1>1, <1>2, <2>1
<1> QED
  BY <1>0, <1>5, <1>6, <1>7, <1>8, <1>9

-----------------------------------------------------------------------------
(* What a step leaves as it was *)

(* What is wanted is wanted for good, but for accesses that fail.          *)
LEMMA WantedStays ==
    ASSUME UNCHANGED machine, failed \subseteq failed'
    PROVE  \A t : Wanted(t)' => Wanted(t)
<1>1. (\A t : IsDisplay(t)' <=> IsDisplay(t)) /\ Present' = Present
  BY DEF IsDisplay, Registers, Present
<1> QED
  BY <1>1 DEF Wanted

(* The list is left alone. *)
LEMMA ListStays ==
    ASSUME ListInv, UNCHANGED <<machine, results, overflow>>
    PROVE  /\ ListInv'
           /\ \A t : Found(t)' <=> Found(t)
<1>1. (\A t : IsDisplay(t)' <=> IsDisplay(t)) /\ Present' = Present
  BY DEF IsDisplay, Registers, Present
<1>2. \A t : AlreadyRecorded(t)' <=> AlreadyRecorded(t)
  BY DEF AlreadyRecorded
<1>3. Listed' /\ Distinct'
  BY <1>1 DEF ListInv, Listed, Distinct
<1>4. Truncated'
  BY <1>1, <1>2 DEF ListInv, Truncated
<1> QED
  BY <1>2, <1>3, <1>4 DEF ListInv, Found

(* Nothing is in order yet but the first adapter.                          *)
LEMMA OrderLater ==
    ASSUME sorted' = 1, phase' # "done" PROVE InOrder'
  BY DEF InOrder

(* The functions behind the handles are not visited, or not again.         *)
LEMMA VisitedStays ==
    ASSUME Visited, UNCHANGED <<offered, handles>>,
           \A t : Wanted(t)' => Wanted(t), \A t : Found(t) => Found(t)'
    PROVE  Visited'
  BY DEF Visited

(* No bus range is being walked. *)
LEMMA CoveredStays ==
    ASSUME Covered, UNCHANGED probed, phase # "probe" \/ ~(bus =< last),
           bus \in Nat, last \in Nat,
           \A t : Wanted(t)' => Wanted(t), \A t : Found(t) => Found(t)'
    PROVE  Covered'
<1>1. \A t : ~Ahead(t)
  <2>1. CASE phase # "probe"
    BY <2>1 DEF Ahead
  <2>2. CASE ~(bus =< last)
    <3>1. bus .. last = {}
      BY <2>2
    <3> QED
      BY <3>1 DEF Ahead
  <2> QED
    BY <2>1, <2>2
<1> QED
  BY <1>1 DEF Covered

-----------------------------------------------------------------------------
(* ScanInv: the pass over the handles *)

(* The scan begins with nothing. *)
LEMMA InitScan == Init => ScanInv
<1> SUFFICES ASSUME Init PROVE ScanInv
  OBVIOUS
<1>1. results \in Seq(Slots) /\ Len(results) = 0 /\ DOMAIN results = {}
  BY DEF Init
<1>2. TypeOK
  <2>1. handleCount = Cardinality(offered)
    BY FS_EmptySet DEF Init
  <2>2. /\ bus \in Nat /\ last \in Devices /\ func \in Functions
        /\ sorted \in 1 .. Capacity + 1 /\ Len(results) =< Capacity
    BY <1>1, NumbersAssumption DEF Init, Devices, Functions
  <2> QED
    BY <1>1, <2>1, <2>2 DEF Init, TypeOK
<1>3. Listed /\ Distinct
  BY <1>1 DEF Listed, Distinct
<1>4. InOrder
  BY DEF Init, InOrder
<1> QED
  BY <1>2, <1>3, <1>4
  DEF Init, ScanInv, Passes, Probes, Truncated, Visited, Covered

(* The firmware hands out the functions it has bound, or none. *)
LEMMA LocateScan == ScanInv /\ LocateHandles => ScanInv'
<1> SUFFICES ASSUME ScanInv, LocateHandles PROVE ScanInv'
  OBVIOUS
<1> USE DEF ScanInv, LocateHandles, fixed, walk, list
<1>0. Present' = Present
  BY DEF Present
<1>1. TypeOK'
  BY <1>0 DEF TypeOK
<1>2. ListInv'
  BY ListStays DEF ListInv
<1>3. Passes' /\ Probes'
  BY DEF Passes, Probes
<1>4. Visited' /\ Covered'
  BY DEF Visited, Covered, Passes
<1>5. InOrder'
  BY OrderLater DEF Passes
<1> QED
  BY <1>1, <1>2, <1>3, <1>4, <1>5 DEF ListInv

(* A function behind a handle that fails is not wanted. *)
LEMMA PassOverHandleScan == ScanInv /\ PassOverHandle => ScanInv'
<1> SUFFICES ASSUME ScanInv, PassOverHandle PROVE ScanInv'
  OBVIOUS
<1> USE DEF ScanInv
<1>1. PICK s \in handles : handles' = handles \ {s} /\ failed' = failed \union {s[1]}
  BY DEF PassOverHandle
<1>2. /\ UNCHANGED <<machine, sorted, phase, handleCount, offered, bridges, bus, last,
                     func, probed, results, overflow, connected, fallback>>
      /\ phase = "pciio"
  BY DEF PassOverHandle, fixed, walk, list
<1>3. s \in Present /\ s[1] \in Devices
  BY <1>1 DEF TypeOK, Present, Slots
<1>4. Present' = Present
  BY <1>2 DEF Present
<1>5. TypeOK'
  BY <1>1, <1>2, <1>3, <1>4 DEF TypeOK
<1>6. ListInv' /\ \A t : Found(t)' <=> Found(t)
  BY <1>2, ListStays DEF ListInv
<1>7. Passes' /\ Probes'
  BY <1>2 DEF Passes, Probes
<1>8. Visited'
  <2>1. \A t : Wanted(t)' => Wanted(t) /\ t[1] # s[1]
    BY <1>1, <1>2, WantedStays DEF Wanted
  <2> QED
    BY <1>1, <1>2, <1>6, <2>1 DEF Visited
<1>9. Covered'
  BY <1>2 DEF Covered, Passes
<1>10. InOrder'
  BY <1>2, OrderLater DEF Passes
<1> QED
  BY <1>5, <1>6, <1>7, <1>8, <1>9, <1>10 DEF ListInv

(* One that does not fail is found, if it is wanted. *)
LEMMA VisitHandleScan == ScanInv /\ VisitHandle => ScanInv'
<1> SUFFICES ASSUME ScanInv, VisitHandle PROVE ScanInv'
  OBVIOUS
<1> USE DEF ScanInv
<1>1. PICK s \in handles : handles' = handles \ {s} /\ RecordIfDisplayDevice(s)
  BY DEF VisitHandle
<1>2. /\ UNCHANGED <<machine, sorted, phase, handleCount, offered, bridges, bus, last,
                     func, probed, connected, fallback, failed>>
      /\ phase = "pciio"
  BY DEF VisitHandle, fixed, walk
<1>3. s \in Present
  BY <1>1 DEF TypeOK
<1>4. Present' = Present
  BY <1>2 DEF Present
<1>5. /\ results' \in Seq(Slots) /\ Len(results') =< Capacity /\ overflow' \in BOOLEAN
      /\ ListInv'
      /\ \A t : Found(t) => Found(t)'
      /\ IsDisplay(s) => Found(s)'
  BY <1>1, <1>2, <1>3, RecordKeeps DEF ListInv
<1>6. TypeOK'
  BY <1>1, <1>2, <1>4, <1>5 DEF TypeOK
<1>7. Passes' /\ Probes'
  BY <1>2 DEF Passes, Probes
<1>8. Visited'
  <2>1. \A t : Wanted(t)' => Wanted(t)
    BY <1>2, WantedStays
  <2>2. Wanted(s) => Found(s)'
    BY <1>5 DEF Wanted
  <2> QED
    BY <1>1, <1>2, <1>5, <2>1, <2>2 DEF Visited
<1>9. Covered'
  BY <1>2 DEF Covered, Passes
<1>10. InOrder'
  BY <1>2, OrderLater DEF Passes
<1> QED
  BY <1>5, <1>6, <1>7, <1>8, <1>9, <1>10 DEF ListInv

(* The second pass begins with nothing, like the first.                    *)
LEMMA ConnectAllScan == ScanInv /\ ConnectAll => ScanInv'
<1> SUFFICES ASSUME ScanInv, ConnectAll PROVE ScanInv'
  OBVIOUS
<1> USE DEF ScanInv
<1>1. /\ UNCHANGED <<machine, sorted, handles, handleCount, offered, bridges, bus, last,
                     func, probed, fallback, failed>>
      /\ phase = "pciio" /\ phase' = "locate" /\ handleCount = 0
      /\ results' = <<>> /\ overflow' = FALSE /\ connected' = TRUE
  BY DEF ConnectAll, PassDone, fixed, pass, walk
<1>2. Present' = Present
  BY <1>1 DEF Present
<1>3. results' \in Seq(Slots) /\ Len(results') = 0 /\ DOMAIN results' = {}
  BY <1>1
<1>4. TypeOK'
  <2>1. Len(results') =< Capacity
    BY <1>3, NumbersAssumption
  <2> QED
    BY <1>1, <1>2, <1>3, <2>1 DEF TypeOK
<1>5. Listed' /\ Distinct' /\ Truncated'
  BY <1>1, <1>3 DEF Listed, Distinct, Truncated
<1>6. Passes' /\ Probes'
  BY <1>1 DEF Passes, Probes
<1>7. Visited'
  <2>1. IsFiniteSet(offered) /\ Cardinality(offered) = 0
    BY <1>1, PresentIsFinite DEF TypeOK, Present
  <2>2. offered = {}
    BY <2>1, FS_EmptySet
  <2> QED
    BY <1>1, <2>2 DEF Visited
<1>8. Covered'
  BY <1>1 DEF Covered, Passes
<1>9. InOrder'
  BY <1>1, OrderLater DEF Passes
<1> QED
  BY <1>4, <1>5, <1>6, <1>7, <1>8, <1>9

(* The steps from one pass to the next leave list and history alone.       *)
LEMMA BetweenScan ==
    ScanInv /\ (FallBack \/ AdaptersFound \/ PassOverBridge \/ RangeDone \/ BridgesDone)
        => ScanInv'
<1> SUFFICES ASSUME ScanInv,
                    FallBack \/ AdaptersFound \/ PassOverBridge \/ RangeDone \/ BridgesDone
             PROVE  ScanInv'
  OBVIOUS
<1> USE DEF ScanInv
<1>1. /\ UNCHANGED <<machine, sorted, handles, handleCount, offered, bus, last, func, probed,
                     results, overflow, connected, failed>>
      /\ bridges' \subseteq bridges \union Bridges /\ fallback' \in {fallback, TRUE}
      /\ phase' \in {"bridge", "sort"} /\ handles = {}
      /\ \/ phase \in {"pciio", "bridge"}
         \/ phase = "probe" /\ bus > last
  BY DEF FallBack, AdaptersFound, PassOverBridge, RangeDone, BridgesDone, PassDone, fixed,
         pass, walk, list, Passes
<1>2. Present' = Present
  BY <1>1 DEF Present
<1>3. TypeOK'
  BY <1>1, <1>2 DEF TypeOK
<1>4. ListInv' /\ \A t : Found(t)' <=> Found(t)
  BY <1>1, ListStays DEF ListInv
<1>5. Passes' /\ Probes'
  BY <1>1 DEF Passes, Probes
<1>6. \A t : Wanted(t)' => Wanted(t)
  BY <1>1, WantedStays
<1>7. Visited'
  BY <1>1, <1>4, <1>6, VisitedStays
<1>8. Covered'
  <2>1. bus \in Nat /\ last \in Nat
    BY NumbersAssumption DEF TypeOK, Devices
  <2>2. phase # "probe" \/ ~(bus =< last)
    BY <1>1, <2>1
  <2> QED
    BY <1>1, <1>4, <1>6, <2>1, <2>2, CoveredStays
<1>9. InOrder'
  BY <1>1, OrderLater DEF Passes
<1> QED
  BY <1>3, <1>4, <1>5, <1>7, <1>8, <1>9 DEF ListInv

-----------------------------------------------------------------------------
(* ScanInv: the walk over the buses *)

(* A bus range is begun at its first device. *)
LEMMA VisitBridgeScan == ScanInv /\ VisitBridge => ScanInv'
<1> SUFFICES ASSUME ScanInv, VisitBridge PROVE ScanInv'
  OBVIOUS
<1> USE DEF ScanInv
<1>b. PICK b \in bridges : \E range \in GetRootBridgeBusRange(b) :
         /\ bridges' = bridges \ {b}
         /\ bus' = First(range) /\ last' = Final(range)
         /\ probed' = probed \union range
  BY DEF VisitBridge
<1>1. PICK range \in GetRootBridgeBusRange(b) :
         /\ bridges' = bridges \ {b}
         /\ bus' = First(range) /\ last' = Final(range)
         /\ probed' = probed \union range
  BY <1>b
<1>2. /\ UNCHANGED <<machine, sorted, handles, handleCount, offered, results, overflow,
                     connected, fallback, failed>>
      /\ func' = 0 /\ phase = "bridge" /\ phase' = "probe"
  BY DEF VisitBridge, fixed, pass, list
<1>3. /\ range \subseteq Devices
      /\ First(range) \in Devices /\ Final(range) \in Devices
      /\ \A d \in range : d \in First(range) .. Final(range)
  BY <1>1, Ranges DEF TypeOK
<1>4. Present' = Present
  BY <1>2 DEF Present
<1>5. TypeOK'
  <2>1. bus' \in Nat /\ last' \in Devices /\ func' \in Functions
    BY <1>1, <1>2, <1>3, NumbersAssumption DEF Devices, Functions
  <2> QED
    BY <1>1, <1>2, <1>3, <1>4, <2>1 DEF TypeOK
<1>6. ListInv' /\ \A t : Found(t)' <=> Found(t)
  BY <1>2, ListStays DEF ListInv
<1>7. Passes' /\ Probes'
  BY <1>2 DEF Passes, Probes
<1>8. \A t : Wanted(t)' => Wanted(t)
  BY <1>2, WantedStays
<1>9. Visited'
  BY <1>2, <1>6, <1>8, VisitedStays
<1>10. Covered'
  <2>1. ASSUME NEW s \in Slots, s[1] \in range PROVE Ahead(s)'
    <3>1. s[1] \in bus' .. last'
      BY <1>1, <1>3, <2>1
    <3>2. s[2] >= 0
      BY NumbersAssumption DEF Slots, Functions
    <3> QED
      BY <1>2, <3>1, <3>2 DEF Ahead
  <2>2. ASSUME NEW s \in Slots, s[1] \in probed, Wanted(s)' PROVE Found(s)'
    BY <1>2, <1>6, <1>8, <2>2 DEF Covered, Ahead
  <2> QED
    BY <1>1, <2>1, <2>2 DEF Covered
<1>11. InOrder'
  BY <1>2, OrderLater DEF Passes
<1> QED
  BY <1>5, <1>6, <1>7, <1>9, <1>10, <1>11 DEF ListInv

(* What a step of the walk may do to the rest of the state. *)
ProbeStep ==
    /\ Probing
    /\ UNCHANGED <<machine, sorted, phase, handles, handleCount, offered, bridges, last,
                   probed, connected, fallback>>
    /\ bus' = bus \/ bus' = bus + 1
    /\ \A t : Wanted(t)' => Wanted(t)
    /\ \A t : Found(t) => Found(t)'

(* A device is left when the functions of it that are still ahead are      *)
(* found or not wanted.                                                    *)
LEMMA DeviceDone ==
    ASSUME TypeOK, Covered, ProbeStep, bus' = bus + 1, func' = 0,
           \A t \in Slots : t[1] = bus /\ t[2] >= func /\ Wanted(t)' => Found(t)'
    PROVE  Covered'
<1> SUFFICES ASSUME NEW s \in Slots, s[1] \in probed, Wanted(s)', ~Found(s)'
             PROVE  Ahead(s)'
  BY DEF Covered, ProbeStep
<1>1. Ahead(s)
  BY DEF ProbeStep, Covered
<1>2. s[1] # bus
  BY <1>1 DEF Ahead
<1>3. /\ bus \in Nat /\ last \in Nat /\ s[1] \in Nat /\ s[2] \in Nat
  BY NumbersAssumption DEF TypeOK, Devices, Functions, Slots
<1>4. s[1] \in bus .. last
  BY <1>1 DEF Ahead
<1>5. s[1] \in (bus + 1) .. last
  BY <1>2, <1>3, <1>4
<1>6. s[2] >= 0
  BY <1>3
<1> QED
  BY <1>1, <1>5, <1>6 DEF Ahead, ProbeStep

(* A function is left when it is found or not wanted. *)
LEMMA FunctionDone ==
    ASSUME TypeOK, Covered, ProbeStep, NextFunction,
           \A t \in Slots : t = Slot /\ Wanted(t)' => Found(t)'
    PROVE  Covered'
<1>0. /\ bus \in Nat /\ last \in Nat /\ func \in Nat /\ LastFunction \in Nat
      /\ func =< LastFunction
      /\ \A t \in Slots : t[1] \in Nat /\ t[2] \in 0 .. LastFunction /\ t = <<t[1], t[2]>>
  BY NumbersAssumption DEF TypeOK, Devices, Functions, Slots
<1>1. CASE func + 1 \in Functions
  <2>1. bus' = bus /\ func' = func + 1
    BY <1>1 DEF NextFunction
  <2> SUFFICES ASSUME NEW s \in Slots, s[1] \in probed, Wanted(s)', ~Found(s)'
               PROVE  Ahead(s)'
    BY DEF Covered, ProbeStep
  <2>2. Ahead(s)
    BY DEF ProbeStep, Covered
  <2>3. s # <<bus, func>>
    BY DEF Slot
  <2>4. s[1] = bus => s[2] >= func
    BY <2>2 DEF Ahead
  <2>5. s[1] = bus => s[2] # func
    BY <1>0, <2>3
  <2>6. s[1] = bus => s[2] >= func + 1
    BY <1>0, <2>4, <2>5
  <2> QED
    BY <2>1, <2>2, <2>6 DEF Ahead, ProbeStep
<1>2. CASE func + 1 \notin Functions
  <2>1. bus' = bus + 1 /\ func' = 0
    BY <1>2 DEF NextFunction, NextDevice
  <2>2. func = LastFunction
    BY <1>0, <1>2 DEF Functions
  <2>3. ASSUME NEW t \in Slots, t[1] = bus, t[2] >= func PROVE t = Slot
    <3>1. t[2] = func
      BY <1>0, <2>2, <2>3
    <3> QED
      BY <1>0, <2>3, <3>1 DEF Slot
  <2> QED
    BY <2>1, <2>3, DeviceDone
<1> QED
  BY <1>1, <1>2

(* Wherever the walk goes on, it is at a function of a device, past 0 only *)
(* of one with more.                                                       *)
LEMMA WalkTypes ==
    ASSUME TypeOK, Probes, Probing, NextDevice \/ NextFunction,
           NextFunction => MultiFunction(bus) \/ ~(func + 1 \in Functions)
    PROVE  bus' \in Nat /\ func' \in Functions /\ Probes'
<1>0. bus \in Nat /\ bus + 1 \in Nat /\ 0 \in Functions
  BY NumbersAssumption DEF TypeOK, Functions
<1>1. CASE NextDevice
  BY <1>0, <1>1 DEF NextDevice, Probes
<1>2. CASE NextFunction /\ func + 1 \in Functions
  <2>1. func' = func + 1 /\ UNCHANGED <<machine, bus>> /\ MultiFunction(bus)
    BY <1>2 DEF NextFunction, fixed
  <2> QED
    BY <1>0, <1>2, <2>1 DEF Probes, MultiFunction
<1>3. CASE NextFunction /\ ~(func + 1 \in Functions)
  <2>1. NextDevice
    BY <1>3 DEF NextFunction
  <2> QED
    BY <1>1, <2>1
<1> QED
  BY <1>1, <1>2, <1>3

(* The slot the walk is at is one of the machine's. *)
LEMMA AtSlot ==
    ASSUME TypeOK, Probes, Probing
    PROVE  /\ Slot \in Slots /\ bus \in Devices /\ Slot[1] = bus /\ Slot[2] = func
           /\ func # 0 => MultiFunction(bus)
           /\ Responds(Slot) => Slot \in Present
<1>1. bus \in Devices
  BY NumbersAssumption DEF TypeOK, Probing, Devices
<1>2. Slot \in Slots /\ Slot[1] = bus /\ Slot[2] = func
  BY <1>1 DEF TypeOK, Slots, Slot
<1>3. func # 0 => MultiFunction(bus)
  BY DEF Probes, Probing
<1>4. ASSUME Responds(Slot) PROVE Slot \in Present
  <2>1. CASE machine[bus].decodes
    BY <1>2, <1>4, <2>1 DEF Responds, Registers, Present
  <2>2. CASE ~machine[bus].decodes
    <3>1. machine[bus].functions = {0}
      BY <1>1, <2>2, MachineTypes
    <3>2. func = 0
      BY <1>3, <3>1 DEF MultiFunction
    <3> QED
      BY <1>2, <3>1, <3>2 DEF Present
  <2> QED
    BY <2>1, <2>2
<1> QED
  BY <1>1, <1>2, <1>3, <1>4

(* A step of the walk that has found what it leaves behind.                *)
LEMMA WalkScan ==
    ASSUME ScanInv, ProbeStep, NextDevice \/ NextFunction,
           failed' \subseteq Devices,
           results' \in Seq(Slots), Len(results') =< Capacity, overflow' \in BOOLEAN, ListInv',
           NextFunction => MultiFunction(bus) \/ ~(func + 1 \in Functions),
           \A t \in Slots : t = Slot /\ Wanted(t)' => Found(t)',
           NextDevice => \A t \in Slots : t[1] = bus /\ t[2] >= func /\ Wanted(t)' => Found(t)'
    PROVE  ScanInv'
<1> USE DEF ScanInv
<1>1. Present' = Present
  BY DEF Present, ProbeStep
<1>2. bus' \in Nat /\ func' \in Functions /\ Probes'
  BY WalkTypes DEF ProbeStep
<1>3. TypeOK'
  BY <1>1, <1>2 DEF TypeOK, ProbeStep
<1>4. Passes'
  BY DEF Passes, ProbeStep, Probing
<1>5. Visited'
  BY VisitedStays DEF ProbeStep
<1>6. Covered'
  <2>1. CASE NextDevice
    <3>1. bus' = bus + 1 /\ func' = 0
      BY <2>1 DEF NextDevice
    <3> QED
      BY <2>1, <3>1, DeviceDone
  <2>2. CASE NextFunction
    BY <2>2, FunctionDone
  <2> QED
    BY <2>1, <2>2
<1>7. InOrder'
  BY OrderLater DEF Passes, ProbeStep, Probing
<1> QED
  BY <1>2, <1>3, <1>4, <1>5, <1>6, <1>7 DEF ListInv

(* Past the last function of a device comes the next device. *)
LEMMA LastOfDevice ==
    ASSUME TypeOK, NextFunction, NextDevice, NEW t \in Slots, t[1] = bus, t[2] >= func
    PROVE  t = Slot
<1>1. bus' = bus + 1 /\ bus \in Nat
  BY DEF NextDevice, TypeOK
<1>2. func + 1 \in Functions => bus' = bus
  BY DEF NextFunction
<1>3. func + 1 \notin Functions
  BY <1>1, <1>2
<1>4. /\ func \in 0 .. LastFunction /\ t[2] \in 0 .. LastFunction
      /\ LastFunction \in Nat /\ t = <<t[1], t[2]>>
  BY NumbersAssumption DEF TypeOK, Functions, Slots
<1>5. t[2] = func
  BY <1>3, <1>4 DEF Functions
<1> QED
  BY <1>4, <1>5 DEF Slot

(* The walk goes to one place. *)
LEMMA OneWay ==
    ASSUME TypeOK, NextFunction, NextDevice PROVE ~(func + 1 \in Functions)
<1>1. bus' = bus + 1 /\ bus \in Nat
  BY DEF NextDevice, TypeOK
<1>2. func + 1 \in Functions => bus' = bus
  BY DEF NextFunction
<1> QED
  BY <1>1, <1>2

(* Going on leaves everything else alone. *)
LEMMA GoingOn ==
    ASSUME Probing, NextDevice \/ NextFunction,
           \A t : Wanted(t)' => Wanted(t), \A t : Found(t) => Found(t)'
    PROVE  ProbeStep /\ UNCHANGED machine
  BY DEF ProbeStep, NextDevice, NextFunction, fixed, pass

(* An access that fails takes its device out of what is wanted. *)
LEMMA FailsScan == ScanInv /\ (VendorFails \/ HeaderFails) => ScanInv'
<1> SUFFICES ASSUME ScanInv, VendorFails \/ HeaderFails PROVE ScanInv'
  OBVIOUS
<1> USE DEF ScanInv
<1>1. /\ Probing /\ failed' = failed \union {bus} /\ UNCHANGED <<results, overflow>>
      /\ NextDevice \/ NextFunction
  BY DEF VendorFails, HeaderFails, list
<1>2. UNCHANGED machine
  BY <1>1 DEF NextDevice, NextFunction, fixed
<1>3. /\ Slot \in Slots /\ bus \in Devices /\ Slot[1] = bus
      /\ func # 0 => MultiFunction(bus)
  BY <1>1, AtSlot
<1>4. ListInv' /\ \A t : Found(t)' <=> Found(t)
  BY <1>1, <1>2, ListStays DEF ListInv
<1>5. \A t : Wanted(t)' => Wanted(t) /\ t[1] # bus
  BY <1>1, <1>2, WantedStays DEF Wanted
<1>6. ProbeStep
  BY <1>1, <1>4, <1>5, GoingOn
<1>7. NextFunction => MultiFunction(bus) \/ ~(func + 1 \in Functions)
  <2>1. CASE VendorFails
    <3>1. func = 0 => NextDevice
      BY <2>1 DEF VendorFails
    <3> QED
      BY <1>3, <3>1, OneWay
  <2>2. CASE HeaderFails
    <3>1. func = 0 /\ ~MultiFunction(bus) => NextDevice
      BY <2>2 DEF HeaderFails
    <3> QED
      BY <1>3, <3>1, OneWay
  <2> QED
    BY <2>1, <2>2
<1> QED
  BY <1>1, <1>3, <1>4, <1>5, <1>6, <1>7, WalkScan DEF TypeOK

(* Where nothing answers there is nothing to find. *)
LEMMA NobodyHomeScan == ScanInv /\ NobodyHome => ScanInv'
<1> SUFFICES ASSUME ScanInv, NobodyHome PROVE ScanInv'
  OBVIOUS
<1> USE DEF ScanInv
<1>1. /\ Probing /\ ~Responds(Slot) /\ UNCHANGED <<results, overflow, failed>>
      /\ func = 0 => NextDevice
      /\ func # 0 => NextFunction
  BY DEF NobodyHome, list
<1>2. UNCHANGED machine
  BY <1>1 DEF NextDevice, NextFunction, fixed
<1>3. /\ Slot \in Slots /\ bus \in Devices /\ Slot[1] = bus /\ Slot[2] = func
      /\ func # 0 => MultiFunction(bus)
  BY <1>1, AtSlot
<1>4. ListInv' /\ \A t : Found(t)' <=> Found(t)
  BY <1>1, <1>2, ListStays DEF ListInv
<1>5. \A t : Wanted(t)' => Wanted(t)
  BY <1>1, <1>2, WantedStays
<1>6. ProbeStep
  BY <1>1, <1>4, <1>5, GoingOn
<1>7. Slot \notin Present /\ (func = 0 => machine[bus].functions = {})
  BY <1>1, <1>3, SilentIsAbsent
<1>8. CASE func = 0
  <2>1. \A t \in Slots : t[1] = bus => t \notin Present
    BY <1>7, <1>8 DEF Present
  <2>2. \A t \in Slots : t[1] = bus => ~Wanted(t)'
    BY <1>5, <2>1 DEF Wanted
  <2>3. NextFunction => ~(func + 1 \in Functions)
    BY <1>1, <1>8, OneWay
  <2> QED
    BY <1>1, <1>3, <1>4, <1>6, <1>8, <2>2, <2>3, WalkScan DEF TypeOK
<1>9. CASE func # 0
  <2>1. \A t \in Slots : t = Slot => ~Wanted(t)'
    BY <1>5, <1>7 DEF Wanted
  <2>2. NextDevice => \A t \in Slots : t[1] = bus /\ t[2] >= func /\ Wanted(t)' => Found(t)'
    BY <1>1, <1>9, <2>1, LastOfDevice
  <2> QED
    BY <1>1, <1>3, <1>4, <1>6, <1>9, <2>1, <2>2, WalkScan DEF TypeOK
<1> QED
  BY <1>8, <1>9

(* The function that was read is found, or was no adapter; what is left    *)
(* of a device that is left is not there.                                  *)
LEMMA ProbeFunctionScan == ScanInv /\ ProbeFunction => ScanInv'
<1> SUFFICES ASSUME ScanInv, ProbeFunction PROVE ScanInv'
  OBVIOUS
<1> USE DEF ScanInv
<1>1. /\ Probing /\ Responds(Slot) /\ RecordIfDisplayDevice(Slot)
      /\ NextDevice \/ NextFunction
      /\ func # 0 => NextFunction
      /\ failed' = failed \/ failed' = failed \union {bus}
      /\ func = 0 /\ failed' = failed /\ ~MultiFunction(bus) => NextDevice
      /\ failed' # failed => (func = 0 => NextDevice)
  BY DEF ProbeFunction
<1>2. UNCHANGED machine
  BY <1>1 DEF NextDevice, NextFunction, fixed
<1>3. /\ Slot \in Slots /\ bus \in Devices /\ Slot[1] = bus /\ Slot[2] = func
      /\ func # 0 => MultiFunction(bus)
      /\ Slot \in Present
  BY <1>1, AtSlot
<1>s. PICK s \in Present : s = Slot
  BY <1>3
<1>4. /\ results' \in Seq(Slots) /\ Len(results') =< Capacity /\ overflow' \in BOOLEAN
      /\ ListInv'
      /\ \A t : Found(t) => Found(t)'
      /\ IsDisplay(s) => Found(s)'
  <2>1. RecordIfDisplayDevice(s)
    BY <1>1, <1>s
  <2> QED
    BY <1>2, <2>1, RecordKeeps DEF ListInv
<1>5. \A t : Wanted(t)' => Wanted(t)
  BY <1>1, <1>2, WantedStays
<1>6. ProbeStep
  BY <1>1, <1>4, <1>5, GoingOn
<1>7. \A t \in Slots : t = Slot /\ Wanted(t)' => Found(t)'
  BY <1>4, <1>5, <1>s DEF Wanted
<1>8. NextFunction => MultiFunction(bus) \/ ~(func + 1 \in Functions)
  BY <1>1, <1>3, OneWay
<1>9. NextDevice => \A t \in Slots : t[1] = bus /\ t[2] >= func /\ Wanted(t)' => Found(t)'
  <2>1. CASE NextFunction
    BY <1>7, <2>1, LastOfDevice
  <2>2. CASE bus \in failed'
    BY <2>2 DEF Wanted
  <2>3. CASE ~NextFunction /\ bus \notin failed'
    <3>1. func = 0 /\ machine[bus].functions = {0}
      <4>1. func = 0 /\ ~MultiFunction(bus)
        BY <2>3 DEF ProbeFunction
      <4> QED
        BY <4>1 DEF MultiFunction
    <3>2. ASSUME NEW t \in Slots, t[1] = bus, Wanted(t)' PROVE t = Slot
      <4>1. t \in Present
        BY <1>5, <3>2 DEF Wanted
      <4> QED
        BY <3>1, <3>2, <4>1 DEF Present, Slot, Slots
    <3> QED
      BY <1>7, <3>2
  <2> QED
    BY <2>1, <2>2, <2>3
<1>10. failed' \subseteq Devices
  BY <1>1, <1>3 DEF TypeOK
<1> QED
  BY <1>1, <1>4, <1>6, <1>7, <1>8, <1>9, <1>10, WalkScan

-----------------------------------------------------------------------------
(* ScanInv: the sort *)

(* A round loses no adapter and puts one more in order. *)
LEMMA SortScan == ScanInv /\ Sort => ScanInv'
<1> SUFFICES ASSUME ScanInv, Sort PROVE ScanInv'
  OBVIOUS
<1> USE DEF ScanInv
<1>1. /\ UNCHANGED <<machine, phase, handles, handleCount, offered, bridges, bus, last,
                     func, probed, overflow, connected, fallback, failed>>
      /\ phase = "sort" /\ sorted' = sorted + 1
  BY DEF Sort, pass, walk
<1>2. /\ Len(results) \in Nat /\ sorted \in Nat /\ Capacity \in Nat
      /\ Len(results) =< Capacity /\ sorted < Len(results) /\ 1 =< sorted
  BY NumbersAssumption DEF TypeOK, Sort
<1>m. PICK m \in 1 .. Len(results) : m = sorted + 1
  BY <1>2
<1>3. SortRound(m)
  BY <1>m DEF Sort
<1>4. /\ results' \in Seq(Slots) /\ Len(results') = Len(results)
  BY <1>3, RoundIs
<1>5. /\ ListInv'
      /\ \A t : AlreadyRecorded(t)' <=> AlreadyRecorded(t)
  BY <1>1, <1>3, RoundKeeps DEF ListInv
<1>6. Present' = Present
  BY <1>1 DEF Present
<1>7. TypeOK'
  <2>1. sorted' \in 1 .. Capacity + 1 /\ Len(results') =< Capacity
    BY <1>1, <1>2, <1>4
  <2> QED
    BY <1>1, <1>4, <1>6, <2>1 DEF TypeOK
<1>8. Passes' /\ Probes'
  BY <1>1 DEF Passes, Probes
<1>9. \A t : Wanted(t)' => Wanted(t)
  BY <1>1, WantedStays
<1>10. \A t : Found(t) => Found(t)'
  BY <1>1, <1>5 DEF Found
<1>11. Visited'
  BY <1>1, <1>9, <1>10, VisitedStays
<1>12. Covered'
  BY <1>1, <1>9, <1>10, CoveredStays, NumbersAssumption DEF TypeOK, Devices
<1>13. InOrder'
  <2>1. \A i, j \in 1 .. Len(results) : i < j /\ j =< sorted => Before(results[i], results[j])
    BY DEF InOrder
  <2>2. m - 1 = sorted
    BY <1>2, <1>m
  <2>3. OrderedTo(results, m - 1)
    BY <2>1, <2>2 DEF OrderedTo
  <2>4. OrderedTo(results', m)
    BY <1>3, <2>3, RoundOrders
  <2>5. OrderedTo(results', sorted')
    BY <1>1, <1>m, <2>4
  <2> QED
    BY <1>1, <2>5 DEF InOrder, OrderedTo
<1> QED
  BY <1>5, <1>7, <1>8, <1>11, <1>12, <1>13 DEF ListInv

(* The sort ends when all are in order. *)
LEMMA SortedScan == ScanInv /\ (Sorted \/ UNCHANGED vars) => ScanInv'
<1> SUFFICES ASSUME ScanInv, Sorted \/ UNCHANGED vars PROVE ScanInv'
  OBVIOUS
<1> USE DEF ScanInv
<1>1. /\ UNCHANGED <<machine, sorted, handles, handleCount, offered, bridges, bus, last,
                     func, probed, results, overflow, connected, fallback, failed>>
      /\ \/ phase' = phase
         \/ phase = "sort" /\ phase' = "done" /\ sorted >= Len(results)
  BY DEF Sorted, vars, pass, walk, list
<1>2. Present' = Present
  BY <1>1 DEF Present
<1>3. TypeOK'
  BY <1>1, <1>2 DEF TypeOK
<1>4. ListInv' /\ \A t : Found(t)' <=> Found(t)
  BY <1>1, ListStays DEF ListInv
<1>5. Passes' /\ Probes'
  BY <1>1 DEF Passes, Probes, MultiFunction
<1>6. \A t : Wanted(t)' => Wanted(t)
  BY <1>1, WantedStays
<1>7. Visited'
  BY <1>1, <1>4, <1>6, VisitedStays
<1>8. Covered'
  <2>1. \A t : Ahead(t) => Ahead(t)'
    BY <1>1 DEF Ahead
  <2> QED
    BY <1>1, <1>4, <1>6, <2>1 DEF Covered
<1>9. InOrder'
  BY <1>1 DEF InOrder
<1> QED
  BY <1>3, <1>4, <1>5, <1>7, <1>8, <1>9 DEF ListInv

(* No step breaks it. *)
LEMMA ScanStep == ScanInv /\ [Next]_vars => ScanInv'
<1> SUFFICES ASSUME ScanInv, [Next]_vars PROVE ScanInv'
  OBVIOUS
<1>1. CASE PciIoPass
  BY <1>1, LocateScan, PassOverHandleScan, VisitHandleScan DEF PciIoPass
<1>2. CASE ConnectAll \/ FallBack \/ AdaptersFound
  BY <1>2, ConnectAllScan, BetweenScan
<1>3. CASE RootBridgePass
  BY <1>3, BetweenScan, VisitBridgeScan, FailsScan, NobodyHomeScan, ProbeFunctionScan
  DEF RootBridgePass
<1>4. CASE Sort \/ Sorted \/ Done \/ UNCHANGED vars
  BY <1>4, SortScan, SortedScan DEF Done
<1> QED
  BY <1>1, <1>2, <1>3, <1>4 DEF Next, Scan

(* It holds in every state that is ever reached. *)
LEMMA ScanAlways == Spec => []ScanInv
<1> QED
  BY InitScan, ScanStep, PTL DEF Spec

-----------------------------------------------------------------------------
(* The theorems *)

(* Every scan keeps the types: no index past the list, no bus past the     *)
(* last one.                                                               *)
THEOREM ScanTypes == Spec => []TypeOK
<1>1. ScanInv => TypeOK
  BY DEF ScanInv
<1> QED
  BY <1>1, ScanAlways, PTL

(* No adapter is listed twice, however many bridges report the bus it is   *)
(* on, and however many function numbers it answers to.                    *)
THEOREM AdaptersAreListedOnce == Spec => []NoAdapterTwice
<1>1. ScanInv => NoAdapterTwice
  <2>1. ASSUME ScanInv, NEW i \in DOMAIN results, NEW j \in DOMAIN results,
               Registers(results[i]) = Registers(results[j])
        PROVE  i = j
    <3>1. Registers(results[i]) = results[i] /\ Registers(results[j]) = results[j]
      BY <2>1, PresentAnswers DEF ScanInv, Listed
    <3> QED
      BY <2>1, <3>1 DEF ScanInv, Distinct
  <2> QED
    BY <2>1 DEF NoAdapterTwice
<1> QED
  BY <1>1, ScanAlways, PTL

(* No pass loses an adapter it could have read, unless the list is full.   *)
THEOREM ReadableAdaptersAreListed == Spec => []NoReadableAdapterMissed
<1>1. ScanInv => NoReadableAdapterMissed
  <2> SUFFICES ASSUME ScanInv, phase = "done", NEW s \in Present,
                      IsDisplay(s), s[1] \notin failed,
                      s \in offered \/ (fallback /\ s[1] \in probed)
               PROVE  AlreadyRecorded(s) \/ (overflow /\ Len(results) = Capacity)
    BY DEF NoReadableAdapterMissed
  <2>1. Wanted(s) /\ handles = {} /\ ~Ahead(s) /\ s \in Slots
    BY DEF ScanInv, Wanted, Passes, Ahead, Present
  <2>2. Found(s)
    BY <2>1 DEF ScanInv, Visited, Covered
  <2> QED
    BY <2>2 DEF ScanInv, Found, Truncated
<1> QED
  BY <1>1, ScanAlways, PTL

(* The list the operator reads is in the order of the slots. *)
THEOREM TheListIsSorted == Spec => []ListIsSorted
<1>1. ScanInv => ListIsSorted
  <2> SUFFICES ASSUME ScanInv, phase = "done",
                      NEW i \in DOMAIN results, NEW j \in DOMAIN results, i < j
               PROVE  Before(results[i], results[j])
    BY DEF ListIsSorted
  <2>1. /\ DOMAIN results = 1 .. Len(results) /\ Len(results) \in Nat
        /\ sorted \in Nat /\ sorted >= Len(results)
    BY NumbersAssumption DEF ScanInv, TypeOK, InOrder
  <2>2. i \in 1 .. Len(results) /\ j \in 1 .. Len(results) /\ j =< sorted
    BY <2>1
  <2> QED
    BY <2>2 DEF ScanInv, InOrder
<1> QED
  BY <1>1, ScanAlways, PTL

(* A list that is reported as truncated is short of an adapter: a full     *)
(* list of n distinct adapters and one more are n + 1.                     *)
THEOREM TruncationIsReal == Spec => []TruncatedMeansMore
<1>1. ScanInv => TruncatedMeansMore
  <2> DEFINE Displays == {s \in Present : IsDisplay(s)}
             n == Len(results)
  <2> SUFFICES ASSUME ScanInv, overflow PROVE Cardinality(Displays) > Capacity
    BY DEF TruncatedMeansMore
  <2>1. PICK x \in Displays : ~AlreadyRecorded(x)
    BY DEF ScanInv, Truncated
  <2>2. n = Capacity /\ n \in Nat /\ DOMAIN results = 1 .. n
    BY DEF ScanInv, Truncated, TypeOK
  <2>3. IsFiniteSet(Displays)
    BY PresentIsFinite DEF Present
  <2> DEFINE f == [i \in 1 .. n + 1 |-> IF i = n + 1 THEN x ELSE results[i]]
  <2>4. \A i \in 1 .. n : results[i] \in Displays /\ results[i] # x
    BY <2>1, <2>2 DEF ScanInv, Listed, AlreadyRecorded
  <2>5. \A i, j \in 1 .. n : results[i] = results[j] => i = j
    BY <2>2 DEF ScanInv, Distinct
  <2> HIDE DEF Displays, n
  <2>6. f \in [1 .. n + 1 -> Displays]
    BY <2>1, <2>2, <2>4
  <2>7. \A i, j \in 1 .. n + 1 : f[i] = f[j] => i = j
    BY <2>1, <2>2, <2>4, <2>5
  <2> HIDE DEF f
  <2>8. f \in Injection(1 .. n + 1, Displays)
    BY <2>6, <2>7 DEF Injection, IsInjective
  <2>9. Cardinality(1 .. n + 1) =< Cardinality(Displays) /\ Cardinality(Displays) \in Nat
    BY <2>3, <2>8, FS_Injection, FS_CardinalityType
  <2>10. Cardinality(1 .. n + 1) = n + 1
    BY <2>2, FS_Interval
  <2> QED
    BY <2>2, <2>9, <2>10
<1> QED
  BY <1>1, ScanAlways, PTL

=============================================================================
