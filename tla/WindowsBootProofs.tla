------------------------- MODULE WindowsBootProofs --------------------------
(***************************************************************************)
(* Proofs about WindowsBoot: what the search accepts, in which order, and  *)
(* what becomes of the images loaded, for any number of volumes, handles   *)
(* and candidates, whatever is on the disks and whatever the firmware says *)
(* of our own file.                                                        *)
(***************************************************************************)
EXTENDS WindowsBoot, TLAPS

-----------------------------------------------------------------------------
(* The invariant *)

(* Every candidate on a volume would be refused, or is not there. *)
AllPassedOver(h) == \A i \in DOMAIN Candidates : PassedOver(h, Candidates[i])

Seeking == pc \in {"ourself", "exists"}

(* The candidate at hand. *)
Place ==
    Seeking \/ HasTarget =>
        /\ device \in HandleSet
        /\ index = 0 => bootPath # NoPath
        /\ device # ownDevice =>
              position \in DOMAIN Handles /\ Handles[position] = device

(* What was tried before it on its volume, on our own, and on the others.  *)
TriedHere ==
    Seeking \/ HasTarget =>
        \A i \in DOMAIN Candidates : i < index => PassedOver(device, Candidates[i])

TriedOwn ==
    \/ pc = "locate"
    \/ (Seeking \/ HasTarget) /\ device # ownDevice
    => (ownDevice # NoHandle => AllPassedOver(ownDevice))

TriedOthers ==
    Seeking /\ device # ownDevice =>
        \A j \in DOMAIN Handles : j < position => AllPassedOver(Handles[j])

(* What the guards let pass, and the target that became of it. *)
Accepted ==
    pc = "exists" \/ HasTarget =>
        /\ ~Identity(device, Path)
        /\ read => FileAt(device, Path) # "gpucheck"

Targeted == HasTarget => target = [device |-> device, path |-> Path]

(* The one image there may be, and when, besides those the firmware        *)
(* refused to unload: none before the first call of LoadImage is over, and *)
(* one at most before the second.                                          *)
OneImage ==
    /\ images = IF newImage THEN refusals + 1 ELSE refusals
    /\ refusals \in 0 .. 2
    /\ pc \in {"reload", "reloaded"} => refusals \in 0 .. 1
    /\ pc \notin {"reload", "reloaded", "windows", "idle"} => refusals = 0
    /\ newImage => pc \in {"loaded", "reloaded"} /\ status \in {"success", "violation"}
    /\ pc \in {"loaded", "reloaded"} /\ status = "success" => newImage

SearchInv ==
    /\ TypeOK
    /\ Place /\ TriedHere /\ TriedOwn /\ TriedOthers
    /\ Accepted /\ Targeted
    /\ OneImage

-----------------------------------------------------------------------------
(* The model's operators *)

(* The candidates are paths, and there is one. *)
LEMMA CandidateTypes ==
    /\ Len(Candidates) \in Nat /\ Len(Candidates) >= 1
    /\ DOMAIN Candidates = 1 .. Len(Candidates)
    /\ \A i \in DOMAIN Candidates : Candidates[i] \in Paths
  BY CandidatesAssumption

(* Handles are handles. *)
LEMMA HandleTypes ==
    /\ DOMAIN Handles \subseteq Nat
    /\ \A j \in DOMAIN Handles : Handles[j] \in HandleSet /\ Handles[j] # NoHandle
    /\ \A h \in HandleSet : \E j \in DOMAIN Handles : Handles[j] = h
  BY HandlesAssumption DEF HandleSet

(* As long as the machine and the files stay, so does every verdict. *)
LEMMA VerdictStays ==
  ASSUME UNCHANGED <<machine, files>>
  PROVE  /\ \A h, p : PassedOver(h, p)' = PassedOver(h, p)
         /\ \A h, p : FileAt(h, p)' = FileAt(h, p)
         /\ \A h, p : Identity(h, p)' = Identity(h, p)
         /\ \A h : AllPassedOver(h)' = AllPassedOver(h)
  BY DEF machine, PassedOver, FileAt, Identity, AllPassedOver

(* The path at hand is a path. *)
LEMMA PathTypes ==
  ASSUME TypeOK, index = 0 => bootPath # NoPath
  PROVE  /\ Path \in Paths
         /\ index # 0 => index \in DOMAIN Candidates /\ Path = Candidates[index]
  <1>1. index \in 0 .. Len(Candidates) /\ bootPath \in Paths \union {NoPath}
    BY DisksAssumption DEF TypeOK
  <1> QED
    BY <1>1, CandidateTypes DEF Path

(* TryDevice begins with a path that there is. *)
LEMMA TryDeviceBegins ==
  ASSUME NEW h \in HandleSet, TryDevice(h), TypeOK, UNCHANGED machine
  PROVE  /\ device' = h /\ pc' = "ourself"
         /\ index' \in 0 .. Len(Candidates)
         /\ index' = 0 => bootPath' # NoPath
         /\ \A i \in DOMAIN Candidates : ~(i < index')
  BY CandidateTypes DEF TryDevice, machine

-----------------------------------------------------------------------------
(* Moving on *)

(* What is refused or absent makes the candidates up to it passed over.    *)
LEMMA OneMorePassedOver ==
  ASSUME SearchInv, Seeking, index # 0 => PassedOver(device, Path)
  PROVE  /\ \A i \in DOMAIN Candidates : i < index + 1 => PassedOver(device, Candidates[i])
         /\ ~(index < LastCandidate) => AllPassedOver(device)
  <1>1. index \in 0 .. Len(Candidates) /\ (index = 0 => bootPath # NoPath)
    BY DEF SearchInv, TypeOK, Place
  <1>2. \A i \in DOMAIN Candidates : i < index => PassedOver(device, Candidates[i])
    BY DEF SearchInv, TriedHere
  <1>3. index # 0 => Path = Candidates[index]
    BY DEF Path
  <1>4. ASSUME NEW i \in DOMAIN Candidates, i < index + 1
        PROVE  PassedOver(device, Candidates[i])
    <2>1. i < index \/ (i = index /\ index # 0)
      BY <1>1, <1>4, CandidateTypes
    <2> QED
      BY <2>1, <1>2, <1>3
  <1>5. ~(index < LastCandidate) => index = Len(Candidates)
    <2>1. index \in 0 .. Len(Candidates) /\ Len(Candidates) \in Nat
      BY <1>1, CandidateTypes
    <2> QED
      BY <2>1 DEF LastCandidate
  <1>6. ASSUME ~(index < LastCandidate), NEW i \in DOMAIN Candidates
        PROVE  i < index + 1
    BY <1>5, <1>6, CandidateTypes
  <1> QED
    BY <1>4, <1>6 DEF AllPassedOver

(* The next volume of the loop is a place in Handles with nothing but our  *)
(* own volume between it and the last one.                                 *)
LEMMA NextVolumeBegins ==
  ASSUME NEW n \in {0} \union DOMAIN Handles, NextVolume(n), TypeOK, UNCHANGED machine
  PROVE  /\ TryDevice(Handles[position'])
         /\ position' \in DOMAIN Handles
         /\ Handles[position'] # ownDevice
         /\ \A j \in DOMAIN Handles : j < position' => j < n \/ j = n \/ Handles[j] = ownDevice
  <1>1. PICK j \in OtherVolumes(n) :
           /\ \A k \in OtherVolumes(n) : j =< k
           /\ TryDevice(Handles[j])
           /\ position' = j
    BY DEF NextVolume
  <1>2. n \in Nat /\ j \in Nat /\ j \in DOMAIN Handles
    BY HandleTypes DEF OtherVolumes
  <1>3. ASSUME NEW k \in DOMAIN Handles, k < j, ~(k < n), k # n
        PROVE  Handles[k] = ownDevice
    <2>1. k \in Nat
      BY HandleTypes
    <2>2. k > n /\ ~(j =< k)
      BY <1>2, <1>3, <2>1
    <2> QED
      BY <1>1, <2>2 DEF OtherVolumes
  <1> QED
    BY <1>1, <1>2, <1>3 DEF OtherVolumes

(* The search goes on to another volume. *)
LEMMA NextVolumeStep ==
  ASSUME SearchInv, NEW n \in {0} \union DOMAIN Handles, NextVolume(n),
         Seeking \/ pc = "locate",
         UNCHANGED <<machine, files, load, target>>, read' \in BOOLEAN,
         ownDevice # NoHandle => AllPassedOver(ownDevice),
         \A j \in DOMAIN Handles : j < n \/ j = n => AllPassedOver(Handles[j])
  PROVE  SearchInv'
  <1> DEFINE h == Handles[position']
  <1>1. TypeOK /\ OneImage
    BY DEF SearchInv
  <1>2. /\ TryDevice(h) /\ h \in HandleSet /\ h # ownDevice
        /\ position' \in DOMAIN Handles
        /\ \A j \in DOMAIN Handles : j < position' => j < n \/ j = n \/ Handles[j] = ownDevice
    BY <1>1, NextVolumeBegins, HandleTypes DEF machine
  <1>3. /\ device' = h /\ pc' = "ourself" /\ index' \in 0 .. Len(Candidates)
        /\ index' = 0 => bootPath' # NoPath
        /\ \A i \in DOMAIN Candidates : ~(i < index')
    BY <1>1, <1>2, TryDeviceBegins DEF machine
  <1>4. UNCHANGED <<ownDevice, bootPath>>
    BY DEF machine
  <1>5. TypeOK'
    BY <1>1, <1>2, <1>3 DEF TypeOK, machine, load
  <1>6. Place' /\ TriedHere'
    BY <1>2, <1>3, <1>4 DEF Place, TriedHere, Seeking, HasTarget
  <1>7. TriedOwn'
    BY <1>4, VerdictStays DEF TriedOwn
  <1>8. TriedOthers'
    <2>1. ASSUME NEW j \in DOMAIN Handles, j < position'
          PROVE  AllPassedOver(Handles[j])
      BY <1>2, <2>1, HandleTypes
    <2> QED
      BY <2>1, VerdictStays DEF TriedOthers
  <1>9. Accepted' /\ Targeted'
    BY <1>3 DEF Accepted, Targeted, HasTarget
  <1>10. OneImage'
    <2>1. pc \in {"ourself", "exists", "locate"}
      BY DEF Seeking
    <2> QED
      BY <1>1, <1>3, <2>1 DEF OneImage, load
  <1> QED
    BY <1>5, <1>6, <1>7, <1>8, <1>9, <1>10 DEF SearchInv

(* The search goes on after a candidate, and ends only when every volume   *)
(* has been tried.                                                         *)
LEMMA NextCandidateStep ==
  ASSUME SearchInv, Seeking, index # 0 => PassedOver(device, Path),
         NextCandidate,
         UNCHANGED <<machine, files, load, target>>, read' \in BOOLEAN
  PROVE  SearchInv' /\ (pc' = "idle" => NothingAcceptable)
  <1>1. /\ TypeOK /\ Place /\ TriedHere /\ TriedOwn /\ TriedOthers /\ OneImage
        /\ device \in HandleSet /\ pc \in {"ourself", "exists"}
    BY DEF SearchInv, Seeking, Place
  <1>2. /\ \A i \in DOMAIN Candidates : i < index + 1 => PassedOver(device, Candidates[i])
        /\ ~(index < LastCandidate) => AllPassedOver(device)
    BY OneMorePassedOver
  <1>3. UNCHANGED <<ownDevice, bootPath>>
    BY DEF machine
  <1>4. device # ownDevice =>
           /\ position \in DOMAIN Handles /\ Handles[position] = device
           /\ ownDevice # NoHandle => AllPassedOver(ownDevice)
           /\ \A j \in DOMAIN Handles : j < position => AllPassedOver(Handles[j])
    BY <1>1 DEF Place, TriedOwn, TriedOthers
  <1>5. CASE index < LastCandidate
    <2>1. index' = index + 1 /\ pc' = "ourself" /\ UNCHANGED <<device, position>>
      BY <1>5 DEF NextCandidate
    <2>2. index \in 0 .. Len(Candidates)
      BY <1>1 DEF TypeOK
    <2>3. index' \in 0 .. Len(Candidates) /\ index' # 0
      BY <1>5, <2>1, <2>2, CandidateTypes DEF LastCandidate
    <2>4. TypeOK'
      BY <1>1, <2>1, <2>3 DEF TypeOK, machine, load
    <2>5. Place'
      BY <1>1, <1>3, <1>4, <2>1, <2>3 DEF Place
    <2>6. TriedHere'
      BY <1>2, <2>1, VerdictStays DEF TriedHere
    <2>7. TriedOwn' /\ TriedOthers'
      BY <1>3, <1>4, <2>1, VerdictStays DEF TriedOwn, TriedOthers
    <2>8. Accepted' /\ Targeted'
      BY <2>1 DEF Accepted, Targeted, HasTarget
    <2>9. OneImage'
      BY <1>1, <2>1 DEF OneImage, load
    <2> QED
      BY <2>1, <2>4, <2>5, <2>6, <2>7, <2>8, <2>9 DEF SearchInv
  <1>6. CASE ~(index < LastCandidate) /\ device = ownDevice
    <2>1. pc' = "locate" /\ UNCHANGED <<device, position, index>>
      BY <1>6 DEF NextCandidate
    <2>2. TypeOK'
      BY <1>1, <2>1 DEF TypeOK, machine, load
    <2>3. Place' /\ TriedHere' /\ TriedOthers' /\ Accepted' /\ Targeted'
      BY <2>1 DEF Place, TriedHere, TriedOthers, Accepted, Targeted, Seeking, HasTarget
    <2>4. TriedOwn'
      BY <1>2, <1>3, <1>6, <2>1, VerdictStays DEF TriedOwn
    <2>5. OneImage'
      BY <1>1, <2>1 DEF OneImage, load
    <2> QED
      BY <2>1, <2>2, <2>3, <2>4, <2>5 DEF SearchInv
  <1>7. CASE ~(index < LastCandidate) /\ device # ownDevice
    <2>1. position \in {0} \union DOMAIN Handles
      BY <1>4, <1>7
    <2>2. \A j \in DOMAIN Handles : j < position \/ j = position => AllPassedOver(Handles[j])
      BY <1>2, <1>4, <1>7
    <2>3. CASE OtherVolumes(position) # {}
      <3>1. NextVolume(position)
        BY <1>7, <2>3 DEF NextCandidate
      <3>2. SearchInv'
        BY <1>4, <1>7, <2>1, <2>2, <3>1, NextVolumeStep
      <3>3. pc' = "ourself"
        BY <3>1 DEF NextVolume, TryDevice
      <3> QED
        BY <3>2, <3>3
    <2>4. CASE OtherVolumes(position) = {}
      <3>1. pc' = "idle" /\ UNCHANGED <<device, position, index>>
        BY <1>7, <2>4 DEF NextCandidate
      <3>2. TypeOK'
        BY <1>1, <3>1 DEF TypeOK, machine, load
      <3>3. Place' /\ TriedHere' /\ TriedOwn' /\ TriedOthers' /\ Accepted' /\ Targeted'
        BY <3>1 DEF Place, TriedHere, TriedOwn, TriedOthers, Accepted, Targeted, Seeking,
                    HasTarget
      <3>4. OneImage'
        BY <1>1, <3>1 DEF OneImage, load
      <3>5. ASSUME NEW j \in DOMAIN Handles
            PROVE  AllPassedOver(Handles[j])
        <4>1. CASE j < position \/ j = position
          BY <2>2, <4>1
        <4>2. CASE ~(j < position) /\ j # position
          <5>1. j > position
            BY <1>4, <1>7, <4>2, HandleTypes
          <5>2. Handles[j] = ownDevice
            BY <2>4, <5>1 DEF OtherVolumes
          <5> QED
            BY <1>4, <1>7, <5>2, HandleTypes
        <4> QED
          BY <4>1, <4>2
      <3>6. NothingAcceptable
        BY <3>5, HandleTypes DEF NothingAcceptable, AllPassedOver
      <3> QED
        BY <3>2, <3>3, <3>4, <3>6 DEF SearchInv
    <2> QED
      BY <2>3, <2>4
  <1> QED
    BY <1>5, <1>6, <1>7

-----------------------------------------------------------------------------
(* The steps *)

(* No search yet. *)
LEMMA SearchStarts == Init => SearchInv
  <1> SUFFICES ASSUME Init PROVE SearchInv
    OBVIOUS
  <1>1. running \in [volume : Volumes, path : Paths] /\ files \in [Volumes -> [Paths -> Contents]]
    BY DisksAssumption DEF Init
  <1>2. TypeOK
    <2>1. index \in 0 .. Len(Candidates) /\ images \in 0 .. 2 /\ position = 0
         /\ refusals \in 0 .. 2
      BY CandidateTypes DEF Init
    <2>2. /\ target \in {NoTarget} /\ read \in BOOLEAN /\ newImage \in BOOLEAN
          /\ status = "none" /\ pc = "idle" /\ device = NoHandle
      BY DEF Init
    <2>3. /\ volumeOf \in [HandleSet -> Volumes \union {NoVolume}]
          /\ ownDevice \in HandleSet \union {NoHandle}
          /\ ownPath \in Paths \union {NoPath}
          /\ bootPath \in BootPaths
      BY DEF Init
    <2> QED
      BY <1>1, <2>1, <2>2, <2>3 DEF TypeOK
  <1>3. Place /\ TriedHere /\ TriedOwn /\ TriedOthers /\ Accepted /\ Targeted /\ OneImage
    BY DEF Init, Place, TriedHere, TriedOwn, TriedOthers, Accepted, Targeted, OneImage,
           Seeking, HasTarget
  <1> QED
    BY <1>2, <1>3 DEF SearchInv

(* The search begins on our own volume, if that is known. *)
LEMMA FindLoaderKeeps == SearchInv /\ FindLoader => SearchInv'
  <1> SUFFICES ASSUME SearchInv, FindLoader PROVE SearchInv'
    OBVIOUS
  <1>1. /\ TypeOK /\ OneImage /\ pc = "idle"
        /\ UNCHANGED <<machine, files, status, newImage, read>>
        /\ UNCHANGED <<ownDevice, bootPath>>
        /\ target' = NoTarget /\ position' = 0 /\ images' = 0 /\ refusals' = 0
    BY DEF SearchInv, FindLoader, machine
  <1>2. ownDevice \in HandleSet \union {NoHandle}
    BY <1>1 DEF TypeOK
  <1>3. OneImage' /\ Accepted' /\ Targeted'
    BY <1>1 DEF FindLoader, TryDevice, OneImage, Accepted, Targeted, HasTarget
  <1>4. CASE ownDevice = NoHandle
    <2>1. pc' = "locate" /\ UNCHANGED <<device, index>>
      BY <1>4 DEF FindLoader
    <2>2. TypeOK'
      BY <1>1, <2>1 DEF TypeOK, machine
    <2>3. Place' /\ TriedHere' /\ TriedOwn' /\ TriedOthers'
      BY <1>1, <1>4, <2>1 DEF Place, TriedHere, TriedOwn, TriedOthers, Seeking, HasTarget
    <2> QED
      BY <1>3, <2>2, <2>3 DEF SearchInv
  <1>5. CASE ownDevice # NoHandle
    <2>1. TryDevice(ownDevice)
      BY <1>5 DEF FindLoader
    <2>2. /\ device' = ownDevice /\ pc' = "ourself" /\ index' \in 0 .. Len(Candidates)
          /\ index' = 0 => bootPath' # NoPath
          /\ \A i \in DOMAIN Candidates : ~(i < index')
      BY <1>1, <1>2, <1>5, <2>1, TryDeviceBegins
    <2>3. TypeOK'
      BY <1>1, <1>2, <2>2 DEF TypeOK, machine
    <2>4. Place' /\ TriedHere' /\ TriedOwn' /\ TriedOthers'
      BY <1>1, <1>2, <1>5, <2>2 DEF Place, TriedHere, TriedOwn, TriedOthers, Seeking, HasTarget
    <2> QED
      BY <1>3, <2>3, <2>4 DEF SearchInv
  <1> QED
    BY <1>4, <1>5

(* It goes on to the others, or finds that there are none. *)
LEMMA LocateVolumesKeeps == SearchInv /\ LocateVolumes => SearchInv'
  <1> SUFFICES ASSUME SearchInv, LocateVolumes PROVE SearchInv'
    OBVIOUS
  <1>1. /\ TypeOK /\ TriedOwn /\ OneImage /\ pc = "locate" /\ read \in BOOLEAN
        /\ UNCHANGED <<machine, files, load, target, read>>
    BY DEF SearchInv, LocateVolumes, TypeOK
  <1>2. CASE NextVolume(0)
    <2>1. ownDevice # NoHandle => AllPassedOver(ownDevice)
      BY <1>1 DEF TriedOwn
    <2>2. \A j \in DOMAIN Handles : ~(j < 0 \/ j = 0)
      BY HandlesAssumption
    <2> QED
      BY <1>1, <1>2, <2>1, <2>2, NextVolumeStep
  <1>3. CASE pc' = "idle" /\ UNCHANGED <<device, position, index>>
    <2>1. TypeOK'
      BY <1>1, <1>3 DEF TypeOK, machine, load
    <2>2. Place' /\ TriedHere' /\ TriedOwn' /\ TriedOthers' /\ Accepted' /\ Targeted' /\ OneImage'
      BY <1>1, <1>3 DEF Place, TriedHere, TriedOwn, TriedOthers, Accepted, Targeted, OneImage,
                        load, Seeking, HasTarget
    <2> QED
      BY <2>1, <2>2 DEF SearchInv
  <1> QED
    BY <1>2, <1>3 DEF LocateVolumes

(* The guards refuse a candidate or let it pass. *)
LEMMA IsOurselfKeeps ==
    SearchInv /\ IsOurself => SearchInv' /\ (pc' = "idle" => NothingAcceptable)
  <1> SUFFICES ASSUME SearchInv, IsOurself
               PROVE  SearchInv' /\ (pc' = "idle" => NothingAcceptable)
    OBVIOUS
  <1>1. /\ TypeOK /\ Place /\ TriedHere /\ TriedOwn /\ TriedOthers /\ OneImage
        /\ pc = "ourself" /\ Seeking /\ read' \in BOOLEAN
        /\ UNCHANGED <<machine, files, load, target>>
    BY DEF SearchInv, IsOurself, Seeking
  <1>2. CASE (read' /\ Marked(device, Path)) \/ Identity(device, Path)
    <2>1. NextCandidate
      BY <1>2 DEF IsOurself
    <2>2. PassedOver(device, Path)
      BY <1>2 DEF PassedOver, Marked
    <2> QED
      BY <1>1, <2>1, <2>2, NextCandidateStep
  <1>3. CASE ~((read' /\ Marked(device, Path)) \/ Identity(device, Path))
    <2>1. pc' = "exists" /\ UNCHANGED <<device, position, index>>
      BY <1>3 DEF IsOurself
    <2>2. TypeOK'
      BY <1>1, <2>1 DEF TypeOK, machine, load
    <2>3. UNCHANGED <<ownDevice, bootPath>> /\ Path' = Path
      BY <1>1, <2>1 DEF machine, Path
    <2>4. Place' /\ TriedHere' /\ TriedOwn' /\ TriedOthers'
      BY <1>1, <2>1, <2>3, VerdictStays DEF Place, TriedHere, TriedOwn, TriedOthers, Seeking
    <2>5. Accepted'
      BY <1>1, <1>3, <2>1, <2>3, VerdictStays DEF Accepted, Marked
    <2>6. Targeted' /\ OneImage'
      BY <1>1, <2>1 DEF Targeted, OneImage, load, HasTarget
    <2> QED
      BY <2>1, <2>2, <2>4, <2>5, <2>6 DEF SearchInv
  <1> QED
    BY <1>2, <1>3

(* What the guards let pass is the target if it is there. *)
LEMMA FileExistsKeeps ==
    SearchInv /\ FileExists => SearchInv' /\ (pc' = "idle" => NothingAcceptable)
  <1> SUFFICES ASSUME SearchInv, FileExists
               PROVE  SearchInv' /\ (pc' = "idle" => NothingAcceptable)
    OBVIOUS
  <1>1. /\ TypeOK /\ Place /\ TriedHere /\ TriedOwn /\ TriedOthers /\ Accepted /\ OneImage
        /\ pc = "exists" /\ Seeking /\ read' \in BOOLEAN
        /\ UNCHANGED <<machine, files, load, read>>
    BY DEF SearchInv, FileExists, Seeking, TypeOK
  <1>2. CASE FileAt(device, Path) = "absent"
    <2>1. NextCandidate /\ UNCHANGED target
      BY <1>2 DEF FileExists
    <2>2. PassedOver(device, Path)
      BY <1>2 DEF PassedOver
    <2> QED
      BY <1>1, <2>1, <2>2, NextCandidateStep
  <1>3. CASE FileAt(device, Path) # "absent"
    <2>1. /\ target' = [device |-> device, path |-> Path]
          /\ pc' = "found" /\ UNCHANGED <<device, position, index>>
      BY <1>3 DEF FileExists
    <2>2. device \in HandleSet /\ Path \in Paths
      BY <1>1, PathTypes DEF Place
    <2>3. TypeOK'
      BY <1>1, <2>1, <2>2 DEF TypeOK, machine, load
    <2>4. UNCHANGED <<ownDevice, bootPath>> /\ Path' = Path
      BY <1>1, <2>1 DEF machine, Path
    <2>5. Place' /\ TriedHere' /\ TriedOwn' /\ TriedOthers'
      BY <1>1, <2>1, <2>4, VerdictStays DEF Place, TriedHere, TriedOwn, TriedOthers, Seeking
    <2>6. Accepted'
      BY <1>1, <2>1, <2>4, VerdictStays DEF Accepted
    <2>7. Targeted' /\ OneImage'
      BY <1>1, <2>1, <2>4 DEF Targeted, OneImage, load
    <2> QED
      BY <2>1, <2>3, <2>5, <2>6, <2>7 DEF SearchInv
  <1> QED
    BY <1>2, <1>3

(* A disk that is pulled leaves nothing to be accepted on it. *)
LEMMA UnplugKeeps == SearchInv /\ Unplug => SearchInv'
  <1> SUFFICES ASSUME SearchInv, Unplug PROVE SearchInv'
    OBVIOUS
  <1>1. /\ TypeOK /\ Place /\ TriedHere /\ TriedOwn /\ Accepted /\ Targeted /\ OneImage
        /\ pc = "found" /\ UNCHANGED <<machine, pc, search, load>>
    BY DEF SearchInv, Unplug
  <1>2. PICK v \in Volumes : files' = [files EXCEPT ![v] = [p \in Paths |-> "absent"]]
    BY DEF Unplug
  <1>3. UNCHANGED <<volumeOf, ownDevice, ownPath, bootPath, device, position, index, target,
                    read>> /\ Path' = Path
    BY <1>1 DEF machine, search, Path
  <1>4. TypeOK'
    BY <1>1, <1>2 DEF TypeOK, machine, search, load, Contents
  <1>5. ASSUME NEW h \in HandleSet, NEW p \in Paths
        PROVE  FileAt(h, p)' \in {FileAt(h, p), "absent"}
    BY <1>1, <1>2, <1>3 DEF TypeOK, FileAt
  <1>6. \A h, p : Identity(h, p)' = Identity(h, p)
    BY <1>3 DEF Identity
  <1>7. \A h \in HandleSet, p \in Paths : PassedOver(h, p) => PassedOver(h, p)'
    BY <1>5, <1>6 DEF PassedOver
  <1>8. device \in HandleSet /\ Path \in Paths
    BY <1>1, PathTypes DEF Place, HasTarget
  <1>9. Place'
    BY <1>1, <1>3 DEF Place, Seeking, HasTarget
  <1>10. TriedHere'
    BY <1>1, <1>3, <1>7, <1>8, CandidateTypes DEF TriedHere, Seeking, HasTarget
  <1>11. TriedOwn'
    <2>1. ownDevice \in HandleSet \union {NoHandle}
      BY <1>1 DEF TypeOK
    <2>2. ownDevice # NoHandle /\ AllPassedOver(ownDevice) => AllPassedOver(ownDevice)'
      BY <1>3, <1>7, <2>1, CandidateTypes DEF AllPassedOver
    <2> QED
      BY <1>1, <1>3, <2>2 DEF TriedOwn, Seeking, HasTarget
  <1>12. TriedOthers'
    BY <1>1 DEF TriedOthers, Seeking
  <1>13. Accepted'
    BY <1>1, <1>3, <1>5, <1>6, <1>8 DEF Accepted, HasTarget
  <1>14. Targeted' /\ OneImage'
    BY <1>1, <1>3 DEF Targeted, OneImage, load, HasTarget
  <1> QED
    BY <1>4, <1>9, <1>10, <1>11, <1>12, <1>13, <1>14 DEF SearchInv

(* From the target on, only the image changes. *)
LEMMA TargetStays ==
  ASSUME SearchInv, HasTarget, HasTarget' \/ pc' = "idle",
         pc' \in {"idle", "load", "loaded", "reload", "reloaded", "windows"},
         UNCHANGED <<machine, files, search>>,
         status' \in {"none", "success", "denied", "violation", "error"},
         newImage' \in BOOLEAN, OneImage'
  PROVE  SearchInv'
  <1>1. /\ TypeOK /\ Place /\ TriedHere /\ TriedOwn /\ Accepted /\ Targeted
        /\ UNCHANGED <<ownDevice, bootPath, device, position, index, target, read>>
    BY DEF SearchInv, machine, search
  <1>2. Path' = Path
    BY <1>1 DEF Path
  <1>3. images' \in 0 .. 2 /\ refusals' \in 0 .. 2
    <2>1. /\ images' = IF newImage' THEN refusals' + 1 ELSE refusals'
          /\ refusals' \in 0 .. 2
          /\ pc' \in {"reload", "reloaded"} => refusals' \in 0 .. 1
          /\ pc' \notin {"reload", "reloaded", "windows", "idle"} => refusals' = 0
          /\ newImage' => pc' \in {"loaded", "reloaded"}
      BY DEF OneImage
    <2>2. CASE newImage'
      <3>1. pc' = "loaded" \/ pc' = "reloaded"
        BY <2>1, <2>2
      <3>2. refusals' \in 0 .. 1
        BY <2>1, <3>1
      <3>3. images' = refusals' + 1
        BY <2>1, <2>2
      <3>4. \A r \in 0 .. 1 : r \in 0 .. 2 /\ r + 1 \in 0 .. 2
        OBVIOUS
      <3> QED
        BY ONLY <3>2, <3>3, <3>4
    <2>3. CASE ~newImage'
      BY <2>1, <2>3
    <2> QED
      BY <2>2, <2>3
  <1>4. TypeOK'
    BY <1>1, <1>3 DEF TypeOK, machine, search
  <1>5. Place' /\ TriedHere' /\ TriedOwn'
    BY <1>1, VerdictStays DEF Place, TriedHere, TriedOwn, Seeking
  <1>6. TriedOthers'
    BY DEF TriedOthers, Seeking
  <1>7. Accepted' /\ Targeted'
    BY <1>1, <1>2, VerdictStays DEF Accepted, Targeted, HasTarget
  <1> QED
    BY <1>4, <1>5, <1>6, <1>7 DEF SearchInv

(* LoadImage, called with no image at hand, leaves the one it announces.   *)
LEMMA LoadImageLeavesOne ==
  ASSUME OneImage, LoadImage,
         \/ pc = "load" /\ pc' = "loaded"
         \/ pc = "reload" /\ pc' = "reloaded"
  PROVE  /\ OneImage' /\ newImage' \in BOOLEAN
         /\ status' \in {"none", "success", "denied", "violation", "error"}
  <1>1. newImage = FALSE /\ images = refusals
    BY DEF OneImage
  <1>2. /\ newImage' \in BOOLEAN
        /\ status' \in {"success", "violation", "denied", "error"}
        /\ newImage' => status' \in {"success", "violation"}
        /\ status' = "success" => newImage'
        /\ images' = IF newImage' THEN images + 1 ELSE images
        /\ refusals' = refusals
    <2> DEFINE loadable == FileAt(target.device, target.path) \in {"windows", "gpucheck"}
    <2>1. loadable \in BOOLEAN
      OBVIOUS
    <2>2. /\ \/ status' = "success" /\ newImage' = TRUE
             \/ status' = "violation" /\ newImage' \in {loadable, FALSE}
             \/ status' \in {"denied", "error"} /\ newImage' = FALSE
          /\ images' = IF newImage' THEN images + 1 ELSE images
          /\ refusals' = refusals
      BY DEF LoadImage
    <2> HIDE DEF loadable
    <2> QED
      BY <2>1, <2>2
  <1>3. images' = IF newImage' THEN refusals' + 1 ELSE refusals'
    BY <1>1, <1>2
  <1>4. /\ refusals' \in 0 .. 2
        /\ pc' = "loaded" => refusals' = 0
        /\ pc' = "reloaded" => refusals' \in 0 .. 1
    BY <1>2 DEF OneImage
  <1> QED
    BY <1>2, <1>3, <1>4 DEF OneImage

(* Cleaning up after a failed LoadImage leaves none but what the firmware  *)
(* refuses to unload.                                                      *)
LEMMA UnloadLeavesNone ==
  ASSUME OneImage, TypeOK, status # "success", UnloadViolation,
         \/ pc = "loaded" /\ pc' \in {"reload", "idle"}
         \/ pc = "reloaded" /\ pc' = "idle"
  PROVE  /\ OneImage' /\ newImage' \in BOOLEAN
         /\ status' \in {"none", "success", "denied", "violation", "error"}
  <1>1. /\ newImage \in BOOLEAN /\ (newImage => status = "violation")
        /\ images = IF newImage THEN refusals + 1 ELSE refusals
        /\ IF pc = "loaded" THEN refusals = 0 ELSE refusals \in 0 .. 1
    BY DEF OneImage, TypeOK
  <1>2. newImage' = FALSE /\ status' = status
    BY DEF UnloadViolation
  <1>3. images' = refusals' /\ refusals' \in {refusals, refusals + 1}
    <2>1. CASE newImage
      BY <1>1, <2>1 DEF UnloadViolation
    <2>2. CASE ~newImage
      BY <1>1, <2>2 DEF UnloadViolation
    <2> QED
      BY <1>1, <2>1, <2>2
  <1>4. refusals' \in 0 .. 2 /\ (pc = "loaded" => refusals' \in 0 .. 1)
    BY <1>1, <1>3
  <1>5. status' \in {"none", "success", "denied", "violation", "error"}
    BY <1>2 DEF TypeOK
  <1> QED
    BY <1>2, <1>3, <1>4, <1>5 DEF OneImage

(* Every step of the chainload keeps the target, and knows its image. *)
LEMMA ChainloadKeeps ==
  ASSUME SearchInv,
         \/ SearchAgain \/ Chainload \/ LoadFirst \/ Refused \/ LoadSecond
         \/ LoadFails \/ StartImage \/ LoaderReturns
  PROVE  SearchInv'
  <1>1. TypeOK /\ OneImage
    BY DEF SearchInv
  <1>2. /\ status \in {"none", "success", "denied", "violation", "error"}
        /\ newImage \in BOOLEAN
    BY <1>1 DEF TypeOK
  <1>3. CASE SearchAgain \/ Chainload \/ LoaderReturns
    <2>1. /\ HasTarget /\ pc' \in {"idle", "load"} /\ UNCHANGED <<machine, files, search>>
          /\ UNCHANGED <<status, newImage, images, refusals>>
          /\ \/ pc = "found" /\ pc' \in {"load", "idle"}
             \/ pc = "windows" /\ pc' = "idle"
      BY <1>3 DEF SearchAgain, Chainload, LoaderReturns, HasTarget, load
    <2>2. OneImage'
      BY <1>1, <2>1 DEF OneImage
    <2> QED
      BY <1>2, <2>1, <2>2, TargetStays DEF HasTarget
  <1>4. CASE LoadFirst \/ LoadSecond
    <2>1. /\ HasTarget /\ pc' \in {"loaded", "reloaded"} /\ UNCHANGED <<machine, files, search>>
          /\ LoadImage
          /\ \/ pc = "load" /\ pc' = "loaded"
             \/ pc = "reload" /\ pc' = "reloaded"
      BY <1>4 DEF LoadFirst, LoadSecond, HasTarget
    <2> QED
      BY <1>1, <2>1, LoadImageLeavesOne, TargetStays DEF HasTarget
  <1>5. CASE Refused \/ LoadFails
    <2>1. /\ HasTarget /\ pc' \in {"idle", "reload"} /\ UNCHANGED <<machine, files, search>>
          /\ UnloadViolation /\ status # "success"
          /\ \/ pc = "loaded" /\ pc' \in {"reload", "idle"}
             \/ pc = "reloaded" /\ pc' = "idle"
      BY <1>5 DEF Refused, LoadFails, HasTarget
    <2> QED
      BY <1>1, <2>1, UnloadLeavesNone, TargetStays DEF HasTarget
  <1>6. CASE StartImage
    <2>1. /\ HasTarget /\ pc' = "windows" /\ UNCHANGED <<machine, files, search>>
          /\ newImage' = FALSE /\ UNCHANGED <<status, refusals>> /\ images' = images - 1
          /\ pc \in {"loaded", "reloaded"} /\ status = "success"
      BY <1>6 DEF StartImage, HasTarget
    <2>2. images = refusals + 1 /\ refusals \in 0 .. 2
      BY <1>1, <2>1 DEF OneImage
    <2>3. OneImage'
      BY <2>1, <2>2 DEF OneImage
    <2> QED
      BY <1>2, <2>1, <2>3, TargetStays DEF HasTarget
  <1> QED
    BY <1>3, <1>4, <1>5, <1>6

(* Every step keeps the invariant. *)
LEMMA SearchStep == SearchInv /\ [Next]_vars => SearchInv'
  <1> SUFFICES ASSUME SearchInv, [Next]_vars PROVE SearchInv'
    OBVIOUS
  <1>1. CASE UNCHANGED vars
    <2>1. UNCHANGED <<machine, files, search, load, pc>>
      BY <1>1 DEF vars
    <2> QED
      BY <2>1 DEF SearchInv, TypeOK, Place, TriedHere, TriedOwn, TriedOthers, Accepted, Targeted,
                  OneImage, Seeking, HasTarget, AllPassedOver, PassedOver, Identity, FileAt, Path,
                  machine, search, load
  <1> QED
    BY <1>1, FindLoaderKeeps, LocateVolumesKeeps, IsOurselfKeeps, FileExistsKeeps, UnplugKeeps,
       ChainloadKeeps DEF Next

(* The invariant holds for ever. *)
LEMMA SearchSafe == Spec => []SearchInv
  BY SearchStarts, SearchStep, PTL DEF Spec

-----------------------------------------------------------------------------
(* What follows from it *)

(* The variables keep their types; so a chainload never leaves more than   *)
(* two images behind.                                                      *)
THEOREM SearchTypes == Spec => []TypeOK
  <1>1. SearchInv => TypeOK
    BY DEF SearchInv
  <1> QED
    BY <1>1, SearchSafe, PTL

(* A file whose marker could be read is never the target of a chainload.   *)
THEOREM MarkedIsNeverChainloaded == Spec => []NeverChainloadsMarkedImage
  <1>1. SearchInv => NeverChainloadsMarkedImage
    BY DEF SearchInv, NeverChainloadsMarkedImage, Accepted, Targeted
  <1> QED
    BY <1>1, SearchSafe, PTL

(* If the firmware tells the truth, comparing handles and paths is enough. *)
THEOREM NeverItself == Spec => []NeverRestartsItself
  <1>1. SearchInv => NeverRestartsItself
    <2> SUFFICES ASSUME SearchInv, HasTarget, Truthful,
                        volumeOf[target.device] = running.volume,
                        target.path = running.path
                 PROVE  FALSE
      BY DEF NeverRestartsItself
    <2>1. /\ target.device = device /\ target.path = Path /\ device \in HandleSet
          /\ ~Identity(device, Path)
      BY DEF SearchInv, Targeted, Accepted, Place
    <2>2. running.path # NoPath
      BY CandidatesAssumption DEF SearchInv, TypeOK
    <2>3. ownDevice = NoHandle \/ device = ownDevice
      BY <2>1 DEF Truthful
    <2> QED
      BY <2>1, <2>2, <2>3 DEF Truthful, Identity
  <1> QED
    BY <1>1, SearchSafe, PTL

(* The target is the first candidate in the order of the search that the   *)
(* guards accept: nothing before it on its volume, or on our own.          *)
THEOREM SearchIsInOrder == Spec => []EarlierCandidatesPassedOver
  <1>1. SearchInv => EarlierCandidatesPassedOver
    <2> SUFFICES ASSUME SearchInv, HasTarget, NEW i \in DOMAIN Candidates
                 PROVE  /\ target.path # bootPath
                             /\ (\A j \in 1 .. i : Candidates[j] # target.path) =>
                              PassedOver(target.device, Candidates[i])
                        /\ target.device # ownDevice /\ ownDevice # NoHandle =>
                              PassedOver(ownDevice, Candidates[i])
      BY DEF EarlierCandidatesPassedOver
    <2>1. /\ target.device = device /\ target.path = Path
          /\ index = 0 => bootPath # NoPath
          /\ \A k \in DOMAIN Candidates : k < index => PassedOver(device, Candidates[k])
          /\ device # ownDevice /\ ownDevice # NoHandle => AllPassedOver(ownDevice)
      BY DEF SearchInv, Targeted, Place, TriedHere, TriedOwn
    <2>2. ASSUME target.path # bootPath, \A j \in 1 .. i : Candidates[j] # target.path
          PROVE  PassedOver(target.device, Candidates[i])
      <3>1. index # 0
        BY <2>1, <2>2 DEF Path
      <3>2. index \in DOMAIN Candidates /\ Path = Candidates[index]
        BY <2>1, <3>1, PathTypes DEF SearchInv
      <3>3. index \notin 1 .. i
        BY <2>1, <2>2, <3>2
      <3>4. i < index
        BY <3>2, <3>3, CandidateTypes
      <3> QED
        BY <2>1, <3>4
    <2> QED
      BY <2>1, <2>2 DEF AllPassedOver
  <1> QED
    BY <1>1, SearchSafe, PTL

(* Whatever LoadImage and UnloadImage answer, the images a chainload       *)
(* leaves loaded are as many as the firmware refused to unload.            *)
THEOREM NoImageLeaks == Spec => []ImagesAreReleased
  <1>1. SearchInv => ImagesAreReleased
    BY DEF SearchInv, OneImage, ImagesAreReleased
  <1> QED
    BY <1>1, SearchSafe, PTL

(* A search that ends after its last volume has nothing left to accept.    *)
THEOREM NotFoundIsFinal == Spec => NotFoundMeansNone
  <1>1. SearchInv /\ [Next]_vars =>
            [(pc \in {"ourself", "exists"} /\ pc' = "idle") => NothingAcceptable]_vars
    <2> SUFFICES ASSUME SearchInv, Next, pc \in {"ourself", "exists"}, pc' = "idle"
                 PROVE  NothingAcceptable
      OBVIOUS
    <2>1. IsOurself \/ FileExists
      BY DEF Next, FindLoader, LocateVolumes, Unplug, SearchAgain, Chainload, LoadFirst, Refused,
             LoadSecond, LoadFails, StartImage, LoaderReturns
    <2> QED
      BY <2>1, IsOurselfKeeps, FileExistsKeeps
  <1> QED
    BY <1>1, SearchSafe, PTL DEF Spec, NotFoundMeansNone
=============================================================================
