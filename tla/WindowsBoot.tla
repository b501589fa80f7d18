---------------------------- MODULE WindowsBoot -----------------------------
(***************************************************************************)
(* WindowsBoot.c: the search for a Windows loader (WinBootFindLoader,      *)
(* TryDevice), the guard against chainloading GpuCheck itself (IsOurself), *)
(* and the chainload (WinBootChainload) with its second LoadImage under    *)
(* Secure Boot.                                                            *)
(*                                                                         *)
(* A handle is what the firmware hands out; a volume is what is on the     *)
(* disk.  Two handles may show the same volume, and a handle may show      *)
(* none, as the comment on FileLooksLikeGpuCheck warns.                    *)
(***************************************************************************)
EXTENDS Naturals, Sequences

CONSTANTS
    Handles,     \* the order LocateHandleBuffer returns the handles in
    Volumes,
    Candidates,  \* mCandidatePaths, in their order
    Stock,       \* "\EFI\Microsoft\Boot\bootmgfw.efi"
    Elsewhere,   \* paths that are no candidates, such as \EFI\BOOT\BOOTX64.EFI
    Disks,       \* what may be at the paths of the volumes
    BootPaths,   \* the settings of BOOT_PATH, NoPath among them
    NoHandle, NoVolume, NoPath

HandleSet == {Handles[i] : i \in DOMAIN Handles}
Paths == {Candidates[i] : i \in DOMAIN Candidates} \union Elsewhere

ASSUME HandlesAssumption ==
    /\ Handles \in Seq(HandleSet)
    /\ NoHandle \notin HandleSet
    /\ NoVolume \notin Volumes

(* The stock loader is deliberately the last candidate. *)
ASSUME CandidatesAssumption ==
    /\ Candidates \in Seq(Paths) /\ Candidates # <<>>
    /\ NoPath \notin Paths
    /\ \A i \in DOMAIN Candidates : Candidates[i] = Stock <=> i = Len(Candidates)

(* What a file is.  A damaged loader exists and cannot be loaded. *)
Contents == {"absent", "windows", "gpucheck", "damaged"}

ASSUME DisksAssumption ==
    /\ Disks \subseteq [Volumes -> [Paths -> Contents]]
    /\ BootPaths \subseteq Paths \union {NoPath}

VARIABLES
    running,    \* the volume and path this GpuCheck was started from
    volumeOf,   \* the volume behind each handle, or NoVolume
    ownDevice,  \* WinBootOwnDeviceHandle, or NoHandle
    ownPath,    \* what WinBootOwnFilePath reconstructs, or NoPath
    bootPath,   \* BOOT_PATH of gpucheck.cfg, or NoPath
    files,      \* what is at each path of each volume
    pc,
    device,     \* the handle TryDevice is at
    position,   \* Index: its place among Handles, 0 before the loop over them
    index,      \* the candidate it is at; 0 is BOOT_PATH
    target,     \* Target: a handle and a path, NoTarget if not Found
    read,       \* the last content check did read the file
    status,     \* what the last LoadImage answered
    newImage,   \* NewImage # NULL
    images,     \* images this chainload left loaded, neither started nor unloaded
    refusals    \* history: calls of UnloadImage the firmware refused in it

machine == <<running, volumeOf, ownDevice, ownPath, bootPath>>
search  == <<device, position, index, target, read>>
load    == <<status, newImage, images, refusals>>
vars    == <<machine, files, pc, search, load>>

NoTarget == [device |-> NoHandle, path |-> NoPath]

TypeOK ==
    /\ running \in [volume : Volumes, path : Paths]
    /\ volumeOf \in [HandleSet -> Volumes \union {NoVolume}]
    /\ ownDevice \in HandleSet \union {NoHandle}
    /\ ownPath \in Paths \union {NoPath}
    /\ bootPath \in BootPaths
    /\ files \in [Volumes -> [Paths -> Contents]]
    /\ pc \in {"idle", "ourself", "exists", "locate", "found", "load", "loaded",
               "reload", "reloaded", "start", "windows"}
    /\ device \in HandleSet \union {NoHandle}
    /\ position \in {0} \union DOMAIN Handles
    /\ index \in 0 .. Len(Candidates)
    /\ target \in [device : HandleSet, path : Paths] \union {NoTarget}
    /\ read \in BOOLEAN
    /\ status \in {"none", "success", "denied", "violation", "error"}
    /\ newImage \in BOOLEAN
    /\ images \in 0 .. 2
    /\ refusals \in 0 .. 2

(* What a file is, seen through handle h. *)
FileAt(h, p) == IF volumeOf[h] = NoVolume THEN "absent" ELSE files[volumeOf[h]][p]

Path == IF index = 0 THEN bootPath ELSE Candidates[index]

(* GpuCheck runs from a file that exists; what the firmware says of that   *)
(* file, and which handles show which volumes, may be anything.            *)
Init ==
    /\ files \in Disks
    /\ running \in [volume : Volumes, path : Paths]
    /\ files[running.volume][running.path] = "gpucheck"
    /\ volumeOf \in [HandleSet -> Volumes \union {NoVolume}]
    /\ ownDevice \in HandleSet \union {NoHandle}
    /\ ownPath \in Paths \union {NoPath}
    /\ bootPath \in BootPaths
    /\ pc = "idle"
    /\ device = NoHandle /\ position = 0 /\ index = 0
    /\ target = NoTarget /\ read = FALSE
    /\ status = "none" /\ newImage = FALSE /\ images = 0 /\ refusals = 0

-----------------------------------------------------------------------------
(* The search *)

(* Fault for TryDevice: the first candidate is skipped. *)
TryDevice_SkipsFirst(h) ==
    /\ device' = h
    /\ index' = IF bootPath = NoPath THEN 2 ELSE 0
    /\ pc' = "ourself"

(* Enter TryDevice: BOOT_PATH first if there is one. *)
TryDevice(h) ==
    /\ device' = h
    /\ index' = IF bootPath = NoPath THEN 1 ELSE 0
    /\ pc' = "ourself"

(* WinBootFindLoader clears the target and tries GpuCheck's own volume.    *)
(* Images are counted anew for the chainload that may follow.              *)
FindLoader ==
    /\ pc = "idle"
    /\ target' = NoTarget
    /\ IF ownDevice = NoHandle
       THEN pc' = "locate" /\ UNCHANGED <<device, index>>
       ELSE TryDevice(ownDevice)
    /\ position' = 0
    /\ images' = 0 /\ refusals' = 0
    /\ UNCHANGED <<machine, files, status, newImage, read>>

(* Fault for LastCandidate: the stock loader is never tried. *)
LastCandidate_OffByOne == Len(Candidates) - 1

LastCandidate == Len(Candidates)

(* The volumes the loop over Handles meets after place i: all but our own, *)
(* which was tried.                                                        *)
OtherVolumes(i) == {j \in DOMAIN Handles : j > i /\ Handles[j] # ownDevice}

(* The first of them. *)
NextVolume(i) ==
    \E j \in OtherVolumes(i) :
        /\ \A k \in OtherVolumes(i) : j =< k
        /\ TryDevice(Handles[j])
        /\ position' = j

(* The path is refused, or nothing is there: on to the next candidate, the *)
(* next volume, the list of volumes, or to the end of the search.          *)
NextCandidate ==
    IF index < LastCandidate
    THEN /\ index' = index + 1 /\ pc' = "ourself"
         /\ UNCHANGED <<device, position>>
    ELSE IF device = ownDevice
    THEN pc' = "locate" /\ UNCHANGED <<device, position, index>>
    ELSE IF OtherVolumes(position) # {}
    THEN NextVolume(position)
    ELSE pc' = "idle" /\ UNCHANGED <<device, position, index>>

(* LocateHandleBuffer finds the other volumes, none, or fails. *)
LocateVolumes ==
    /\ pc = "locate"
    /\ \/ NextVolume(0)
       \/ pc' = "idle" /\ UNCHANGED <<device, position, index>>
    /\ UNCHANGED <<machine, files, load, target, read>>

(* Fault for Identity: an unknown own path refuses nothing. *)
Identity_Trusting(h, p) == (ownDevice = NoHandle \/ h = ownDevice) /\ p = ownPath

(* The second guard: our own path on our own volume, or the stock path     *)
(* there when our own is not known.                                        *)
Identity(h, p) ==
    /\ ownDevice = NoHandle \/ h = ownDevice
    /\ p = IF ownPath = NoPath THEN Stock ELSE ownPath

(* Fault for Marked: the marker is not looked for. *)
Marked_Never(h, p) == FALSE

(* The first guard, when the file can be read: GpuCheck's banner is in it. *)
Marked(h, p) == FileAt(h, p) = "gpucheck"

(* IsOurself.  The content check may fail to read the file (no memory, a   *)
(* read error), and then leaves the decision to the identity check.        *)
IsOurself ==
    /\ pc = "ourself"
    /\ read' \in IF FileAt(device, Path) = "absent" THEN {FALSE} ELSE BOOLEAN
    /\ IF (read' /\ Marked(device, Path)) \/ Identity(device, Path)
       THEN NextCandidate
       ELSE pc' = "exists" /\ UNCHANGED <<device, position, index>>
    /\ UNCHANGED <<machine, files, load, target>>

(* WinBootFileExists, and the target if it does. *)
FileExists ==
    /\ pc = "exists"
    /\ IF FileAt(device, Path) # "absent"
       THEN /\ target' = [device |-> device, path |-> Path]
            /\ pc' = "found"
            /\ UNCHANGED <<device, position, index>>
       ELSE NextCandidate /\ UNCHANGED target
    /\ UNCHANGED <<machine, files, load, read>>

-----------------------------------------------------------------------------
(* The chainload *)

(* While the screen waits, a disk may be pulled. *)
Unplug ==
    /\ pc = "found"
    /\ \E v \in Volumes : files' = [files EXCEPT ![v] = [p \in Paths |-> "absent"]]
    /\ UNCHANGED <<machine, pc, search, load>>

(* UefiMain searches anew without having booted (R, ESC, N). *)
SearchAgain ==
    /\ pc = "found"
    /\ pc' = "idle"
    /\ UNCHANGED <<machine, files, search, load>>

(* FileDevicePath succeeds, or WinBootChainload ends here. *)
Chainload ==
    /\ pc = "found"
    /\ pc' \in {"load", "idle"}
    /\ UNCHANGED <<machine, files, search, load>>

(* What LoadImage may answer: an image; a refusal under Secure Boot, which *)
(* as EFI_SECURITY_VIOLATION may leave an image behind; another error.     *)
LoadImage ==
    LET loadable == FileAt(target.device, target.path) \in {"windows", "gpucheck"}
    IN  /\ \/ status' = "success" /\ loadable /\ newImage' = TRUE
           \/ status' = "violation" /\ newImage' \in {loadable, FALSE}
           \/ status' \in {"denied", "error"} /\ newImage' = FALSE
        /\ images' = IF newImage' THEN images + 1 ELSE images
        /\ UNCHANGED refusals

(* Faults for UnloadViolation: the image is forgotten, and one is unloaded *)
(* that is not there.                                                      *)
UnloadViolation_Forgets ==
    newImage' = FALSE /\ UNCHANGED <<status, images, refusals>>
UnloadViolation_Always ==
    newImage' = FALSE /\ images' = images - 1 /\ UNCHANGED <<status, refusals>>

(* UnloadImage what a security violation left behind.  Its answer is not   *)
(* looked at: if the firmware refuses, the image stays and is forgotten.   *)
UnloadViolation ==
    /\ IF status = "violation" /\ newImage
       THEN \/ images' = images - 1 /\ UNCHANGED refusals
            \/ refusals' = refusals + 1 /\ UNCHANGED images
       ELSE UNCHANGED <<images, refusals>>
    /\ newImage' = FALSE
    /\ UNCHANGED status

(* LoadImage with BootPolicy FALSE. *)
LoadFirst ==
    /\ pc = "load"
    /\ LoadImage
    /\ pc' = "loaded"
    /\ UNCHANGED <<machine, files, search>>

(* Refused: unload, and try again as a boot option. *)
Refused ==
    /\ pc = "loaded" /\ status \in {"denied", "violation"}
    /\ UnloadViolation
    /\ pc' = "reload"
    /\ UNCHANGED <<machine, files, search>>

(* LoadImage with BootPolicy TRUE. *)
LoadSecond ==
    /\ pc = "reload"
    /\ LoadImage
    /\ pc' = "reloaded"
    /\ UNCHANGED <<machine, files, search>>

(* The last answer was an error: clean up and return it. *)
LoadFails ==
    /\ \/ pc = "loaded" /\ status = "error"
       \/ pc = "reloaded" /\ status # "success"
    /\ UnloadViolation
    /\ pc' = "idle"
    /\ UNCHANGED <<machine, files, search>>

(* StartImage: the image is the firmware's to release from here on. *)
StartImage ==
    /\ pc \in {"loaded", "reloaded"} /\ status = "success"
    /\ images' = images - 1
    /\ newImage' = FALSE
    /\ pc' = "windows"
    /\ UNCHANGED <<machine, files, search, status, refusals>>

(* The loader hands control back. *)
LoaderReturns ==
    /\ pc = "windows"
    /\ pc' = "idle"
    /\ UNCHANGED <<machine, files, search, load>>

-----------------------------------------------------------------------------
Next ==
    \/ FindLoader \/ LocateVolumes \/ IsOurself \/ FileExists
    \/ Unplug \/ SearchAgain
    \/ Chainload \/ LoadFirst \/ Refused \/ LoadSecond \/ LoadFails
    \/ StartImage \/ LoaderReturns

Spec == Init /\ [][Next]_vars

-----------------------------------------------------------------------------
(* Safety *)

HasTarget == pc \in {"found", "load", "loaded", "reload", "reloaded", "windows"}

(* An image whose content check could read it is never chainloaded if it   *)
(* carries GpuCheck's marker, whatever the firmware says about handles and *)
(* paths ("the authoritative self-boot-loop guard").                       *)
NeverChainloadsMarkedImage ==
    HasTarget /\ read => FileAt(target.device, target.path) # "gpucheck"

(* The firmware names our file, or in Mode A at least not a wrong one, and *)
(* shows our volume only through our own handle.                           *)
Truthful ==
    /\ ownPath = running.path \/ (ownPath = NoPath /\ running.path = Stock)
    /\ \A h \in HandleSet : volumeOf[h] = running.volume =>
                            ownDevice \in {h, NoHandle}

(* With a truthful firmware the second guard alone keeps GpuCheck from     *)
(* restarting the very file it runs from, even if no file can be read.     *)
NeverRestartsItself ==
    HasTarget /\ Truthful =>
        ~(volumeOf[target.device] = running.volume /\ target.path = running.path)

(* A candidate the search may pass over: nothing there, or refused.        *)
PassedOver(h, p) ==
    FileAt(h, p) \in {"absent", "gpucheck"} \/ Identity(h, p)

(* The order of the search decides: no loader before the target, on its    *)
(* volume or on our own, would have been accepted; so the stock loader,    *)
(* the last one, is only taken when there is no other.                     *)
EarlierCandidatesPassedOver ==
    HasTarget =>
        \A i \in DOMAIN Candidates :
            /\ target.path # bootPath
                 /\ (\A j \in 1 .. i : Candidates[j] # target.path) =>
                  PassedOver(target.device, Candidates[i])
            /\ target.device # ownDevice /\ ownDevice # NoHandle =>
                  PassedOver(ownDevice, Candidates[i])

(* On any path through the two calls of LoadImage, WinBootChainload leaves *)
(* no image loaded behind but those the firmware refused to unload.        *)
ImagesAreReleased ==
    pc \notin {"loaded", "reloaded"} => images = refusals

NothingAcceptable ==
    \A h \in HandleSet, i \in DOMAIN Candidates : PassedOver(h, Candidates[i])

(* "Not found" after all volumes were searched means that no volume holds  *)
(* a loader the guards would accept.                                       *)
NotFoundMeansNone ==
    [][(pc \in {"ourself", "exists"} /\ pc' = "idle") => NothingAcceptable]_vars

(* WindowsBoot.h, of WinBootFindLoader: the stock loader "is only ever     *)
(* accepted when it is provably not GpuCheck itself", here asked only of a *)
(* truthful firmware that knows our volume.  A content check that could    *)
(* not read the file proves nothing, and yet the file is accepted.         *)
StockIsProvablyNotGpuCheck ==
    pc = "found" /\ target.path = Stock /\ Truthful
      /\ ownDevice # NoHandle /\ volumeOf[ownDevice] = running.volume =>
        FileAt(target.device, target.path) # "gpucheck"
=============================================================================
