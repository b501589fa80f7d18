----------------------------- MODULE EspInstall -----------------------------
(***************************************************************************)
(* The boot files of one EFI System Partition under install-gpucheck.ps1   *)
(* and restore-gpucheck.ps1: runs of either script in any order, each of   *)
(* which may die in the middle of a copy (power, a pulled USB disk, a full *)
(* partition), and a Windows that puts its own boot files back between     *)
(* them.                                                                   *)
(*                                                                         *)
(* A verified copy is taken to be on the disk; one that did not get that   *)
(* far has left a damaged file.  Mounting, disk identification, BitLocker  *)
(* and the free-space check happen before the first write and can only     *)
(* end the run, so they are not steps here.                                *)
(***************************************************************************)
EXTENDS Naturals, Sequences

CONSTANTS
    Versions,  \* versions of the Windows Boot Manager that get deployed
    Hosts      \* what PowerShell may do with the restore script's calls

(* restore-gpucheck.ps1 calls its helpers, whose one parameter is $P, as   *)
(* "f -Path x".  "binds": x arrives in $P, as the author meant.  Otherwise *)
(* x ends in $args and $P is the empty string, on which Test-Path answers  *)
(* FALSE ("empty") or throws ("throws"), depending on PowerShell.          *)
ASSUME HostsAssumption == Hosts \subseteq {"binds", "empty", "throws"}

(* 0 stands for no version. *)
ASSUME VersionsAssumption == 0 \notin Versions

(* What a file holds.  A damaged copy is "torn"; it is a "lookalike" if    *)
(* the part the scripts look at (signer, version resource, marker string)  *)
(* survived.                                                               *)
Images  == {"absent", "windows", "gpucheck", "stock", "sample", "settings"}
File    == [image : Images, version : Versions \union {0},
            state : {"whole", "torn", "lookalike"}]
Whole(image, v) == [image |-> image, version |-> v, state |-> "whole"]

Absent     == Whole("absent", 0)
GpuCheck   == Whole("gpucheck", 0)   \* build\GpuCheck.efi
Stock      == Whole("stock", 0)      \* somebody else's loader
Windows(v) == Whole("windows", v)
Sample     == Whole("sample", 0)     \* esp-staging\gpucheck.cfg
Settings   == Whole("settings", 0)   \* a gpucheck.cfg of the operator's own

Names == {"bootmgfw", "original", "bootx64", "bootx64Bak", "canonical",
          "cfg"}

Installs == {"A", "B", "Both"}
Restores == {"restore", "restoreAndRemove"}

(* A copy still to be made; "build" is the image to install, "staging" the *)
(* sample configuration, "stamp" a bootmgfw-backup-<stamp>.efi of its own, *)
(* which no script reads again.                                            *)
Copy == [from : Names \union {"build", "staging"}, to : Names \union {"stamp"}]
Copying(from, to) == [from |-> from, to |-> to]

VARIABLES
    host,        \* one of Hosts
    lookalikes,  \* can a damaged Windows image pass for a genuine one?
    file,        \* name -> what it holds
    stamps,      \* versions of which a whole stamped backup exists
    job, pc,     \* the script that runs, and where it is
    todo,        \* the copies before its next decision
    writing,     \* the first of them has begun
    (* History *)
    began,       \* the files when the job began
    outcome,     \* how the last job ended
    deployed     \* version of the loader last put in bootmgfw.efi, or 0

vars == <<host, lookalikes, file, stamps, job, pc, todo, writing, began,
          outcome, deployed>>
setting == <<host, lookalikes, deployed>>

-----------------------------------------------------------------------------
Exists(f) == f.image # "absent"

TestIsGpuCheckImage(f) == f.image = "gpucheck" /\ f.state # "torn"

TestIsWindowsBootManager(f) == f.image = "windows" /\ f.state # "torn"

IsWindows(f) == f.image = "windows" /\ f.state = "whole"

(* What is found of a copy of f that was cut short. *)
Partial(f) ==
    {[f EXCEPT !.state = s] : s \in
        IF \/ f.state = "torn" \/ f.image = "sample"
           \/ f.image = "windows" /\ ~lookalikes
        THEN {"torn"} ELSE {"torn", "lookalike"}}

Content(name) ==
    IF name = "build" THEN GpuCheck
    ELSE IF name = "staging" THEN Sample ELSE file[name]

-----------------------------------------------------------------------------
TypeOK ==
    /\ host \in Hosts /\ lookalikes \in BOOLEAN
    /\ deployed \in Versions \union {0}
    /\ file \in [Names -> File] /\ began \in [Names -> File]
    /\ stamps \subseteq Versions
    /\ job \in {"none"} \union Installs \union Restores
    /\ pc \in {"idle", "inspect", "verifyBackup", "modeB", "config",
               "postVerify", "plan", "removeOriginal", "restoreB",
               "removeBackup", "removeDir", "ended"}
    /\ todo \in Seq(Copy) /\ Len(todo) =< 3
    /\ writing \in BOOLEAN /\ (writing => todo # <<>>)
    /\ outcome \in {"none", "complete", "refused"}

(* A partition no GpuCheck script has seen, whatever else was done to it.  *)
Init ==
    /\ host \in Hosts /\ lookalikes \in BOOLEAN
    /\ \E m \in {Absent, GpuCheck, Stock} \union {Windows(v) : v \in Versions},
          b \in {Absent, Stock} :
          /\ file = [n \in Names |-> IF n = "bootmgfw" THEN m
                                     ELSE IF n = "bootx64" THEN b ELSE Absent]
          /\ deployed = m.version
    /\ stamps = {}
    /\ job = "none" /\ pc = "idle" /\ todo = <<>> /\ writing = FALSE
    /\ began = file /\ outcome = "none"

-----------------------------------------------------------------------------
(* Running a script *)

Start ==
    /\ pc = "idle"
    /\ job' \in Installs \union Restores
    /\ pc' = IF job' \in Installs THEN "inspect" ELSE "plan"
    /\ began' = file
    /\ outcome' = "none"
    /\ UNCHANGED <<setting, file, stamps, todo, writing>>

(* Carry on at label with the copies cs to make first. *)
Go(label, cs) ==
    /\ pc' = label
    /\ todo' = cs
    /\ UNCHANGED <<setting, stamps, job, writing, began>>

End(how) == Go("ended", <<>>) /\ outcome' = how

(* Abort *)
Refuse == End("refused") /\ UNCHANGED file

At(label) == pc = label /\ todo = <<>>

(* The destination is opened for writing and is no longer what it was. *)
CopyBegins ==
    /\ todo # <<>> /\ ~writing
    /\ LET c == Head(todo) IN
       IF c.to = "stamp" THEN UNCHANGED file
       ELSE \E f \in Partial(Content(c.from)) : file' = [file EXCEPT ![c.to] = f]
    /\ deployed' = IF Head(todo) = Copying("original", "bootmgfw")
                   THEN file["original"].version ELSE deployed
    /\ writing' = TRUE
    /\ UNCHANGED <<host, lookalikes, stamps, job, pc, todo, began, outcome>>

(* Fault for CopyVerified: the copy is never over. *)
CopyVerified_StaysOpen ==
    /\ writing
    /\ todo' = Tail(todo)
    /\ UNCHANGED <<setting, file, stamps, job, pc, writing, began, outcome>>

(* The hashes of both files were found equal. *)
CopyVerified ==
    /\ writing
    /\ LET c == Head(todo)
           f == Content(c.from) IN
       IF c.to = "stamp"
       THEN /\ stamps' = stamps \union {v \in Versions : f = Windows(v)}
            /\ UNCHANGED file
       ELSE file' = [file EXCEPT ![c.to] = f] /\ UNCHANGED stamps
    /\ writing' = FALSE
    /\ todo' = Tail(todo)
    /\ UNCHANGED <<setting, job, pc, began, outcome>>

(* The machine or the script dies, or a copy fails and the script aborts.  *)
Interrupted ==
    /\ pc \notin {"idle", "ended"}
    /\ pc' = "idle" /\ job' = "none" /\ todo' = <<>> /\ writing' = FALSE
    /\ began' = file
    /\ UNCHANGED <<setting, file, stamps, outcome>>

Dismount ==
    /\ pc = "ended"
    /\ pc' = "idle" /\ job' = "none" /\ outcome' = "none" /\ began' = file
    /\ UNCHANGED <<setting, file, stamps, todo, writing>>

(* Servicing, Startup Repair or bcdboot puts Windows' own boot files back. *)
Service ==
    /\ pc = "idle"
    /\ \E v \in Versions, b \in {file["bootx64"], Stock} :
          /\ file' = [file EXCEPT !["bootmgfw"] = Windows(v), !["bootx64"] = b]
          /\ deployed' = v
    /\ began' = file'
    /\ UNCHANGED <<host, lookalikes, stamps, job, pc, todo, writing, outcome>>

(* The operator writes a gpucheck.cfg. *)
Configure ==
    /\ pc = "idle"
    /\ file' = [file EXCEPT !["cfg"] = Settings]
    /\ began' = file'
    /\ UNCHANGED <<setting, stamps, job, pc, todo, writing, outcome>>

-----------------------------------------------------------------------------
(* install-gpucheck.ps1 *)

ModeA == job \in {"A", "Both"}
ModeB == job \in {"B", "Both"}

(* Fault for Unusable: the first backup may be of any loader. *)
Unusable_AnyLoader ==
    \/ ~Exists(file["bootmgfw"])
    \/ ModeA /\ Exists(file["original"])
          /\ ~TestIsWindowsBootManager(file["original"])

(* Whatever the mode, there has to be a bootmgfw.efi.  Mode A also wants   *)
(* a genuine original where there is one, or else a genuine bootmgfw.      *)
Unusable ==
    \/ ~Exists(file["bootmgfw"])
    \/ ModeA /\ ~TestIsWindowsBootManager(
           IF Exists(file["original"]) THEN file["original"]
           ELSE file["bootmgfw"])

InstallRefuses == At("inspect") /\ Unusable /\ Refuse

SkipModeA ==
    /\ At("inspect") /\ ~Unusable /\ ~ModeA
    /\ Go("modeB", <<>>)
    /\ UNCHANGED <<file, outcome>>

(* Fault for BackUp: an existing original is never refreshed. *)
BackUp_NeverRefreshes ==
    /\ At("inspect") /\ ~Unusable /\ ModeA
    /\ Go("verifyBackup",
          IF Exists(file["original"]) THEN <<>>
          ELSE <<Copying("bootmgfw", "original"), Copying("bootmgfw", "stamp")>>)
    /\ UNCHANGED <<file, outcome>>

(* The first backup, or a refreshed one after Windows has put its own      *)
(* loader back, or none if GpuCheck is still in place.                     *)
BackUp ==
    /\ At("inspect") /\ ~Unusable /\ ModeA
    /\ LET original == Copying("bootmgfw", "original")
           stamp    == Copying("bootmgfw", "stamp") IN
       Go("verifyBackup",
          IF ~Exists(file["original"]) THEN <<original, stamp>>
          ELSE IF TestIsWindowsBootManager(file["bootmgfw"])
               THEN <<stamp, original>> ELSE <<>>)
    /\ UNCHANGED <<file, outcome>>

(* The backup is tested again, and only then bootmgfw.efi is overwritten.  *)
VerifyBackup ==
    /\ At("verifyBackup")
    /\ IF TestIsWindowsBootManager(file["original"])
       THEN /\ Go("modeB", <<Copying("build", "bootmgfw")>>)
            /\ UNCHANGED <<file, outcome>>
       ELSE Refuse

(* Fault for BackupWanted: an existing backup is made again. *)
BackupWanted_Again ==
    Exists(file["bootx64"]) /\ ~TestIsGpuCheckImage(file["bootx64"])

BackupWanted ==
    /\ Exists(file["bootx64"])
    /\ ~TestIsGpuCheckImage(file["bootx64"])
    /\ ~Exists(file["bootx64Bak"])

InstallModeB ==
    /\ At("modeB")
    /\ LET canonical == Copying("build", "canonical")
           backup    == Copying("bootx64", "bootx64Bak")
           bootx64   == Copying("build", "bootx64") IN
       Go("config",
          IF ~ModeB THEN <<>>
          ELSE IF BackupWanted THEN <<canonical, backup, bootx64>>
               ELSE <<canonical, bootx64>>)
    /\ UNCHANGED <<file, outcome>>

(* In either mode, the sample configuration, if it is at hand and there is *)
(* none yet.                                                               *)
InstallConfig ==
    /\ At("config")
    /\ \/ Go("postVerify", <<>>)
       \/ ~Exists(file["cfg"]) /\ Go("postVerify", <<Copying("staging", "cfg")>>)
    /\ UNCHANGED <<file, outcome>>

(* The installed images are looked at once more. *)
Installed ==
    /\ ModeA => /\ TestIsGpuCheckImage(file["bootmgfw"])
                /\ TestIsWindowsBootManager(file["original"])
                /\ file["bootmgfw"] = GpuCheck
    /\ ModeB => /\ TestIsGpuCheckImage(file["bootx64"])
                /\ TestIsGpuCheckImage(file["canonical"])

PostVerify ==
    /\ At("postVerify")
    /\ End(IF Installed THEN "complete" ELSE "refused")
    /\ UNCHANGED file

-----------------------------------------------------------------------------
(* restore-gpucheck.ps1 *)

(* A test called as "f -Path x". *)
Named(answer) == host = "binds" /\ answer

(* Fault for RestoreImpossible: an original that does not pass is only     *)
(* warned of.                                                              *)
RestoreImpossible_WarnsOnly ==
    \/ host = "throws"
    \/ ~Exists(file["original"])
         /\ Named(TestIsGpuCheckImage(file["bootmgfw"]))

(* An empty path that throws does so before anything is planned: testing   *)
(* the original, or the lack of one.                                       *)
RestoreImpossible ==
    \/ host = "throws"
    \/ Exists(file["original"])
         /\ ~Named(TestIsWindowsBootManager(file["original"]))
    \/ ~Exists(file["original"])
         /\ Named(TestIsGpuCheckImage(file["bootmgfw"]))

RestoreRefuses == At("plan") /\ RestoreImpossible /\ Refuse

RestoreModeA ==
    /\ At("plan") /\ ~RestoreImpossible
    /\ Go("removeOriginal",
          IF Exists(file["original"]) THEN <<Copying("original", "bootmgfw")>>
          ELSE <<>>)
    /\ UNCHANGED <<file, outcome>>

(* Fault for RemoveOriginal: it goes before it has been copied back. *)
RemoveOriginal_First ==
    /\ pc = "removeOriginal"
    /\ file' = [file EXCEPT !["original"] = Absent]
    /\ Go("restoreB", todo)
    /\ UNCHANGED outcome

RemoveOriginal ==
    /\ At("removeOriginal")
    /\ IF Exists(file["original"])
            /\ ~Named(TestIsWindowsBootManager(file["bootmgfw"]))
       THEN Refuse
       ELSE /\ file' = [file EXCEPT !["original"] = Absent]
            /\ Go("restoreB", <<>>)
            /\ UNCHANGED outcome

(* BOOTX64.EFI is put back from whatever its backup holds, or deleted. *)
RestoreModeB ==
    /\ At("restoreB")
    /\ IF ~Named(TestIsGpuCheckImage(file["bootx64"]))
       THEN Go("removeDir", <<>>) /\ UNCHANGED file
       ELSE IF Exists(file["bootx64Bak"])
       THEN /\ Go("removeBackup", <<Copying("bootx64Bak", "bootx64")>>)
            /\ UNCHANGED file
       ELSE /\ file' = [file EXCEPT !["bootx64"] = Absent]
            /\ Go("removeDir", <<>>)
    /\ UNCHANGED outcome

RemoveBackup ==
    /\ At("removeBackup")
    /\ file' = [file EXCEPT !["bootx64Bak"] = Absent]
    /\ Go("removeDir", <<>>)
    /\ UNCHANGED outcome

RemoveDir ==
    /\ At("removeDir")
    /\ file' = IF job = "restoreAndRemove"
               THEN [file EXCEPT !["canonical"] = Absent, !["cfg"] = Absent]
               ELSE file
    /\ End("complete")

-----------------------------------------------------------------------------
Install ==
    \/ InstallRefuses \/ SkipModeA \/ BackUp \/ VerifyBackup
    \/ InstallModeB \/ InstallConfig \/ PostVerify

Restore ==
    \/ RestoreRefuses \/ RestoreModeA \/ RemoveOriginal \/ RestoreModeB
    \/ RemoveBackup \/ RemoveDir

Next ==
    \/ Start \/ CopyBegins \/ CopyVerified \/ Install \/ Restore
    \/ Dismount \/ Interrupted \/ Service \/ Configure

Spec == Init /\ [][Next]_vars

-----------------------------------------------------------------------------
(* Safety *)

(* A damaged image that passes for genuine defeats a restore; as long as   *)
(* the restore script's own calls do not bind, it cannot run that far.     *)
Trustworthy == host = "binds" => ~lookalikes

(* Once Windows was on the partition, a whole Boot Manager is either where *)
(* the firmware starts it or where GpuCheck chainloads it, whenever        *)
(* scripts are interrupted and in whatever order they are run: a machine   *)
(* can lose its boot menu entry to a half-written bootmgfw.efi, never its  *)
(* loader.                                                                 *)
WindowsIsOnTheBootPath ==
    deployed # 0 /\ Trustworthy =>
        IsWindows(file["bootmgfw"]) \/ IsWindows(file["original"])

(* Wherever GpuCheck stands in place of the loader, its backup is of the   *)
(* very loader that Windows, or a restore, put there last: no sequence of  *)
(* installs, interruptions, servicing and restores makes the machine go on *)
(* booting a backup of an earlier one.                                     *)
BackupIsCurrent ==
    file["bootmgfw"] = GpuCheck /\ deployed # 0 /\ Trustworthy =>
        file["original"] = Windows(deployed)

(* A script that refuses has changed nothing: none of its later checks can *)
(* fail once it has begun to write ("Refusing to touch anything").         *)
RefusalTouchesNothing ==
    pc = "ended" /\ outcome = "refused" => file = began

(* As PowerShell runs it, the restore script changes, makes and removes no *)
(* loader and no backup of one, wherever it is interrupted, and it claims  *)
(* success only where there was no original to restore: the checks it      *)
(* fails to call stand before every step that writes.                      *)
RestoreChangesNoLoader ==
    job \in Restores /\ host # "binds" =>
        /\ \A n \in {"bootmgfw", "original", "bootx64", "bootx64Bak"} :
              Exists(began[n]) \/ Exists(file[n]) => file[n] = began[n]
        /\ pc = "ended" /\ outcome = "complete" => ~Exists(began["original"])

(* What exists only once is kept: the backup of BOOTX64.EFI is only given  *)
(* up by a restore that has put it back, and a configuration of the        *)
(* operator's own only by a restore that removes the whole folder.         *)
OnlyCopiesAreKept ==
    [][/\ file["bootx64Bak"] = Stock /\ file'["bootx64Bak"] # Stock
            => file["bootx64"] = Stock /\ job \in Restores
       /\ file["cfg"] = Settings /\ file'["cfg"] # Settings
            => job = "restoreAndRemove"]_vars

-----------------------------------------------------------------------------
(* What the scripts say of themselves. *)

(* "The backup is always verified before the original loader is            *)
(* overwritten" (install-gpucheck.ps1:23), of both loaders.                *)
BackupVerifiedBeforeOverwrite ==
    [][\A pair \in {<<"bootmgfw", "original">>, <<"bootx64", "bootx64Bak">>} :
         (/\ job \in Installs
          /\ file[pair[1]].image \in {"windows", "stock"}
          /\ file[pair[1]].state = "whole"
          /\ file'[pair[1]].image = "gpucheck")
         => /\ file[pair[2]].image = file[pair[1]].image
            /\ file[pair[2]].state = "whole"]_vars

(* "Removes GpuCheck and restores the original Windows Boot Manager"       *)
(* (restore-gpucheck.ps1:3): a restore that ran to its end on a partition  *)
(* with the genuine original has done so.                                  *)
RestoreRestores ==
    pc = "ended" /\ job \in Restores /\ IsWindows(began["original"]) =>
        IsWindows(file["bootmgfw"])
=============================================================================
