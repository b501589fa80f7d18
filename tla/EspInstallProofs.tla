-------------------------- MODULE EspInstallProofs --------------------------
(***************************************************************************)
(* Proofs about EspInstall: for any versions of Windows and any treatment  *)
(* of the restore script's calls, whatever is interrupted and whatever     *)
(* Windows puts back between two runs.                                     *)
(***************************************************************************)
EXTENDS EspInstall, TLAPS

-----------------------------------------------------------------------------
(* The copies the scripts make *)

OriginalCopy  == Copying("bootmgfw", "original")
StampCopy     == Copying("bootmgfw", "stamp")
BootmgfwCopy  == Copying("build", "bootmgfw")
CanonicalCopy == Copying("build", "canonical")
BackupCopy    == Copying("bootx64", "bootx64Bak")
Bootx64Copy   == Copying("build", "bootx64")
ConfigCopy    == Copying("staging", "cfg")
RestoreCopy   == Copying("original", "bootmgfw")
FallbackCopy  == Copying("bootx64Bak", "bootx64")

(* The copies left while the backup of bootmgfw.efi is being made or       *)
(* refreshed, and after that.                                              *)
OriginalLeft == {<<OriginalCopy>>, <<StampCopy, OriginalCopy>>, <<OriginalCopy, StampCopy>>}
OriginalDone == {<<>>, <<StampCopy>>}

(* The copies left of Mode B. *)
CanonicalLeft == {<<CanonicalCopy, Bootx64Copy>>, <<CanonicalCopy, BackupCopy, Bootx64Copy>>}
BackupLeft    == {<<CanonicalCopy, BackupCopy, Bootx64Copy>>, <<BackupCopy, Bootx64Copy>>}
ModeBLeft     == CanonicalLeft \union BackupLeft \union {<<Bootx64Copy>>}

(* What is left to copy, where the script is. *)
Plans ==
    /\ pc = "verifyBackup" => todo \in OriginalLeft \union OriginalDone
    /\ pc = "modeB" => todo \in {<<>>, <<BootmgfwCopy>>}
    /\ pc = "config" => todo \in {<<>>} \union ModeBLeft
    /\ pc = "postVerify" => todo \in {<<>>, <<ConfigCopy>>}
    /\ pc = "removeOriginal" => todo \in {<<>>, <<RestoreCopy>>}
    /\ pc = "removeBackup" => todo \in {<<>>, <<FallbackCopy>>}
    /\ pc \in {"idle", "inspect", "plan", "restoreB", "removeDir", "ended"} => todo = <<>>
    /\ writing => todo # <<>>

(* Which script it is. *)
Jobs ==
    /\ pc \in {"inspect", "verifyBackup", "modeB", "config", "postVerify"} => job \in Installs
    /\ pc \in {"plan", "removeOriginal", "restoreB", "removeBackup", "removeDir"} =>
          job \in Restores
    /\ pc = "verifyBackup" => ModeA
    /\ pc = "modeB" /\ todo # <<>> => ModeA
    /\ pc = "config" /\ todo # <<>> => ModeB

-----------------------------------------------------------------------------
(* The invariant *)

(* Nothing is written before the first decision. *)
Untouched == pc \in {"inspect", "plan"} => file = began

(* Windows images that are damaged and do not show it only exist where     *)
(* damage need not show.                                                   *)
NoLookalikes ==
    ~lookalikes => \A n \in Names :
        file[n].image = "windows" => file[n].state # "lookalike"

(* Mode A: there is a genuine loader to back up, and then a genuine backup *)
(* until GpuCheck is in its place.                                         *)
Backed ==
    /\ pc = "verifyBackup" /\ todo \in OriginalLeft =>
          TestIsWindowsBootManager(file["bootmgfw"])
    /\ pc = "verifyBackup" /\ todo \in OriginalDone =>
          TestIsWindowsBootManager(file["original"])
    /\ pc \in {"modeB", "config", "postVerify"} /\ ModeA =>
          /\ TestIsWindowsBootManager(file["original"])
          /\ (pc = "modeB" => todo = <<>>) => file["bootmgfw"] = GpuCheck

(* Mode B: what it has copied is there. *)
FallbackSet ==
    /\ pc \in {"config", "postVerify"} /\ ModeB =>
          /\ (pc = "config" => todo \notin CanonicalLeft) => file["canonical"] = GpuCheck
          /\ (pc = "config" => todo = <<>>) => file["bootx64"] = GpuCheck

(* The backup of BOOTX64.EFI is never GpuCheck, and only made where there  *)
(* is none.                                                                *)
FallbackBackup ==
    /\ ~TestIsGpuCheckImage(file["bootx64Bak"])
    /\ pc = "config" /\ todo \in BackupLeft =>
          /\ ~TestIsGpuCheckImage(file["bootx64"])
          /\ file["bootx64Bak"] # Stock
    /\ pc = "removeBackup" /\ todo = <<>> => file["bootx64"] = file["bootx64Bak"]

(* The sample configuration is only copied where there is none. *)
ConfigIsNew == pc = "postVerify" /\ todo # <<>> => file["cfg"] # Settings

(* A restore that got past its plan has a genuine original to put back, or *)
(* none.                                                                   *)
Restorable ==
    pc = "removeOriginal" =>
        /\ todo # <<>> => Exists(file["original"])
        /\ Exists(file["original"]) =>
              /\ host = "binds" /\ TestIsWindowsBootManager(file["original"])
              /\ todo = <<>> => file["bootmgfw"] = file["original"]

(* After that there is no original; and BOOTX64.EFI is only put back by a  *)
(* script whose calls bind.                                                *)
Restored ==
    /\ pc \in {"restoreB", "removeBackup", "removeDir"} => ~Exists(file["original"])
    /\ pc = "removeBackup" => host = "binds"

ScriptInv ==
    /\ TypeOK /\ Plans /\ Jobs /\ Untouched /\ NoLookalikes
    /\ Backed /\ FallbackSet /\ FallbackBackup /\ ConfigIsNew
    /\ Restorable /\ Restored
    /\ RefusalTouchesNothing

(* The loader that Windows, or a restore, put in place last: where         *)
(* bootmgfw.efi passes for Windows, it is that one, and otherwise the      *)
(* backup is.  A restore decides to go back to an older one the moment it  *)
(* begins to copy it.                                                      *)
Deployed == Windows(deployed)

LoaderInv ==
    Trustworthy =>
        /\ TestIsWindowsBootManager(file["bootmgfw"]) => file["bootmgfw"] = Deployed
        /\ deployed # 0 => file["bootmgfw"] = Deployed \/ file["original"] = Deployed
        /\ deployed # 0 /\ pc = "verifyBackup" /\ todo \in OriginalDone =>
              file["original"] = Deployed
        /\ deployed # 0 /\ pc = "modeB" /\ todo # <<>> => file["original"] = Deployed
        /\ pc = "removeOriginal" /\ todo # <<>> /\ writing => file["original"] = Deployed

-----------------------------------------------------------------------------
(* Copies *)

(* The two ends of a plan. *)
LEMMA Ends ==
    ASSUME NEW a, NEW b, NEW c
    PROVE  /\ Head(<<a>>) = a /\ Tail(<<a>>) = <<>>
           /\ Head(<<a, b>>) = a /\ Tail(<<a, b>>) = <<b>>
           /\ Head(<<a, b, c>>) = a /\ Tail(<<a, b, c>>) = <<b, c>>
           /\ <<a>> # <<>> /\ <<a, b>> # <<>> /\ <<a, b, c>> # <<>>
  OBVIOUS

(* The copies of a plan are told apart. *)
LEMMA CopiesDiffer ==
    /\ OriginalCopy # StampCopy /\ CanonicalCopy # BackupCopy
    /\ BackupCopy # Bootx64Copy /\ CanonicalCopy # Bootx64Copy
  BY DEF OriginalCopy, StampCopy, CanonicalCopy, BackupCopy, Bootx64Copy, Copying

(* While the backup is being made: what comes first, and what is left.     *)
LEMMA OriginalPlans ==
    /\ <<>> \notin OriginalLeft /\ <<>> \in OriginalDone
    /\ OriginalLeft \cap OriginalDone = {}
    /\ \A t \in OriginalLeft :
          \/ Head(t) = OriginalCopy /\ Tail(t) \in OriginalDone
          \/ Head(t) = StampCopy /\ Tail(t) \in OriginalLeft
    /\ \A t \in OriginalDone : t = <<>> \/ (Head(t) = StampCopy /\ Tail(t) \in OriginalDone)
  BY Ends, CopiesDiffer DEF OriginalLeft, OriginalDone

(* The same of Mode B. *)
LEMMA ModeBPlans ==
    /\ <<>> \notin ModeBLeft /\ CanonicalLeft \subseteq ModeBLeft
    /\ BackupLeft \subseteq ModeBLeft
    /\ <<Bootx64Copy>> \notin CanonicalLeft \union BackupLeft
    /\ \A t \in CanonicalLeft :
          /\ Head(t) = CanonicalCopy
          /\ Tail(t) \notin CanonicalLeft
          /\ Tail(t) \in ModeBLeft
          /\ Tail(t) \in BackupLeft => t \in BackupLeft
    /\ \A t \in BackupLeft \ CanonicalLeft :
          Head(t) = BackupCopy /\ Tail(t) = <<Bootx64Copy>>
    /\ Head(<<Bootx64Copy>>) = Bootx64Copy /\ Tail(<<Bootx64Copy>>) = <<>>
    /\ \A t \in ModeBLeft : t \in CanonicalLeft \union BackupLeft \/ t = <<Bootx64Copy>>
<1> DEFINE a == CanonicalCopy  b == BackupCopy  c == Bootx64Copy
<1>1. a # b /\ b # c /\ a # c
  BY CopiesDiffer
<1> HIDE DEF a, b, c
<1>2. /\ <<c>> \notin {<<a, c>>, <<a, b, c>>, <<b, c>>}
      /\ <<b, c>> \notin {<<a, c>>, <<a, b, c>>}
      /\ <<a, c>> \notin {<<a, b, c>>, <<b, c>>}
  BY <1>1
<1>3. /\ Head(<<a, c>>) = a /\ Tail(<<a, c>>) = <<c>>
      /\ Head(<<a, b, c>>) = a /\ Tail(<<a, b, c>>) = <<b, c>>
      /\ Head(<<b, c>>) = b /\ Tail(<<b, c>>) = <<c>>
      /\ Head(<<c>>) = c /\ Tail(<<c>>) = <<>>
      /\ <<>> \notin {<<c>>, <<a, c>>, <<b, c>>, <<a, b, c>>}
  BY Ends
<1>4. CanonicalLeft = {<<a, c>>, <<a, b, c>>} /\ BackupLeft = {<<a, b, c>>, <<b, c>>}
  BY DEF CanonicalLeft, BackupLeft, a, b, c
<1>5. ModeBLeft = CanonicalLeft \union BackupLeft \union {<<c>>}
  BY DEF ModeBLeft, c
<1>6. \A t \in CanonicalLeft : t = <<a, c>> \/ t = <<a, b, c>>
  BY <1>4
<1>7. \A t \in BackupLeft : t = <<b, c>> \/ t = <<a, b, c>>
  BY <1>4
<1>8. /\ <<a, b, c>> \in CanonicalLeft \cap BackupLeft
      /\ <<a, c>> \notin BackupLeft /\ <<b, c>> \notin CanonicalLeft
      /\ <<c>> \notin CanonicalLeft \union BackupLeft
      /\ <<c>> \in ModeBLeft /\ <<b, c>> \in ModeBLeft
  BY <1>2, <1>4, <1>5
<1>9. \A t \in CanonicalLeft :
         /\ Head(t) = a /\ Tail(t) \notin CanonicalLeft /\ Tail(t) \in ModeBLeft
         /\ Tail(t) \in BackupLeft => t \in BackupLeft
  BY <1>3, <1>6, <1>8
<1>10. \A t \in BackupLeft \ CanonicalLeft : Head(t) = b /\ Tail(t) = <<c>>
  BY <1>3, <1>7, <1>8
<1>11. <<>> \notin ModeBLeft
  BY <1>3, <1>4, <1>5
<1> QED
  BY <1>3, <1>5, <1>8, <1>9, <1>10, <1>11 DEF a, b, c

(* A copy goes from a name to a name. *)
LEMMA CopyTypes ==
    ASSUME NEW a \in Names \union {"build", "staging"}, NEW b \in Names \union {"stamp"}
    PROVE  Copying(a, b) \in Copy /\ Copying(a, b).from = a /\ Copying(a, b).to = b
  BY DEF Copying, Copy

(* So do those of the scripts. *)
LEMMA ScriptCopies ==
    /\ OriginalCopy \in Copy /\ StampCopy \in Copy /\ BootmgfwCopy \in Copy
    /\ CanonicalCopy \in Copy /\ BackupCopy \in Copy /\ Bootx64Copy \in Copy
    /\ ConfigCopy \in Copy /\ RestoreCopy \in Copy /\ FallbackCopy \in Copy
  BY CopyTypes DEF OriginalCopy, StampCopy, CanonicalCopy, BackupCopy, Bootx64Copy,
                   BootmgfwCopy, ConfigCopy, RestoreCopy, FallbackCopy, Names

(* A plan of at most three copies has the type of one. *)
LEMMA PlanTypes ==
    ASSUME NEW a \in Copy, NEW b \in Copy, NEW c \in Copy
    PROVE  /\ <<>> \in Seq(Copy) /\ <<a>> \in Seq(Copy)
           /\ <<a, b>> \in Seq(Copy) /\ <<a, b, c>> \in Seq(Copy)
           /\ Len(<<>>) =< 3 /\ Len(<<a>>) =< 3
           /\ Len(<<a, b>>) =< 3 /\ Len(<<a, b, c>>) =< 3
  OBVIOUS

(* Every plan of the scripts has. *)
LEMMA ScriptPlanTypes ==
    ASSUME NEW t \in OriginalLeft \union OriginalDone \union ModeBLeft
                       \union {<<BootmgfwCopy>>, <<ConfigCopy>>, <<RestoreCopy>>,
                               <<FallbackCopy>>}
    PROVE  t \in Seq(Copy) /\ Len(t) =< 3
<1>1. CASE t \in OriginalLeft \union OriginalDone
  BY <1>1, ScriptCopies, PlanTypes DEF OriginalLeft, OriginalDone
<1>2. CASE t \in ModeBLeft
  <2>1. \/ t = <<CanonicalCopy, Bootx64Copy>>
        \/ t = <<CanonicalCopy, BackupCopy, Bootx64Copy>>
        \/ t = <<BackupCopy, Bootx64Copy>> \/ t = <<Bootx64Copy>>
    BY <1>2 DEF ModeBLeft, CanonicalLeft, BackupLeft
  <2> QED
    BY <2>1, ScriptCopies, PlanTypes
<1>3. CASE t \in {<<BootmgfwCopy>>, <<ConfigCopy>>, <<RestoreCopy>>, <<FallbackCopy>>}
  BY <1>3, ScriptCopies, PlanTypes
<1> QED
  BY <1>1, <1>2, <1>3

(* What is found of a copy that was cut short: never the file it copies,   *)
(* nor one that passes for Windows if damage shows.                        *)
LEMMA PartialCopies ==
    ASSUME NEW f \in File, NEW g \in Partial(f)
    PROVE  /\ g \in File /\ g.image = f.image /\ g.version = f.version
           /\ g.state # "whole"
           /\ f.state = "torn" => g.state = "torn"
           /\ ~lookalikes /\ f.image = "windows" => g.state = "torn"
  BY DEF Partial, File, Images

(* One file is written, the others stay. *)
LEMMA Written ==
    ASSUME NEW n \in Names, NEW g \in File, file \in [Names -> File],
           file' = [file EXCEPT ![n] = g]
    PROVE  /\ file' \in [Names -> File]
           /\ file'[n] = g
           /\ \A k \in Names : k # n => file'[k] = file[k]
  OBVIOUS

(* The images the scripts and Windows put in place. *)
LEMMA ImageTypes ==
    /\ GpuCheck \in File /\ Sample \in File /\ Absent \in File
    /\ Stock \in File /\ Settings \in File
    /\ \A v \in Versions : Windows(v) \in File
  BY DEF File, Images, GpuCheck, Sample, Absent, Stock, Settings, Windows, Whole

(* What is read of a partition's files, or of the install's own.           *)
LEMMA Contents ==
    ASSUME file \in [Names -> File]
    PROVE  /\ Content("build") = GpuCheck /\ Content("staging") = Sample
           /\ \A n \in Names : Content(n) = file[n] /\ file[n] \in File
           /\ \A n \in Names \union {"build", "staging"} : Content(n) \in File
  BY ImageTypes DEF Content, Names

-----------------------------------------------------------------------------
(* ScriptInv *)

(* Which copy is next, and where. *)
LEMMA NextCopy ==
    ASSUME TypeOK, Plans, todo # <<>>
    PROVE  \/ /\ pc = "verifyBackup" /\ todo \in OriginalLeft
              /\ Head(todo) = OriginalCopy /\ Tail(todo) \in OriginalDone
           \/ /\ pc = "verifyBackup" /\ Head(todo) = StampCopy
              /\ \/ todo \in OriginalLeft /\ Tail(todo) \in OriginalLeft
                 \/ todo \in OriginalDone /\ Tail(todo) \in OriginalDone
           \/ pc = "modeB" /\ todo = <<BootmgfwCopy>>
           \/ pc = "config" /\ todo \in CanonicalLeft
           \/ pc = "config" /\ todo \in BackupLeft \ CanonicalLeft
           \/ pc = "config" /\ todo = <<Bootx64Copy>>
           \/ pc = "postVerify" /\ todo = <<ConfigCopy>>
           \/ pc = "removeOriginal" /\ todo = <<RestoreCopy>>
           \/ pc = "removeBackup" /\ todo = <<FallbackCopy>>
  BY OriginalPlans, ModeBPlans, Ends DEF Plans, TypeOK

(* The empty plan has the type of one. *)
LEMMA NoPlanTypes == <<>> \in Seq(Copy) /\ Len(<<>>) =< 3
  OBVIOUS

(* The initial partition. *)
LEMMA InitScript == Init => ScriptInv
<1> SUFFICES ASSUME Init PROVE ScriptInv
  OBVIOUS
<1>1. file \in [Names -> File]
  BY ImageTypes DEF Init
<1>2. deployed \in Versions \union {0}
  BY DEF Init, Absent, GpuCheck, Stock, Windows, Whole
<1>3. TypeOK
  BY <1>1, <1>2, NoPlanTypes DEF Init, TypeOK
<1>4. NoLookalikes
  BY DEF Init, NoLookalikes, Absent, GpuCheck, Stock, Windows, Whole
<1>5. FallbackBackup
  BY DEF Init, FallbackBackup, Absent, Whole, TestIsGpuCheckImage, Names
<1>6. RefusalTouchesNothing
  BY DEF Init, RefusalTouchesNothing
<1> QED
  BY <1>3, <1>4, <1>5, <1>6
  DEF Init, ScriptInv, Plans, Jobs, Untouched, Backed, FallbackSet, ConfigIsNew,
      Restorable, Restored

(* A script is started. *)
LEMMA StartScript == ScriptInv /\ Start => ScriptInv'
<1> SUFFICES ASSUME ScriptInv, Start PROVE ScriptInv'
  OBVIOUS
<1> USE DEF ScriptInv, Start, setting
<1>1. TypeOK'
  BY DEF TypeOK, Installs, Restores
<1>2. Plans' /\ Jobs'
  BY DEF TypeOK, Plans, Jobs, Installs, Restores
<1>3. Untouched' /\ NoLookalikes'
  BY DEF Untouched, NoLookalikes
<1>4. Backed' /\ FallbackSet' /\ FallbackBackup' /\ ConfigIsNew'
  BY DEF Backed, FallbackSet, FallbackBackup, ConfigIsNew, TestIsGpuCheckImage
<1>5. Restorable' /\ Restored'
  BY DEF Restorable, Restored
<1>6. RefusalTouchesNothing'
  BY DEF RefusalTouchesNothing
<1> QED
  BY <1>1, <1>2, <1>3, <1>4, <1>5, <1>6

(* A script that refuses before it has written anything. *)
LEMMA RefuseScript ==
    ScriptInv /\ pc \in {"inspect", "plan"} /\ Refuse => ScriptInv'
<1> SUFFICES ASSUME ScriptInv, pc \in {"inspect", "plan"}, Refuse PROVE ScriptInv'
  OBVIOUS
<1> USE DEF ScriptInv, Refuse, End, Go, setting
<1>1. TypeOK'
  BY NoPlanTypes DEF TypeOK, Plans
<1>2. Plans' /\ Jobs'
  BY DEF TypeOK, Plans, Jobs
<1>3. Untouched' /\ NoLookalikes'
  BY DEF Untouched, NoLookalikes
<1>4. Backed' /\ FallbackSet' /\ FallbackBackup' /\ ConfigIsNew'
  BY DEF Backed, FallbackSet, FallbackBackup, ConfigIsNew, TestIsGpuCheckImage
<1>5. Restorable' /\ Restored'
  BY DEF Restorable, Restored
<1>6. RefusalTouchesNothing'
  BY DEF RefusalTouchesNothing, Untouched
<1> QED
  BY <1>1, <1>2, <1>3, <1>4, <1>5, <1>6

(* Only Mode A begins with a backup. *)
LEMMA SkipModeAScript == ScriptInv /\ SkipModeA => ScriptInv'
<1> SUFFICES ASSUME ScriptInv, SkipModeA PROVE ScriptInv'
  OBVIOUS
<1> USE DEF ScriptInv, SkipModeA, At, Go, setting
<1>1. TypeOK'
  BY NoPlanTypes DEF TypeOK
<1>2. Plans' /\ Jobs'
  BY DEF TypeOK, Plans, Jobs
<1>3. Untouched' /\ NoLookalikes'
  BY DEF Untouched, NoLookalikes
<1>4. Backed' /\ FallbackSet' /\ FallbackBackup' /\ ConfigIsNew'
  BY DEF Backed, FallbackSet, FallbackBackup, ConfigIsNew, TestIsGpuCheckImage, ModeA
<1>5. Restorable' /\ Restored'
  BY DEF Restorable, Restored
<1>6. RefusalTouchesNothing'
  BY DEF RefusalTouchesNothing
<1> QED
  BY <1>1, <1>2, <1>3, <1>4, <1>5, <1>6

(* There is a genuine loader to back up, or a genuine backup already. *)
LEMMA BackUpScript == ScriptInv /\ BackUp => ScriptInv'
<1> SUFFICES ASSUME ScriptInv, BackUp PROVE ScriptInv'
  OBVIOUS
<1> USE DEF ScriptInv, BackUp, At, Go, setting
<1>1. todo' \in OriginalLeft \union OriginalDone
  BY DEF OriginalLeft, OriginalDone, OriginalCopy, StampCopy
<1>2. TypeOK'
  BY <1>1, ScriptPlanTypes DEF TypeOK
<1>3. Plans' /\ Jobs'
  BY <1>1 DEF Plans, Jobs, ModeA, TypeOK
<1>4. Untouched' /\ NoLookalikes'
  BY DEF Untouched, NoLookalikes
<1>5. Backed'
  BY OriginalPlans
  DEF Backed, Exists, TestIsWindowsBootManager, Unusable, OriginalLeft, OriginalDone
<1>6. FallbackSet' /\ FallbackBackup' /\ ConfigIsNew'
  BY DEF FallbackSet, FallbackBackup, ConfigIsNew, TestIsGpuCheckImage
<1>7. Restorable' /\ Restored'
  BY DEF Restorable, Restored
<1>8. RefusalTouchesNothing'
  BY DEF RefusalTouchesNothing
<1> QED
  BY <1>2, <1>3, <1>4, <1>5, <1>6, <1>7, <1>8

(* The backup is genuine, so that GpuCheck may take the loader's place. *)
LEMMA VerifyBackupScript == ScriptInv /\ VerifyBackup => ScriptInv'
<1> SUFFICES ASSUME ScriptInv, VerifyBackup PROVE ScriptInv'
  OBVIOUS
<1> USE DEF ScriptInv, At
<1>1. TestIsWindowsBootManager(file["original"])
  BY OriginalPlans DEF VerifyBackup, Backed
<1>2. /\ Go("modeB", <<BootmgfwCopy>>) /\ UNCHANGED <<file, outcome>>
      /\ pc = "verifyBackup" /\ todo = <<>>
  BY <1>1 DEF VerifyBackup, BootmgfwCopy
<1> USE DEF Go, setting
<1>3. TypeOK'
  BY <1>2, ScriptPlanTypes DEF TypeOK
<1>4. Plans' /\ Jobs'
  BY <1>2, Ends DEF Plans, Jobs, ModeA, TypeOK
<1>5. Untouched' /\ NoLookalikes'
  BY <1>2 DEF Untouched, NoLookalikes
<1>6. Backed'
  BY <1>1, <1>2, Ends DEF Backed, TestIsWindowsBootManager
<1>7. FallbackSet' /\ FallbackBackup' /\ ConfigIsNew'
  BY <1>2 DEF FallbackSet, FallbackBackup, ConfigIsNew, TestIsGpuCheckImage
<1>8. Restorable' /\ Restored'
  BY <1>2 DEF Restorable, Restored
<1>9. RefusalTouchesNothing'
  BY <1>2 DEF RefusalTouchesNothing
<1> QED
  BY <1>3, <1>4, <1>5, <1>6, <1>7, <1>8, <1>9

(* Mode B plans a backup of a BOOTX64.EFI that is not GpuCheck's, where    *)
(* there is none.                                                          *)
LEMMA InstallModeBScript == ScriptInv /\ InstallModeB => ScriptInv'
<1> SUFFICES ASSUME ScriptInv, InstallModeB PROVE ScriptInv'
  OBVIOUS
<1> USE DEF ScriptInv, InstallModeB, At, Go, setting
<1>1. todo' = IF ~ModeB THEN <<>>
              ELSE IF BackupWanted THEN <<CanonicalCopy, BackupCopy, Bootx64Copy>>
                   ELSE <<CanonicalCopy, Bootx64Copy>>
  BY DEF CanonicalCopy, BackupCopy, Bootx64Copy
<1>2. /\ todo' \in {<<>>} \union ModeBLeft
      /\ ModeB => todo' \in CanonicalLeft
      /\ ~ModeB => todo' = <<>>
      /\ todo' \in BackupLeft => BackupWanted
  <2>1. <<CanonicalCopy, Bootx64Copy>> \notin BackupLeft /\ <<>> \notin BackupLeft
    BY CopiesDiffer DEF BackupLeft
  <2> QED
    BY <1>1, <2>1, ModeBPlans DEF CanonicalLeft
<1>3. TypeOK'
  BY <1>2, NoPlanTypes, ScriptPlanTypes DEF TypeOK
<1>4. Plans' /\ Jobs'
  BY <1>2 DEF Plans, Jobs, ModeA, ModeB, TypeOK
<1>5. Untouched' /\ NoLookalikes'
  BY DEF Untouched, NoLookalikes
<1>6. Backed' /\ FallbackSet'
  BY <1>2, ModeBPlans DEF Backed, FallbackSet, TestIsWindowsBootManager, ModeA, ModeB
<1>7. FallbackBackup' /\ ConfigIsNew'
  BY <1>2 DEF FallbackBackup, ConfigIsNew, TestIsGpuCheckImage, BackupWanted, Exists,
              Stock, Whole
<1>8. Restorable' /\ Restored'
  BY DEF Restorable, Restored
<1>9. RefusalTouchesNothing'
  BY DEF RefusalTouchesNothing
<1> QED
  BY <1>3, <1>4, <1>5, <1>6, <1>7, <1>8, <1>9

(* The sample configuration is planned only where there is none. *)
LEMMA InstallConfigScript == ScriptInv /\ InstallConfig => ScriptInv'
<1> SUFFICES ASSUME ScriptInv, InstallConfig PROVE ScriptInv'
  OBVIOUS
<1> USE DEF ScriptInv, InstallConfig, At, Go, setting
<1>1. todo' \in {<<>>, <<ConfigCopy>>} /\ (todo' # <<>> => ~Exists(file["cfg"]))
  BY DEF ConfigCopy
<1>2. TypeOK'
  <2>1. todo' \in Seq(Copy) /\ Len(todo') =< 3
    BY <1>1, NoPlanTypes, ScriptPlanTypes
  <2> QED
    BY <2>1 DEF TypeOK
<1>3. Plans' /\ Jobs'
  BY <1>1 DEF Plans, Jobs, TypeOK
<1>4. Untouched' /\ NoLookalikes'
  BY DEF Untouched, NoLookalikes
<1>5. Backed' /\ FallbackSet'
  BY ModeBPlans DEF Backed, FallbackSet, TestIsWindowsBootManager, ModeA, ModeB
<1>6. FallbackBackup' /\ ConfigIsNew'
  BY <1>1 DEF FallbackBackup, ConfigIsNew, TestIsGpuCheckImage, Exists, Settings, Whole
<1>7. Restorable' /\ Restored'
  BY DEF Restorable, Restored
<1>8. RefusalTouchesNothing'
  BY DEF RefusalTouchesNothing
<1> QED
  BY <1>2, <1>3, <1>4, <1>5, <1>6, <1>7, <1>8

(* What was installed is there, so that the last look does not refuse. *)
LEMMA PostVerifyScript == ScriptInv /\ PostVerify => ScriptInv'
<1> SUFFICES ASSUME ScriptInv, PostVerify PROVE ScriptInv'
  OBVIOUS
<1> USE DEF ScriptInv, PostVerify, At
<1>1. Installed
  BY DEF Installed, Backed, FallbackSet, GpuCheck, Whole, TestIsGpuCheckImage
<1>2. Go("ended", <<>>) /\ outcome' = "complete" /\ UNCHANGED file /\ job \in Installs
  BY <1>1 DEF End, Jobs
<1> USE DEF Go, setting
<1>3. TypeOK'
  BY <1>2, NoPlanTypes DEF TypeOK
<1>4. Plans' /\ Jobs'
  BY <1>2 DEF Plans, Jobs, TypeOK
<1>5. Untouched' /\ NoLookalikes'
  BY <1>2 DEF Untouched, NoLookalikes
<1>6. Backed' /\ FallbackSet' /\ FallbackBackup' /\ ConfigIsNew'
  BY <1>2 DEF Backed, FallbackSet, FallbackBackup, ConfigIsNew, TestIsGpuCheckImage
<1>7. Restorable' /\ Restored'
  BY <1>2 DEF Restorable, Restored
<1>8. RefusalTouchesNothing'
  BY <1>2 DEF RefusalTouchesNothing
<1> QED
  BY <1>3, <1>4, <1>5, <1>6, <1>7, <1>8

(* A genuine original is to be put back, or there is none and no GpuCheck  *)
(* in the loader's place.                                                  *)
LEMMA RestoreModeAScript == ScriptInv /\ RestoreModeA => ScriptInv'
<1> SUFFICES ASSUME ScriptInv, RestoreModeA PROVE ScriptInv'
  OBVIOUS
<1> USE DEF ScriptInv, RestoreModeA, At, Go, setting
<1>1. /\ Exists(file["original"]) => todo' = <<RestoreCopy>>
      /\ ~Exists(file["original"]) => todo' = <<>>
  BY DEF RestoreCopy
<1>2. TypeOK'
  <2>1. todo' \in Seq(Copy) /\ Len(todo') =< 3
    BY <1>1, NoPlanTypes, ScriptPlanTypes
  <2> QED
    BY <2>1 DEF TypeOK
<1>3. Plans' /\ Jobs'
  BY <1>1 DEF Plans, Jobs, TypeOK
<1>4. Untouched' /\ NoLookalikes'
  BY DEF Untouched, NoLookalikes
<1>5. Backed' /\ FallbackSet' /\ FallbackBackup' /\ ConfigIsNew'
  BY DEF Backed, FallbackSet, FallbackBackup, ConfigIsNew, TestIsGpuCheckImage
<1>6. Restorable' /\ Restored'
  BY <1>1, Ends DEF Restorable, Restored, RestoreImpossible, Named,
                    TestIsWindowsBootManager, TestIsGpuCheckImage, Exists
<1>7. RefusalTouchesNothing'
  BY DEF RefusalTouchesNothing
<1> QED
  BY <1>2, <1>3, <1>4, <1>5, <1>6, <1>7

(* The original is back in its place, so that this does not refuse. *)
LEMMA RemoveOriginalScript == ScriptInv /\ RemoveOriginal => ScriptInv'
<1> SUFFICES ASSUME ScriptInv, RemoveOriginal PROVE ScriptInv'
  OBVIOUS
<1> USE DEF ScriptInv, At
<1>1. Exists(file["original"]) =>
         host = "binds" /\ TestIsWindowsBootManager(file["bootmgfw"])
  BY DEF RemoveOriginal, Restorable, TestIsWindowsBootManager
<1>2. /\ file' = [file EXCEPT !["original"] = Absent]
      /\ Go("restoreB", <<>>) /\ UNCHANGED outcome
      /\ pc = "removeOriginal" /\ todo = <<>>
  BY <1>1 DEF RemoveOriginal, Named
<1>3. /\ file' \in [Names -> File] /\ file'["original"] = Absent
      /\ \A k \in Names \ {"original"} : file'[k] = file[k]
  BY <1>2, ImageTypes, Written DEF TypeOK, Names
<1> USE DEF Go, setting
<1>4. TypeOK'
  BY <1>2, <1>3, NoPlanTypes DEF TypeOK
<1>5. Plans' /\ Jobs'
  BY <1>2 DEF Plans, Jobs, TypeOK
<1>6. Untouched' /\ NoLookalikes'
  BY <1>2, <1>3 DEF Untouched, NoLookalikes, Absent, Whole
<1>7. Backed' /\ FallbackSet' /\ FallbackBackup' /\ ConfigIsNew'
  BY <1>2, <1>3
  DEF Backed, FallbackSet, FallbackBackup, ConfigIsNew, TestIsGpuCheckImage, Names
<1>8. Restorable' /\ Restored'
  BY <1>1, <1>2, <1>3
  DEF Restorable, Restored, Exists, Absent, Whole
<1>9. RefusalTouchesNothing'
  BY <1>2 DEF RefusalTouchesNothing
<1> QED
  BY <1>4, <1>5, <1>6, <1>7, <1>8, <1>9

(* BOOTX64.EFI is not GpuCheck, or is deleted, or its backup is put back. *)
LEMMA RestoreModeBScript == ScriptInv /\ RestoreModeB => ScriptInv'
<1> SUFFICES ASSUME ScriptInv, RestoreModeB PROVE ScriptInv'
  OBVIOUS
<1> USE DEF ScriptInv, At
<1> DEFINE gone == file' = [file EXCEPT !["bootx64"] = Absent]
<1>1. /\ pc = "restoreB" /\ todo = <<>> /\ UNCHANGED outcome
      /\ \/ Go("removeDir", <<>>) /\ UNCHANGED file
         \/ Go("removeDir", <<>>) /\ gone
         \/ Go("removeBackup", <<FallbackCopy>>) /\ UNCHANGED file /\ host = "binds"
  BY DEF RestoreModeB, Named, FallbackCopy
<1>2. /\ file' \in [Names -> File]
      /\ \A k \in Names \ {"bootx64"} : file'[k] = file[k]
      /\ file'["bootx64"] = file["bootx64"] \/ file'["bootx64"] = Absent
      /\ \A n \in Names : file'[n] = Absent \/ file'[n] = file[n]
  <2>1. CASE UNCHANGED file
    BY <2>1 DEF TypeOK
  <2>2. CASE gone
    BY <2>2, ImageTypes, Written DEF TypeOK, Names
  <2> QED
    BY <1>1, <2>1, <2>2
<1> HIDE DEF gone
<1> USE DEF Go, setting
<1>3. /\ pc' \in {"removeDir", "removeBackup"}
      /\ pc' = "removeDir" => todo' = <<>>
      /\ pc' = "removeBackup" => todo' = <<FallbackCopy>> /\ host' = "binds"
      /\ UNCHANGED <<setting, stamps, job, writing, began, outcome>>
  BY <1>1
<1>4. TypeOK'
  <2>1. todo' \in Seq(Copy) /\ Len(todo') =< 3
    BY <1>3, NoPlanTypes, ScriptPlanTypes
  <2> QED
    BY <1>1, <1>2, <1>3, <2>1 DEF TypeOK
<1>5. Plans' /\ Jobs'
  BY <1>1, <1>3 DEF Plans, Jobs, TypeOK
<1>6. Untouched' /\ NoLookalikes'
  BY <1>2, <1>3 DEF Untouched, NoLookalikes, Absent, Whole
<1>7. Backed' /\ FallbackSet' /\ FallbackBackup' /\ ConfigIsNew'
  BY <1>2, <1>3, Ends
  DEF Backed, FallbackSet, FallbackBackup, ConfigIsNew, TestIsGpuCheckImage, Names
<1>8. Restorable' /\ Restored'
  BY <1>1, <1>2, <1>3 DEF Restorable, Restored, TestIsGpuCheckImage, Names, Exists
<1>9. RefusalTouchesNothing'
  BY <1>3 DEF RefusalTouchesNothing
<1> QED
  BY <1>4, <1>5, <1>6, <1>7, <1>8, <1>9

(* What was put back is not GpuCheck. *)
LEMMA RemoveBackupScript == ScriptInv /\ RemoveBackup => ScriptInv'
<1> SUFFICES ASSUME ScriptInv, RemoveBackup PROVE ScriptInv'
  OBVIOUS
<1> USE DEF ScriptInv, RemoveBackup, At, Go, setting
<1>1. /\ file' \in [Names -> File] /\ file'["bootx64Bak"] = Absent
      /\ \A k \in Names \ {"bootx64Bak"} : file'[k] = file[k]
  BY ImageTypes, Written DEF TypeOK, Names
<1>2. TypeOK'
  BY <1>1, NoPlanTypes DEF TypeOK
<1>3. Plans' /\ Jobs'
  BY DEF Plans, Jobs, TypeOK
<1>4. Untouched' /\ NoLookalikes'
  BY <1>1 DEF Untouched, NoLookalikes, Absent, Whole
<1>5. Backed' /\ FallbackSet' /\ FallbackBackup' /\ ConfigIsNew'
  BY <1>1 DEF Backed, FallbackSet, FallbackBackup, ConfigIsNew, TestIsGpuCheckImage,
              Names, Absent, Whole
<1>6. Restorable' /\ Restored'
  BY <1>1
  DEF Restorable, Restored, FallbackBackup, TestIsGpuCheckImage, Names, Exists
<1>7. RefusalTouchesNothing'
  BY DEF RefusalTouchesNothing
<1> QED
  BY <1>2, <1>3, <1>4, <1>5, <1>6, <1>7

(* The end of a restore. *)
LEMMA RemoveDirScript == ScriptInv /\ RemoveDir => ScriptInv'
<1> SUFFICES ASSUME ScriptInv, RemoveDir PROVE ScriptInv'
  OBVIOUS
<1> USE DEF ScriptInv, RemoveDir, At, End, Go, setting
<1>1. /\ file' \in [Names -> File]
      /\ \A k \in Names \ {"canonical", "cfg"} : file'[k] = file[k]
      /\ \A n \in Names : file'[n] = Absent \/ file'[n] = file[n]
  BY ImageTypes DEF TypeOK, Names
<1>2. TypeOK'
  BY <1>1, NoPlanTypes DEF TypeOK
<1>3. Plans' /\ Jobs'
  BY DEF Plans, Jobs, TypeOK
<1>4. Untouched' /\ NoLookalikes'
  BY <1>1 DEF Untouched, NoLookalikes, Absent, Whole
<1>5. Backed' /\ FallbackSet' /\ FallbackBackup' /\ ConfigIsNew'
  BY <1>1
  DEF Backed, FallbackSet, FallbackBackup, ConfigIsNew, TestIsGpuCheckImage, Names
<1>6. Restorable' /\ Restored'
  BY DEF Restorable, Restored
<1>7. RefusalTouchesNothing'
  BY <1>1 DEF RefusalTouchesNothing
<1> QED
  BY <1>2, <1>3, <1>4, <1>5, <1>6, <1>7

(* A copy has begun: what it overwrites is torn, or passes for what is     *)
(* being copied.                                                           *)
LEMMA BeginIs ==
    ASSUME NEW from \in Names \union {"build", "staging"}, NEW to \in Names,
           file \in [Names -> File], CopyBegins, Head(todo) = Copying(from, to)
    PROVE  \E g \in Partial(Content(from)) : file' = [file EXCEPT ![to] = g]
<1>1. Head(todo).from = from /\ Head(todo).to = to /\ to # "stamp"
  BY CopyTypes DEF Names
<1> QED
  BY <1>1 DEF CopyBegins

(* A copy is over: both files are the same. *)
LEMMA VerifiedIs ==
    ASSUME NEW from \in Names \union {"build", "staging"}, NEW to \in Names,
           CopyVerified, Head(todo) = Copying(from, to)
    PROVE  file' = [file EXCEPT ![to] = Content(from)] /\ UNCHANGED stamps
<1>1. Head(todo).from = from /\ Head(todo).to = to /\ to # "stamp"
  BY CopyTypes DEF Names
<1> QED
  BY <1>1 DEF CopyVerified

(* The copy to a stamped backup changes none of the files. *)
LEMMA StampIs ==
    ASSUME Head(todo) = StampCopy
    PROVE  /\ CopyBegins => UNCHANGED file
           /\ CopyVerified => UNCHANGED file /\ stamps' \in SUBSET (stamps \union Versions)
<1>1. Head(todo).to = "stamp"
  BY CopyTypes DEF StampCopy, Names
<1> QED
  BY <1>1 DEF CopyBegins, CopyVerified

(* What a script relies on. *)
Relied == Backed /\ FallbackSet /\ FallbackBackup /\ ConfigIsNew /\ Restorable /\ Restored

(* A copy in progress keeps what the script relies on: it overwrites       *)
(* nothing that is still to be read.                                       *)
LEMMA BeginKeeps == ScriptInv /\ CopyBegins => Relied'
<1> SUFFICES ASSUME ScriptInv, CopyBegins PROVE Relied'
  OBVIOUS
<1> USE DEF ScriptInv
<1>0. /\ todo # <<>> /\ UNCHANGED <<host, lookalikes, stamps, job, pc, todo, began, outcome>>
      /\ file \in [Names -> File]
  BY DEF CopyBegins, TypeOK
<1>1. ASSUME NEW from \in Names \union {"build", "staging"}, NEW to \in Names,
             Head(todo) = Copying(from, to)
      PROVE  \E g \in File :
                /\ file'[to] = g /\ g.image = Content(from).image /\ g.state # "whole"
                /\ Content(from).state = "torn" => g.state = "torn"
                /\ file' \in [Names -> File]
                /\ \A n \in Names \ {to} : file'[n] = file[n]
  <2>1. PICK g \in Partial(Content(from)) : file' = [file EXCEPT ![to] = g]
    BY <1>0, <1>1, BeginIs
  <2>2. /\ g \in File /\ g.image = Content(from).image /\ g.state # "whole"
        /\ Content(from).state = "torn" => g.state = "torn"
    BY <1>0, Contents, PartialCopies
  <2> QED
    BY <1>0, <2>1, <2>2, Written
<1> USE DEF Relied
<1>2. CASE Head(todo) = OriginalCopy /\ pc = "verifyBackup" /\ todo \in OriginalLeft
  <2>1. \A n \in Names \ {"original"} : file'[n] = file[n]
    BY <1>1, <1>2 DEF OriginalCopy, Names
  <2> QED
    BY <1>0, <1>2, <2>1, OriginalPlans
    DEF Backed, FallbackSet, FallbackBackup, ConfigIsNew, Restorable, Restored,
        Names, TestIsGpuCheckImage, TestIsWindowsBootManager, ModeA, ModeB
<1>3. CASE Head(todo) = StampCopy /\ pc = "verifyBackup"
  BY <1>0, <1>3, StampIs
  DEF Backed, FallbackSet, FallbackBackup, ConfigIsNew, Restorable, Restored,
      TestIsGpuCheckImage, TestIsWindowsBootManager
<1>4. CASE todo = <<BootmgfwCopy>> /\ pc = "modeB"
  <2>1. \A n \in Names \ {"bootmgfw"} : file'[n] = file[n]
    BY <1>1, <1>4, Ends DEF BootmgfwCopy, Names
  <2> QED
    BY <1>0, <1>4, <2>1, Ends
    DEF Backed, FallbackSet, FallbackBackup, ConfigIsNew, Restorable, Restored,
        Names, TestIsGpuCheckImage, TestIsWindowsBootManager, ModeA, ModeB
<1>5. CASE pc = "config" /\ todo \in CanonicalLeft
  <2>1. \A n \in Names \ {"canonical"} : file'[n] = file[n]
    BY <1>1, <1>5, ModeBPlans DEF CanonicalCopy, Names
  <2> QED
    BY <1>0, <1>5, <2>1, ModeBPlans
    DEF Backed, FallbackSet, FallbackBackup, ConfigIsNew, Restorable, Restored,
        Names, TestIsGpuCheckImage, TestIsWindowsBootManager, ModeA, ModeB
<1>6. CASE pc = "config" /\ todo \in BackupLeft \ CanonicalLeft
  <2>1. /\ \A n \in Names \ {"bootx64Bak"} : file'[n] = file[n]
        /\ file'["bootx64Bak"].image = file["bootx64"].image
        /\ file'["bootx64Bak"].state # "whole"
        /\ file["bootx64"].state = "torn" => file'["bootx64Bak"].state = "torn"
        /\ file["bootx64"] \in File
    BY <1>0, <1>1, <1>6, ModeBPlans, Contents DEF BackupCopy, Names
  <2>2. ~TestIsGpuCheckImage(file'["bootx64Bak"]) /\ file'["bootx64Bak"] # Stock
    BY <1>6, <2>1 DEF FallbackBackup, TestIsGpuCheckImage, Stock, Whole
  <2> QED
    BY <1>0, <1>6, <2>1, <2>2, ModeBPlans
    DEF Backed, FallbackSet, FallbackBackup, ConfigIsNew, Restorable, Restored,
        Names, TestIsGpuCheckImage, TestIsWindowsBootManager, ModeA, ModeB
<1>7. CASE pc = "config" /\ todo = <<Bootx64Copy>>
  <2>1. \A n \in Names \ {"bootx64"} : file'[n] = file[n]
    BY <1>1, <1>7, ModeBPlans DEF Bootx64Copy, Names
  <2> QED
    BY <1>0, <1>7, <2>1, ModeBPlans
    DEF Backed, FallbackSet, FallbackBackup, ConfigIsNew, Restorable, Restored,
        Names, TestIsGpuCheckImage, TestIsWindowsBootManager, ModeA, ModeB
<1>8. CASE pc = "postVerify" /\ todo = <<ConfigCopy>>
  <2>1. \A n \in Names \ {"cfg"} : file'[n] = file[n]
    BY <1>1, <1>8, Ends DEF ConfigCopy, Names
  <2>2. file'["cfg"].state # "whole"
    BY <1>1, <1>8, Ends DEF ConfigCopy, Names
  <2> QED
    BY <1>0, <1>8, <2>1, <2>2
    DEF Backed, FallbackSet, FallbackBackup, ConfigIsNew, Restorable, Restored,
        Names, TestIsGpuCheckImage, TestIsWindowsBootManager, ModeA, ModeB, Settings, Whole
<1>9. CASE pc = "removeOriginal" /\ todo = <<RestoreCopy>>
  <2>1. \A n \in Names \ {"bootmgfw"} : file'[n] = file[n]
    BY <1>1, <1>9, Ends DEF RestoreCopy, Names
  <2> QED
    BY <1>0, <1>9, <2>1, Ends
    DEF Backed, FallbackSet, FallbackBackup, ConfigIsNew, Restorable, Restored,
        Names, TestIsGpuCheckImage, TestIsWindowsBootManager, ModeA, ModeB, Exists
<1>10. CASE pc = "removeBackup" /\ todo = <<FallbackCopy>>
  <2>1. \A n \in Names \ {"bootx64"} : file'[n] = file[n]
    BY <1>1, <1>10, Ends DEF FallbackCopy, Names
  <2> QED
    BY <1>0, <1>10, <2>1, Ends
    DEF Backed, FallbackSet, FallbackBackup, ConfigIsNew, Restorable, Restored,
        Names, TestIsGpuCheckImage, TestIsWindowsBootManager, ModeA, ModeB, Exists
<1> QED
  BY <1>0, <1>2, <1>3, <1>4, <1>5, <1>6, <1>7, <1>8, <1>9, <1>10, NextCopy

(* A copy that is over is what the script relies on from then on. *)
LEMMA VerifiedKeeps == ScriptInv /\ CopyVerified => Relied'
<1> SUFFICES ASSUME ScriptInv, CopyVerified PROVE Relied'
  OBVIOUS
<1> USE DEF ScriptInv
<1>0. /\ todo # <<>> /\ todo' = Tail(todo)
      /\ UNCHANGED <<host, lookalikes, job, pc, began, outcome>>
      /\ file \in [Names -> File]
  BY DEF CopyVerified, TypeOK, setting
<1>1. ASSUME NEW from \in Names \union {"build", "staging"}, NEW to \in Names,
             Head(todo) = Copying(from, to)
      PROVE  /\ file'[to] = Content(from)
             /\ \A n \in Names \ {to} : file'[n] = file[n]
  <2>1. file' = [file EXCEPT ![to] = Content(from)]
    BY <1>1, VerifiedIs
  <2> QED
    BY <1>0, <2>1, Contents, Written
<1> USE DEF Relied
<1>2. CASE Head(todo) = OriginalCopy /\ pc = "verifyBackup" /\ todo \in OriginalLeft
                /\ Tail(todo) \in OriginalDone
  <2>1. /\ \A n \in Names \ {"original"} : file'[n] = file[n]
        /\ file'["original"] = file["bootmgfw"]
    BY <1>0, <1>1, <1>2, Contents DEF OriginalCopy, Names
  <2> QED
    BY <1>0, <1>2, <2>1, OriginalPlans
    DEF Backed, FallbackSet, FallbackBackup, ConfigIsNew, Restorable, Restored,
        Names, TestIsGpuCheckImage, TestIsWindowsBootManager, ModeA, ModeB
<1>3. CASE /\ Head(todo) = StampCopy /\ pc = "verifyBackup"
           /\ \/ todo \in OriginalLeft /\ Tail(todo) \in OriginalLeft
              \/ todo \in OriginalDone /\ Tail(todo) \in OriginalDone
  BY <1>0, <1>3, StampIs, OriginalPlans
  DEF Backed, FallbackSet, FallbackBackup, ConfigIsNew, Restorable, Restored,
      TestIsGpuCheckImage, TestIsWindowsBootManager, ModeA, ModeB
<1>4. CASE todo = <<BootmgfwCopy>> /\ pc = "modeB"
  <2>1. /\ \A n \in Names \ {"bootmgfw"} : file'[n] = file[n]
        /\ file'["bootmgfw"] = GpuCheck
    BY <1>0, <1>1, <1>4, Ends, Contents DEF BootmgfwCopy, Names
  <2> QED
    BY <1>0, <1>4, <2>1, Ends
    DEF Backed, FallbackSet, FallbackBackup, ConfigIsNew, Restorable, Restored,
        Names, TestIsGpuCheckImage, TestIsWindowsBootManager, ModeA, ModeB
<1>5. CASE pc = "config" /\ todo \in CanonicalLeft
  <2>1. /\ \A n \in Names \ {"canonical"} : file'[n] = file[n]
        /\ file'["canonical"] = GpuCheck
    BY <1>0, <1>1, <1>5, ModeBPlans, Contents DEF CanonicalCopy, Names
  <2> QED
    BY <1>0, <1>5, <2>1, ModeBPlans
    DEF Backed, FallbackSet, FallbackBackup, ConfigIsNew, Restorable, Restored,
        Names, TestIsGpuCheckImage, TestIsWindowsBootManager, ModeA, ModeB
<1>6. CASE pc = "config" /\ todo \in BackupLeft \ CanonicalLeft
  <2>1. /\ \A n \in Names \ {"bootx64Bak"} : file'[n] = file[n]
        /\ file'["bootx64Bak"] = file["bootx64"]
    BY <1>0, <1>1, <1>6, ModeBPlans, Contents DEF BackupCopy, Names
  <2>2. todo' = <<Bootx64Copy>>
    BY <1>0, <1>6, ModeBPlans
  <2>3. ~TestIsGpuCheckImage(file'["bootx64Bak"])
    BY <1>6, <2>1 DEF FallbackBackup, TestIsGpuCheckImage
  <2> QED
    BY <1>0, <1>6, <2>1, <2>2, <2>3, ModeBPlans, Ends
    DEF Backed, FallbackSet, FallbackBackup, ConfigIsNew, Restorable, Restored,
        Names, TestIsGpuCheckImage, TestIsWindowsBootManager, ModeA, ModeB
<1>7. CASE pc = "config" /\ todo = <<Bootx64Copy>>
  <2>1. /\ \A n \in Names \ {"bootx64"} : file'[n] = file[n]
        /\ file'["bootx64"] = GpuCheck
    BY <1>0, <1>1, <1>7, ModeBPlans, Contents DEF Bootx64Copy, Names
  <2> QED
    BY <1>0, <1>7, <2>1, ModeBPlans
    DEF Backed, FallbackSet, FallbackBackup, ConfigIsNew, Restorable, Restored,
        Names, TestIsGpuCheckImage, TestIsWindowsBootManager, ModeA, ModeB
<1>8. CASE pc = "postVerify" /\ todo = <<ConfigCopy>>
  <2>1. \A n \in Names \ {"cfg"} : file'[n] = file[n]
    BY <1>0, <1>1, <1>8, Ends DEF ConfigCopy, Names
  <2> QED
    BY <1>0, <1>8, <2>1, Ends
    DEF Backed, FallbackSet, FallbackBackup, ConfigIsNew, Restorable, Restored,
        Names, TestIsGpuCheckImage, TestIsWindowsBootManager, ModeA, ModeB
<1>9. CASE pc = "removeOriginal" /\ todo = <<RestoreCopy>>
  <2>1. /\ \A n \in Names \ {"bootmgfw"} : file'[n] = file[n]
        /\ file'["bootmgfw"] = file["original"]
    BY <1>0, <1>1, <1>9, Ends, Contents DEF RestoreCopy, Names
  <2> QED
    BY <1>0, <1>9, <2>1, Ends
    DEF Backed, FallbackSet, FallbackBackup, ConfigIsNew, Restorable, Restored,
        Names, TestIsGpuCheckImage, TestIsWindowsBootManager, Exists
<1>10. CASE pc = "removeBackup" /\ todo = <<FallbackCopy>>
  <2>1. /\ \A n \in Names \ {"bootx64"} : file'[n] = file[n]
        /\ file'["bootx64"] = file["bootx64Bak"]
    BY <1>0, <1>1, <1>10, Ends, Contents DEF FallbackCopy, Names
  <2> QED
    BY <1>0, <1>10, <2>1, Ends
    DEF Backed, FallbackSet, FallbackBackup, ConfigIsNew, Restorable, Restored,
        Names, TestIsGpuCheckImage, TestIsWindowsBootManager, Exists
<1> QED
  BY <1>0, <1>2, <1>3, <1>4, <1>5, <1>6, <1>7, <1>8, <1>9, <1>10, NextCopy

(* Any copy is from a name to a name. *)
LEMMA SomeCopy ==
    ASSUME TypeOK, Plans, todo # <<>>
    PROVE  \/ Head(todo) = StampCopy
           \/ \E from \in Names \union {"build", "staging"}, to \in Names :
                 Head(todo) = Copying(from, to)
  BY NextCopy, Ends, ModeBPlans
  DEF OriginalCopy, BootmgfwCopy, CanonicalCopy, BackupCopy, Bootx64Copy, ConfigCopy,
      RestoreCopy, FallbackCopy, Names

(* What is left after a copy. *)
LEMMA AfterCopy ==
    ASSUME TypeOK, Plans, todo # <<>>
    PROVE  \/ pc = "verifyBackup" /\ Tail(todo) \in OriginalLeft \union OriginalDone
           \/ pc = "config" /\ Tail(todo) \in {<<>>} \union ModeBLeft
           \/ /\ pc \in {"modeB", "postVerify", "removeOriginal", "removeBackup"}
              /\ Tail(todo) = <<>>
<1>1. CASE pc = "verifyBackup"
  BY <1>1, OriginalPlans DEF Plans
<1>2. CASE pc = "config"
  <2>1. \/ todo \in CanonicalLeft \/ todo \in BackupLeft \ CanonicalLeft
        \/ todo = <<Bootx64Copy>>
    BY <1>2, ModeBPlans DEF Plans
  <2>2. <<Bootx64Copy>> \in ModeBLeft
    BY DEF ModeBLeft
  <2> QED
    BY <1>2, <2>1, <2>2, ModeBPlans
<1>3. CASE pc \notin {"verifyBackup", "config"}
  BY <1>3, Ends DEF Plans, TypeOK
<1> QED
  BY <1>1, <1>2, <1>3

(* A copy that begins. *)
LEMMA CopyBeginsScript == ScriptInv /\ CopyBegins => ScriptInv'
<1> SUFFICES ASSUME ScriptInv, CopyBegins PROVE ScriptInv'
  OBVIOUS
<1> USE DEF ScriptInv
<1>1. /\ todo # <<>> /\ writing' = TRUE
      /\ UNCHANGED <<host, lookalikes, stamps, job, pc, todo, began, outcome>>
      /\ pc \notin {"idle", "inspect", "plan", "restoreB", "removeDir", "ended"}
  BY DEF CopyBegins, Plans
<1>2. /\ file' \in [Names -> File]
      /\ NoLookalikes'
  <2>1. CASE Head(todo) = StampCopy
    BY <1>1, <2>1, StampIs DEF TypeOK, NoLookalikes
  <2>2. ASSUME NEW from \in Names \union {"build", "staging"}, NEW to \in Names,
               Head(todo) = Copying(from, to)
        PROVE  file' \in [Names -> File] /\ NoLookalikes'
    <3>1. PICK g \in Partial(Content(from)) : file' = [file EXCEPT ![to] = g]
      BY <2>2, BeginIs DEF TypeOK
    <3>2. /\ g \in File
          /\ ~lookalikes /\ g.image = "windows" => g.state # "lookalike"
      BY Contents, PartialCopies DEF TypeOK
    <3> QED
      BY <1>1, <3>1, <3>2, Written DEF TypeOK, NoLookalikes
  <2> QED
    BY <1>1, <2>1, <2>2, SomeCopy
<1>3. deployed' \in Versions \union {0}
  BY DEF CopyBegins, TypeOK, File, Names
<1>4. TypeOK'
  BY <1>1, <1>2, <1>3 DEF TypeOK
<1>5. Plans' /\ Jobs'
  BY <1>1 DEF Plans, Jobs, ModeA, ModeB
<1>6. Untouched' /\ RefusalTouchesNothing'
  BY <1>1 DEF Untouched, RefusalTouchesNothing
<1> QED
  BY <1>2, <1>4, <1>5, <1>6, BeginKeeps DEF Relied

(* A copy that is over. *)
LEMMA CopyVerifiedScript == ScriptInv /\ CopyVerified => ScriptInv'
<1> SUFFICES ASSUME ScriptInv, CopyVerified PROVE ScriptInv'
  OBVIOUS
<1> USE DEF ScriptInv
<1>1. /\ todo # <<>> /\ writing' = FALSE /\ todo' = Tail(todo)
      /\ UNCHANGED <<host, lookalikes, deployed, job, pc, began, outcome>>
      /\ pc \notin {"idle", "inspect", "plan", "restoreB", "removeDir", "ended"}
  BY DEF CopyVerified, Plans, TypeOK, setting
<1>2. file' \in [Names -> File] /\ stamps' \subseteq Versions /\ NoLookalikes'
  <2>1. CASE Head(todo) = StampCopy
    BY <1>1, <2>1, StampIs DEF TypeOK, NoLookalikes
  <2>2. ASSUME NEW from \in Names \union {"build", "staging"}, NEW to \in Names,
               Head(todo) = Copying(from, to)
        PROVE  /\ file' \in [Names -> File] /\ stamps' \subseteq Versions
               /\ NoLookalikes'
    <3>1. file' = [file EXCEPT ![to] = Content(from)] /\ UNCHANGED stamps
      BY <2>2, VerifiedIs
    <3>2. /\ Content(from) \in File
          /\ ~lookalikes /\ Content(from).image = "windows" =>
                Content(from).state # "lookalike"
      BY Contents DEF TypeOK, NoLookalikes, GpuCheck, Sample, Whole
    <3> QED
      BY <1>1, <3>1, <3>2, Written DEF TypeOK, NoLookalikes
  <2> QED
    BY <1>1, <2>1, <2>2, SomeCopy
<1>3. Plans'
  BY <1>1, AfterCopy DEF Plans
<1>4. TypeOK'
  <2>1. todo' \in Seq(Copy) /\ Len(todo') =< 3
    BY <1>1, AfterCopy, NoPlanTypes, ScriptPlanTypes
  <2> QED
    BY <1>1, <1>2, <2>1 DEF TypeOK
<1>5. Jobs'
  BY <1>1 DEF Jobs, ModeA, ModeB
<1>6. Untouched' /\ RefusalTouchesNothing'
  BY <1>1 DEF Untouched, RefusalTouchesNothing
<1> QED
  BY <1>2, <1>3, <1>4, <1>5, <1>6, VerifiedKeeps DEF Relied

(* An interruption leaves the files as they are, and no script to rely on  *)
(* them.                                                                   *)
LEMMA InterruptedScript == ScriptInv /\ (Interrupted \/ Dismount) => ScriptInv'
<1> SUFFICES ASSUME ScriptInv, Interrupted \/ Dismount PROVE ScriptInv'
  OBVIOUS
<1> USE DEF ScriptInv
<1>1. /\ pc' = "idle" /\ job' = "none" /\ todo' = <<>> /\ writing' = FALSE
      /\ began' = file /\ outcome' \in {"none", outcome}
      /\ UNCHANGED <<setting, file, stamps>>
  BY DEF Interrupted, Dismount, Plans, TypeOK
<1>2. TypeOK'
  BY <1>1, NoPlanTypes DEF TypeOK, setting
<1>3. NoLookalikes' /\ FallbackBackup'
  BY <1>1 DEF NoLookalikes, FallbackBackup, TestIsGpuCheckImage, setting
<1>4. RefusalTouchesNothing'
  BY <1>1 DEF RefusalTouchesNothing
<1> QED
  BY <1>1, <1>2, <1>3, <1>4
  DEF Plans, Jobs, Untouched, Backed, FallbackSet, ConfigIsNew, Restorable, Restored

(* Windows puts its own files back, or the operator writes a               *)
(* configuration, while no script runs.                                    *)
LEMMA OutsideScript == ScriptInv /\ (Service \/ Configure) => ScriptInv'
<1> SUFFICES ASSUME ScriptInv, Service \/ Configure PROVE ScriptInv'
  OBVIOUS
<1> USE DEF ScriptInv
<1>1. /\ pc = "idle" /\ began' = file'
      /\ UNCHANGED <<host, lookalikes, stamps, job, pc, todo, writing, outcome>>
  BY DEF Service, Configure, setting
<1>2. /\ file' \in [Names -> File]
      /\ \A n \in Names : \/ file'[n] = file[n]
                          \/ file'[n].state = "whole" /\ n # "bootx64Bak"
      /\ deployed' \in Versions \union {0}
  <2>1. CASE Service
    <3>1. PICK v \in Versions, b \in {file["bootx64"], Stock} :
             /\ file' = [file EXCEPT !["bootmgfw"] = Windows(v), !["bootx64"] = b]
             /\ deployed' = v
      BY <2>1 DEF Service
    <3>2. Windows(v) \in File /\ b \in File /\ file \in [Names -> File]
      BY ImageTypes DEF TypeOK, Names
    <3>3. /\ Windows(v).state = "whole"
          /\ b = file["bootx64"] \/ b.state = "whole"
      BY DEF Windows, Stock, Whole
    <3> QED
      BY <3>1, <3>2, <3>3 DEF Names
  <2>2. CASE Configure
    <3>1. file' = [file EXCEPT !["cfg"] = Settings] /\ file \in [Names -> File]
      BY <2>2 DEF Configure, TypeOK
    <3> QED
      BY <2>2, <3>1, ImageTypes, Written
      DEF Configure, setting, TypeOK, Names, Settings, Whole
  <2> QED
    BY <2>1, <2>2
<1>3. TypeOK'
  BY <1>1, <1>2 DEF TypeOK
<1>4. NoLookalikes' /\ FallbackBackup'
  BY <1>1, <1>2 DEF NoLookalikes, FallbackBackup, TestIsGpuCheckImage, Names
<1>5. Plans' /\ Jobs'
  BY <1>1 DEF Plans, Jobs
<1>6. RefusalTouchesNothing'
  BY <1>1 DEF RefusalTouchesNothing
<1> QED
  BY <1>1, <1>3, <1>4, <1>5, <1>6
  DEF Untouched, Backed, FallbackSet, ConfigIsNew, Restorable, Restored

(* No step breaks it. *)
LEMMA ScriptStep == ScriptInv /\ [Next]_vars => ScriptInv'
<1> SUFFICES ASSUME ScriptInv, [Next]_vars PROVE ScriptInv'
  OBVIOUS
<1>1. CASE Start
  BY <1>1, StartScript
<1>2. CASE CopyBegins
  BY <1>2, CopyBeginsScript
<1>3. CASE CopyVerified
  BY <1>3, CopyVerifiedScript
<1>4. CASE Install
  <2>1. CASE InstallRefuses
    BY <2>1, RefuseScript DEF InstallRefuses, At
  <2> QED
    BY <1>4, <2>1, SkipModeAScript, BackUpScript, VerifyBackupScript,
       InstallModeBScript, InstallConfigScript, PostVerifyScript DEF Install
<1>5. CASE Restore
  <2>1. CASE RestoreRefuses
    BY <2>1, RefuseScript DEF RestoreRefuses, At
  <2> QED
    BY <1>5, <2>1, RestoreModeAScript, RemoveOriginalScript, RestoreModeBScript,
       RemoveBackupScript, RemoveDirScript DEF Restore
<1>6. CASE Interrupted \/ Dismount
  BY <1>6, InterruptedScript
<1>7. CASE Service \/ Configure
  BY <1>7, OutsideScript
<1>8. CASE UNCHANGED vars
  <2> USE <1>8 DEF vars, ScriptInv
  <2>1. TypeOK' /\ Plans' /\ Jobs' /\ Untouched' /\ NoLookalikes'
    BY DEF TypeOK, Plans, Jobs, ModeA, ModeB, Untouched, NoLookalikes
  <2>2. Backed' /\ FallbackSet' /\ FallbackBackup' /\ ConfigIsNew'
    BY DEF Backed, FallbackSet, FallbackBackup, ConfigIsNew, ModeA, ModeB,
           TestIsGpuCheckImage, TestIsWindowsBootManager
  <2>3. Restorable' /\ Restored' /\ RefusalTouchesNothing'
    BY DEF Restorable, Restored, RefusalTouchesNothing,
           TestIsGpuCheckImage, TestIsWindowsBootManager, Exists
  <2> QED
    BY <2>1, <2>2, <2>3
<1> QED
  BY <1>1, <1>2, <1>3, <1>4, <1>5, <1>6, <1>7, <1>8 DEF Next

(* It holds in every state that is ever reached. *)
LEMMA ScriptAlways == Spec => []ScriptInv
<1> QED
  BY InitScript, ScriptStep, PTL DEF Spec

-----------------------------------------------------------------------------
(* LoaderInv *)

(* Nothing that LoaderInv speaks of changes, and no copy of a loader is    *)
(* planned.                                                                *)
LEMMA LoaderFrame ==
    ASSUME LoaderInv, UNCHANGED <<host, lookalikes, deployed>>,
           file'["bootmgfw"] = file["bootmgfw"], file'["original"] = file["original"],
           pc' \notin {"verifyBackup", "removeOriginal"}, pc' = "modeB" => todo' = <<>>
    PROVE  LoaderInv'
  BY DEF LoaderInv, Trustworthy, TestIsWindowsBootManager, Deployed

(* The loader that Windows deployed passes for Windows. *)
LEMMA DeployedIsWindows ==
    /\ TestIsWindowsBootManager(Deployed) /\ IsWindows(Deployed)
    /\ Deployed # GpuCheck /\ Deployed # Absent
  BY DEF Deployed, TestIsWindowsBootManager, IsWindows, Windows, Whole, GpuCheck, Absent

(* The initial partition. *)
LEMMA InitLoader == Init => LoaderInv
<1> SUFFICES ASSUME Init PROVE LoaderInv
  OBVIOUS
<1>1. PICK m \in {Absent, GpuCheck, Stock} \union {Windows(v) : v \in Versions} :
         file["bootmgfw"] = m /\ deployed = m.version
  BY DEF Init, Names
<1>2. \/ m.image # "windows" /\ deployed = 0
      \/ m = Windows(deployed)
  BY <1>1 DEF Absent, GpuCheck, Stock, Windows, Whole
<1> QED
  BY <1>1, <1>2 DEF Init, LoaderInv, TestIsWindowsBootManager, Deployed

(* The steps that leave both loaders and their copies alone. *)
LEMMA OtherLoader ==
    ASSUME ScriptInv, LoaderInv,
           \/ Start \/ InstallRefuses \/ SkipModeA \/ InstallModeB \/ InstallConfig
           \/ PostVerify \/ RestoreRefuses \/ RestoreModeB \/ RemoveBackup \/ RemoveDir
           \/ Dismount \/ Interrupted \/ Configure
    PROVE  LoaderInv'
<1>1. UNCHANGED <<host, lookalikes, deployed>>
  BY DEF Start, InstallRefuses, Refuse, SkipModeA, InstallModeB, InstallConfig, PostVerify,
         RestoreRefuses, RestoreModeB, RemoveBackup, RemoveDir, Dismount, Interrupted,
         Configure, End, Go, setting
<1>2. /\ pc' \notin {"verifyBackup", "removeOriginal"}
      /\ pc' = "modeB" => todo' = <<>>
  BY DEF Start, InstallRefuses, Refuse, SkipModeA, InstallModeB, InstallConfig, PostVerify,
         RestoreRefuses, RestoreModeB, RemoveBackup, RemoveDir, Dismount, Interrupted,
         Configure, End, Go
<1>3. file'["bootmgfw"] = file["bootmgfw"] /\ file'["original"] = file["original"]
  <2>1. file \in [Names -> File]
    BY DEF ScriptInv, TypeOK
  <2> QED
    BY <2>1
    DEF Start, InstallRefuses, Refuse, SkipModeA, InstallModeB, InstallConfig, PostVerify,
        RestoreRefuses, RestoreModeB, RemoveBackup, RemoveDir, Dismount, Interrupted,
        Configure, End, Names
<1> QED
  BY <1>1, <1>2, <1>3, LoaderFrame

(* Windows deploys a loader. *)
LEMMA ServiceLoader == ScriptInv /\ Service => LoaderInv'
<1> SUFFICES ASSUME ScriptInv, Service PROVE LoaderInv'
  OBVIOUS
<1>1. file'["bootmgfw"] = Windows(deployed') /\ pc' = "idle"
  BY DEF ScriptInv, TypeOK, Service, Names
<1> QED
  BY <1>1 DEF LoaderInv, Deployed

(* Where no backup is made, the loader is not Windows, so that its backup  *)
(* is of the deployed one.                                                 *)
LEMMA BackUpLoader == ScriptInv /\ LoaderInv /\ BackUp => LoaderInv'
<1> SUFFICES ASSUME ScriptInv, LoaderInv, BackUp PROVE LoaderInv'
  OBVIOUS
<1>1. UNCHANGED <<host, lookalikes, deployed, file>> /\ pc' = "verifyBackup"
  BY DEF BackUp, Go, setting
<1>2. \/ todo' \in OriginalLeft
      \/ Exists(file["original"]) /\ ~TestIsWindowsBootManager(file["bootmgfw"])
  BY DEF BackUp, Go, OriginalLeft, OriginalCopy, StampCopy
<1> QED
  BY <1>1, <1>2, OriginalPlans, DeployedIsWindows
  DEF LoaderInv, Trustworthy, TestIsWindowsBootManager, Deployed

(* The backup is made when GpuCheck takes the loader's place. *)
LEMMA VerifyBackupLoader == ScriptInv /\ LoaderInv /\ VerifyBackup => LoaderInv'
<1> SUFFICES ASSUME ScriptInv, LoaderInv, VerifyBackup PROVE LoaderInv'
  OBVIOUS
<1>1. /\ UNCHANGED <<host, lookalikes, deployed, file>> /\ pc' \in {"modeB", "ended"}
      /\ pc = "verifyBackup" /\ todo = <<>>
  BY DEF VerifyBackup, Refuse, End, Go, setting, At
<1> QED
  BY <1>1, OriginalPlans DEF LoaderInv, Trustworthy, TestIsWindowsBootManager, Deployed

(* A restore begins with no copy. *)
LEMMA RestoreModeALoader == ScriptInv /\ LoaderInv /\ RestoreModeA => LoaderInv'
<1> SUFFICES ASSUME ScriptInv, LoaderInv, RestoreModeA PROVE LoaderInv'
  OBVIOUS
<1>1. /\ UNCHANGED <<host, lookalikes, deployed, file>> /\ pc' = "removeOriginal"
      /\ writing' = FALSE
  BY DEF ScriptInv, TypeOK, RestoreModeA, Go, setting, At
<1> QED
  BY <1>1 DEF LoaderInv, Trustworthy, TestIsWindowsBootManager, Deployed

(* The original goes when the deployed loader is back in its place. *)
LEMMA RemoveOriginalLoader == ScriptInv /\ LoaderInv /\ RemoveOriginal => LoaderInv'
<1> SUFFICES ASSUME ScriptInv, LoaderInv, RemoveOriginal PROVE LoaderInv'
  OBVIOUS
<1>1. /\ UNCHANGED <<host, lookalikes, deployed>> /\ pc' \in {"restoreB", "ended"}
      /\ file'["bootmgfw"] = file["bootmgfw"]
      /\ \/ file'["original"] = file["original"]
         \/ ~Exists(file["original"]) \/ TestIsWindowsBootManager(file["bootmgfw"])
  BY DEF ScriptInv, TypeOK, RemoveOriginal, Named, Refuse, End, Go, setting, Names
<1>2. ~Exists(file["original"]) => file["original"] # Deployed
  BY DEF Exists, Deployed, Windows, Whole
<1> QED
  BY <1>1, <1>2 DEF LoaderInv, Trustworthy, TestIsWindowsBootManager, Deployed

(* A copy overwrites one of the two loaders only while the other is the    *)
(* deployed one.                                                           *)
LEMMA CopyBeginsLoader == ScriptInv /\ LoaderInv /\ CopyBegins => LoaderInv'
<1> SUFFICES ASSUME ScriptInv, LoaderInv, CopyBegins, Trustworthy PROVE LoaderInv'
  BY DEF LoaderInv, Trustworthy, CopyBegins
<1>0. /\ todo # <<>> /\ file \in [Names -> File] /\ writing' = TRUE
      /\ UNCHANGED <<host, lookalikes, pc, todo>>
      /\ Head(todo) # RestoreCopy => UNCHANGED deployed
      /\ Head(todo) = RestoreCopy => deployed' = file["original"].version
      /\ TypeOK /\ Plans
  BY DEF ScriptInv, TypeOK, CopyBegins, RestoreCopy
<1>1. CASE Head(todo) = OriginalCopy /\ pc = "verifyBackup" /\ todo \in OriginalLeft
  <2>1. file'["bootmgfw"] = file["bootmgfw"]
    BY <1>0, <1>1, BeginIs DEF OriginalCopy, Names
  <2>2. TestIsWindowsBootManager(file["bootmgfw"])
    BY <1>1 DEF ScriptInv, Backed
  <2>3. OriginalCopy # RestoreCopy
    BY DEF OriginalCopy, RestoreCopy, Copying
  <2> QED
    BY <1>0, <1>1, <2>1, <2>2, <2>3, OriginalPlans
    DEF LoaderInv, Trustworthy, TestIsWindowsBootManager, Deployed
<1>2. CASE Head(todo) = StampCopy /\ pc = "verifyBackup"
  <2>1. StampCopy # RestoreCopy
    BY DEF StampCopy, RestoreCopy, Copying
  <2> QED
    BY <1>0, <1>2, <2>1, StampIs
    DEF LoaderInv, Trustworthy, TestIsWindowsBootManager, Deployed
<1>3. CASE todo = <<BootmgfwCopy>> /\ pc = "modeB"
  <2>1. PICK g \in Partial(GpuCheck) : file' = [file EXCEPT !["bootmgfw"] = g]
    BY <1>0, <1>3, BeginIs, Ends, Contents DEF BootmgfwCopy, Names
  <2>2. /\ file'["original"] = file["original"]
        /\ file'["bootmgfw"].image = "gpucheck"
    BY <1>0, <2>1, PartialCopies, ImageTypes DEF GpuCheck, Whole, Names
  <2>3. BootmgfwCopy # RestoreCopy /\ Head(todo) = BootmgfwCopy
    BY <1>3, Ends DEF BootmgfwCopy, RestoreCopy, Copying
  <2> QED
    BY <1>0, <1>3, <2>2, <2>3
    DEF LoaderInv, Trustworthy, TestIsWindowsBootManager, Deployed
<1>4. CASE todo = <<RestoreCopy>> /\ pc = "removeOriginal"
  <2>1. Head(todo) = RestoreCopy /\ todo # <<>>
    BY <1>4, Ends
  <2>2. PICK g \in Partial(file["original"]) : file' = [file EXCEPT !["bootmgfw"] = g]
    BY <1>0, <2>1, BeginIs, Contents DEF RestoreCopy, Names
  <2>3. /\ TestIsWindowsBootManager(file["original"]) /\ ~lookalikes
        /\ file["original"] \in File
    BY <1>0, <1>4, <2>1 DEF ScriptInv, Restorable, Trustworthy, Names
  <2>4. file["original"].state = "whole"
    BY <2>3 DEF ScriptInv, NoLookalikes, Names, File, TestIsWindowsBootManager
  <2>5. file["original"] = Windows(deployed')
    BY <1>0, <2>1, <2>3, <2>4 DEF File, Windows, Whole, TestIsWindowsBootManager
  <2>6. /\ file'["original"] = file["original"]
        /\ file'["bootmgfw"].state = "torn"
    BY <1>0, <2>2, <2>3, PartialCopies DEF TestIsWindowsBootManager, Names
  <2> QED
    BY <1>0, <1>4, <2>5, <2>6 DEF LoaderInv, TestIsWindowsBootManager, Deployed
<1>5. CASE pc \in {"config", "postVerify", "removeBackup"}
  <2>1. /\ Head(todo) \in {CanonicalCopy, BackupCopy, Bootx64Copy, ConfigCopy, FallbackCopy}
    BY <1>0, <1>5, NextCopy, ModeBPlans, Ends
  <2>2. Head(todo) # RestoreCopy
    BY <2>1 DEF CanonicalCopy, BackupCopy, Bootx64Copy, ConfigCopy, FallbackCopy,
                RestoreCopy, Copying
  <2>3. file'["bootmgfw"] = file["bootmgfw"] /\ file'["original"] = file["original"]
    BY <1>0, <2>1, BeginIs
    DEF CanonicalCopy, BackupCopy, Bootx64Copy, ConfigCopy, FallbackCopy, Names
  <2> QED
    BY <1>0, <1>5, <2>2, <2>3, LoaderFrame
<1> QED
  BY <1>0, <1>1, <1>2, <1>3, <1>4, <1>5, NextCopy

(* Once a copy of a loader is over, both are the deployed one, or GpuCheck *)
(* is in its place.                                                        *)
LEMMA CopyVerifiedLoader == ScriptInv /\ LoaderInv /\ CopyVerified => LoaderInv'
<1> SUFFICES ASSUME ScriptInv, LoaderInv, CopyVerified PROVE LoaderInv'
  OBVIOUS
<1>a. UNCHANGED <<host, lookalikes>>
  BY DEF CopyVerified, setting
<1> SUFFICES ASSUME Trustworthy PROVE LoaderInv'
  BY <1>a DEF LoaderInv, Trustworthy
<1>0. /\ todo # <<>> /\ file \in [Names -> File] /\ todo' = Tail(todo) /\ writing
      /\ UNCHANGED <<host, lookalikes, deployed, pc>>
      /\ TypeOK /\ Plans
  BY DEF ScriptInv, TypeOK, CopyVerified, setting
<1>1. CASE Head(todo) = OriginalCopy /\ pc = "verifyBackup" /\ todo \in OriginalLeft
  <2>1. /\ file'["bootmgfw"] = file["bootmgfw"]
        /\ file'["original"] = file["bootmgfw"]
    BY <1>0, <1>1, VerifiedIs, Contents DEF OriginalCopy, Names
  <2>2. TestIsWindowsBootManager(file["bootmgfw"])
    BY <1>1 DEF ScriptInv, Backed
  <2> QED
    BY <1>0, <1>1, <2>1, <2>2
    DEF LoaderInv, Trustworthy, TestIsWindowsBootManager, Deployed
<1>2. CASE /\ Head(todo) = StampCopy /\ pc = "verifyBackup"
           /\ \/ todo \in OriginalLeft /\ Tail(todo) \in OriginalLeft
              \/ todo \in OriginalDone /\ Tail(todo) \in OriginalDone
  BY <1>0, <1>2, StampIs, OriginalPlans
  DEF LoaderInv, Trustworthy, TestIsWindowsBootManager, Deployed
<1>3. CASE todo = <<BootmgfwCopy>> /\ pc = "modeB"
  <2>1. /\ file'["original"] = file["original"]
        /\ file'["bootmgfw"] = GpuCheck /\ todo' = <<>>
    BY <1>0, <1>3, VerifiedIs, Ends, Contents DEF BootmgfwCopy, Names
  <2> QED
    BY <1>0, <1>3, <2>1
    DEF LoaderInv, Trustworthy, TestIsWindowsBootManager, Deployed, GpuCheck, Whole
<1>4. CASE todo = <<RestoreCopy>> /\ pc = "removeOriginal"
  <2>1. /\ file'["original"] = file["original"]
        /\ file'["bootmgfw"] = file["original"] /\ todo' = <<>>
    BY <1>0, <1>4, VerifiedIs, Ends, Contents DEF RestoreCopy, Names
  <2> QED
    BY <1>0, <1>4, <2>1
    DEF LoaderInv, Trustworthy, TestIsWindowsBootManager, Deployed
<1>5. CASE pc \in {"config", "postVerify", "removeBackup"}
  <2>1. /\ Head(todo) \in {CanonicalCopy, BackupCopy, Bootx64Copy, ConfigCopy, FallbackCopy}
    BY <1>0, <1>5, NextCopy, ModeBPlans, Ends
  <2>2. file'["bootmgfw"] = file["bootmgfw"] /\ file'["original"] = file["original"]
    BY <1>0, <2>1, VerifiedIs
    DEF CanonicalCopy, BackupCopy, Bootx64Copy, ConfigCopy, FallbackCopy, Names
  <2> QED
    BY <1>0, <1>5, <2>2, LoaderFrame
<1> QED
  BY <1>0, <1>1, <1>2, <1>3, <1>4, <1>5, NextCopy

(* No step breaks it. *)
LEMMA LoaderStep == ScriptInv /\ LoaderInv /\ [Next]_vars => LoaderInv'
<1> SUFFICES ASSUME ScriptInv, LoaderInv, [Next]_vars PROVE LoaderInv'
  OBVIOUS
<1>1. CASE UNCHANGED vars
  BY <1>1 DEF vars, LoaderInv, Trustworthy, TestIsWindowsBootManager, Deployed
<1> QED
  BY <1>1, OtherLoader, ServiceLoader, BackUpLoader, VerifyBackupLoader,
     RestoreModeALoader, RemoveOriginalLoader, CopyBeginsLoader, CopyVerifiedLoader
  DEF Next, Install, Restore

(* It holds in every state that is ever reached. *)
LEMMA LoaderAlways == Spec => []LoaderInv
<1> QED
  BY InitLoader, LoaderStep, ScriptAlways, PTL DEF Spec

-----------------------------------------------------------------------------
(* A restore whose calls do not bind *)

(* No job is running yet. *)
LEMMA InitHarmless == Init => RestoreChangesNoLoader
  BY DEF Init, RestoreChangesNoLoader, Restores

(* It never copies: the one copy needs a genuine original, the other one a *)
(* genuine image of GpuCheck, and no test of it answers TRUE.              *)
LEMMA NoCopyUnbound ==
    ASSUME ScriptInv, todo # <<>>, job \in Restores
    PROVE  host = "binds"
<1>1. pc \in {"removeOriginal", "removeBackup"}
  BY NextCopy DEF ScriptInv, Jobs, Installs, Restores
<1> QED
  BY <1>1 DEF ScriptInv, Restorable, Restored

(* What it removes is no loader and no backup. *)
LEMMA RestoreHarmless ==
    ScriptInv /\ RestoreChangesNoLoader /\ Restore => RestoreChangesNoLoader'
<1> DEFINE Loaders == {"bootmgfw", "original", "bootx64", "bootx64Bak"}
<1> SUFFICES ASSUME ScriptInv, RestoreChangesNoLoader, Restore,
                    job' \in Restores, host' # "binds"
             PROVE  /\ \A n \in Loaders : Exists(began'[n]) \/ Exists(file'[n]) =>
                                             file'[n] = began'[n]
                    /\ pc' = "ended" /\ outcome' = "complete" => ~Exists(began'["original"])
  BY DEF RestoreChangesNoLoader, Exists
<1>1. /\ UNCHANGED <<host, job, began>> /\ file \in [Names -> File]
      /\ Loaders \subseteq Names
  BY DEF Restore, RestoreRefuses, Refuse, RestoreModeA, RemoveOriginal, RestoreModeB,
         RemoveBackup, RemoveDir, End, Go, setting, ScriptInv, TypeOK, Names
<1>2. \A n \in Loaders : Exists(began[n]) \/ Exists(file[n]) => file[n] = began[n]
  BY <1>1 DEF RestoreChangesNoLoader
<1> HIDE DEF Loaders
<1>3. CASE RestoreRefuses \/ RestoreModeA
  BY <1>1, <1>2, <1>3
  DEF RestoreRefuses, Refuse, RestoreModeA, End, Go, At, Exists
<1>4. CASE RemoveOriginal
  <2>1. ~Exists(file["original"]) /\ pc' = "restoreB"
    BY <1>1, <1>4 DEF RemoveOriginal, At, Go, ScriptInv, Restorable
  <2>2. ~Exists(Absent)
    BY DEF Exists, Absent, Whole
  <2>3. /\ file'["original"] = Absent
        /\ \A n \in Loaders : n # "original" => file'[n] = file[n]
    BY <1>1, <1>4, <2>1 DEF RemoveOriginal, Names
  <2>4. ~Exists(began["original"])
    BY <1>2, <2>1 DEF Loaders, Exists
  <2> QED
    BY <1>1, <1>2, <2>1, <2>2, <2>3, <2>4 DEF Exists
<1>5. CASE RestoreModeB
  <2>1. UNCHANGED file /\ pc' = "removeDir"
    BY <1>1, <1>5 DEF RestoreModeB, Named, Go
  <2> QED
    BY <1>1, <1>2, <2>1 DEF Exists
<1>6. CASE RemoveBackup
  BY <1>1, <1>6 DEF RemoveBackup, At, ScriptInv, Restored
<1>7. CASE RemoveDir
  <2>1. \A n \in Loaders : file'[n] = file[n]
    BY <1>1, <1>7 DEF RemoveDir, Names, Loaders
  <2>2. ~Exists(began["original"])
    BY <1>2, <1>7 DEF RemoveDir, At, ScriptInv, Restored, Loaders, Exists
  <2> QED
    BY <1>1, <1>2, <2>1, <2>2 DEF Exists
<1> QED
  BY <1>3, <1>4, <1>5, <1>6, <1>7 DEF Restore

(* Nor does anything else happen to them while it runs. *)
LEMMA HarmlessStep ==
    ScriptInv /\ RestoreChangesNoLoader /\ [Next]_vars => RestoreChangesNoLoader'
<1> SUFFICES ASSUME ScriptInv, RestoreChangesNoLoader, [Next]_vars
             PROVE  RestoreChangesNoLoader'
  OBVIOUS
<1>1. CASE Start \/ Interrupted \/ Dismount \/ Service \/ Configure
  <2>1. began' = file' /\ pc' # "ended"
    BY <1>1 DEF Start, Interrupted, Dismount, Service, Configure
  <2> QED
    BY <2>1 DEF RestoreChangesNoLoader
<1>2. CASE CopyBegins \/ CopyVerified
  <2>1. UNCHANGED <<host, job>> /\ todo # <<>>
    BY <1>2 DEF CopyBegins, CopyVerified, setting, ScriptInv, TypeOK
  <2> QED
    BY <2>1, NoCopyUnbound DEF RestoreChangesNoLoader
<1>3. CASE Install
  <2>1. job \in Installs /\ job' = job
    BY <1>3 DEF Install, InstallRefuses, Refuse, SkipModeA, BackUp, VerifyBackup,
                InstallModeB, InstallConfig, PostVerify, End, Go, At, ScriptInv, Jobs
  <2> QED
    BY <2>1 DEF RestoreChangesNoLoader, Installs, Restores
<1>4. CASE Restore
  BY <1>4, RestoreHarmless
<1>5. CASE UNCHANGED vars
  BY <1>5 DEF vars, RestoreChangesNoLoader, Exists
<1> QED
  BY <1>1, <1>2, <1>3, <1>4, <1>5 DEF Next

-----------------------------------------------------------------------------
(* The theorems *)

(* Every run of the scripts keeps the types. *)
THEOREM ScriptTypes == Spec => []TypeOK
<1>1. ScriptInv => TypeOK
  BY DEF ScriptInv
<1> QED
  BY <1>1, ScriptAlways, PTL

(* A script that refuses has changed nothing: neither install's second     *)
(* look at its backup, nor its look at what it installed, nor restore's    *)
(* look at what it put back can fail once something was written.           *)
THEOREM RefusalsAreClean == Spec => []RefusalTouchesNothing
<1>1. ScriptInv => RefusalTouchesNothing
  BY DEF ScriptInv
<1> QED
  BY <1>1, ScriptAlways, PTL

(* As PowerShell runs it, the restore script is harmless: whatever state   *)
(* it finds the partition in and wherever it is interrupted, it changes no *)
(* loader and no backup, and it claims success only where there is no      *)
(* original to restore.                                                    *)
THEOREM RestoreIsHarmless == Spec => []RestoreChangesNoLoader
<1> QED
  BY InitHarmless, HarmlessStep, ScriptAlways, PTL DEF Spec

(* A machine that had a Windows loader keeps one where something starts    *)
(* it, through every interruption.                                         *)
THEOREM WindowsIsNeverLost == Spec => []WindowsIsOnTheBootPath
<1>1. LoaderInv => WindowsIsOnTheBootPath
  BY DeployedIsWindows DEF LoaderInv, WindowsIsOnTheBootPath
<1> QED
  BY <1>1, LoaderAlways, PTL

(* GpuCheck never chainloads a loader that Windows has replaced since.     *)
THEOREM BackupIsTheDeployedLoader == Spec => []BackupIsCurrent
<1>1. LoaderInv => BackupIsCurrent
  BY DeployedIsWindows DEF LoaderInv, BackupIsCurrent, Deployed
<1> QED
  BY <1>1, LoaderAlways, PTL

(* A step that changes the backup of BOOTX64.EFI has put it back, and one  *)
(* that changes the operator's configuration was asked to remove it.       *)
LEMMA OnlyCopiesStep ==
    ASSUME ScriptInv, [Next]_vars
    PROVE  /\ file["bootx64Bak"] = Stock /\ file'["bootx64Bak"] # Stock
                 => file["bootx64"] = Stock /\ job \in Restores
           /\ file["cfg"] = Settings /\ file'["cfg"] # Settings
                 => job = "restoreAndRemove"
<1> USE DEF ScriptInv
<1> DEFINE Kept == file'["bootx64Bak"] = file["bootx64Bak"]
           KeptCfg == file'["cfg"] = file["cfg"]
<1>0. file \in [Names -> File]
  BY DEF TypeOK
<1>1. ASSUME CopyBegins \/ CopyVerified
      PROVE  (Kept \/ file["bootx64Bak"] # Stock) /\ (KeptCfg \/ file["cfg"] # Settings)
  <2>0. todo # <<>>
    BY <1>1 DEF CopyBegins, CopyVerified, TypeOK
  <2>1. CASE Head(todo) = StampCopy
    BY <1>1, <2>1, StampIs
  <2>2. ASSUME NEW from \in Names \union {"build", "staging"}, NEW to \in Names,
               Head(todo) = Copying(from, to)
        PROVE  /\ to # "bootx64Bak" => Kept
               /\ to # "cfg" => KeptCfg
    BY <1>0, <1>1, <2>2, BeginIs, VerifiedIs DEF Names
  <2>3. CASE pc = "config" /\ todo \in BackupLeft \ CanonicalLeft
    <3>1. Head(todo) = BackupCopy
      BY <2>3, ModeBPlans
    <3> QED
      BY <2>2, <2>3, <3>1 DEF BackupCopy, Names, FallbackBackup
  <2>4. CASE pc = "postVerify" /\ todo = <<ConfigCopy>>
    <3>1. Head(todo) = ConfigCopy
      BY <2>4, Ends
    <3> QED
      BY <2>0, <2>2, <2>4, <3>1 DEF ConfigCopy, Names, ConfigIsNew
  <2>5. CASE Head(todo) \in {OriginalCopy, BootmgfwCopy, CanonicalCopy, Bootx64Copy,
                             RestoreCopy, FallbackCopy}
    BY <2>2, <2>5
    DEF OriginalCopy, BootmgfwCopy, CanonicalCopy, Bootx64Copy, RestoreCopy, FallbackCopy,
        Names
  <2> QED
    BY <2>0, <2>1, <2>3, <2>4, <2>5, NextCopy, ModeBPlans, Ends
<1>2. ASSUME RemoveBackup
      PROVE  KeptCfg /\ job \in Restores /\ file["bootx64"] = file["bootx64Bak"]
  BY <1>0, <1>2 DEF RemoveBackup, At, Jobs, FallbackBackup, Names
<1>3. ASSUME RemoveDir
      PROVE  Kept /\ (KeptCfg \/ job = "restoreAndRemove")
  BY <1>0, <1>3 DEF RemoveDir, Names
<1>4. ASSUME Configure
      PROVE  Kept /\ file'["cfg"] = Settings
  BY <1>0, <1>4 DEF Configure, Names
<1>5. ASSUME \/ Start \/ Install \/ RestoreRefuses \/ RestoreModeA \/ RemoveOriginal
             \/ RestoreModeB \/ Dismount \/ Interrupted \/ Service \/ UNCHANGED vars
      PROVE  Kept /\ KeptCfg
  BY <1>0, <1>5
  DEF Start, Install, InstallRefuses, Refuse, SkipModeA, BackUp, VerifyBackup, InstallModeB,
      InstallConfig, PostVerify, RestoreRefuses, RestoreModeA, RemoveOriginal, RestoreModeB,
      Dismount, Interrupted, Service, End, Names, vars
<1> QED
  BY <1>1, <1>2, <1>3, <1>4, <1>5 DEF Next, Restore

(* What exists only once is kept. *)
THEOREM LastCopiesAreKept == Spec => OnlyCopiesAreKept
<1>1. ASSUME ScriptInv, [Next]_vars
      PROVE  [/\ file["bootx64Bak"] = Stock /\ file'["bootx64Bak"] # Stock
                   => file["bootx64"] = Stock /\ job \in Restores
              /\ file["cfg"] = Settings /\ file'["cfg"] # Settings
                   => job = "restoreAndRemove"]_vars
  BY <1>1, OnlyCopiesStep
<1> QED
  BY <1>1, ScriptAlways, PTL DEF Spec, OnlyCopiesAreKept

=============================================================================
