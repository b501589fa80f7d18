# Verification of GpuCheck

GpuCheck is a UEFI application that is put in front of the Windows Boot Manager on the disk of a
machine under repair. It enumerates the PCI display adapters, says on the screen whether the
expected card is there, and then boots Windows: by itself after a countdown if the card is present,
and only at the operator's key if it is not. This directory holds TLA+ models of its parts, TLC
configurations that check them on small instances, and proofs of the most important properties for
all instances.

All line numbers refer to `src/`. `PROJECT.json` maps every definition to the lines it stands for.

## 1. The system

| Part | Source | State it keeps | Operations | Model |
|---|---|---|---|---|
| Boot loop and dialogue | `GpuCheck.c` `UefiMain`, `WaitForAction`, `WaitForAnyKey`, `DrainKeystrokes`, `ShowDetails`, `ShowBootError`, `PowerOff`, `ComputeVerdict` | configuration, last scan and its verdict, target, `BootAttempted`, `mPage`; countdown while waiting | scan, search, paint, drain, poll, count, boot, switch off | `BootFlow` |
| Layout and paging | `GpuCheck.c` `SelectTextMode`, `ChooseLayout`, `RenderScreen` | text mode, `mRows`, `mPage`, the cursor | choose a mode, choose a layout, page, print | `ScreenLayout`, `Screen` |
| Rendering, name tables | `GpuCheck.c`, `PciScan.c` | none | word, colour | not modelled |
| PCI scan | `PciScan.c` `GpuScanPci`, `ScanViaPciIo`, `ScanViaRootBridge` | the list of adapters, counters, flags | two passes over handles, one over buses, record, sort | `PciScan` |
| One adapter | `PciScan.c` `ParsePcieCapability`, `ClassifyGpu` | `GPU_DEVICE_INFO` | walk, read registers, classify | `PciAdapter` |
| Loader search and chainload | `WindowsBoot.c` | target; images loaded; the path of our own file | search volumes and paths, walk our device path, self-boot guard, load, start | `WindowsBoot`, `OwnPath` |
| Configuration | `GpuConfig.c` | `GPUCHECK_CONFIG` | load, parse a line, apply a setting | `GpuConfig` |
| Scan log | `GpuLog.c` | a buffer, two open handles, `lastscan.txt` | format, delete, create, write, flush | `GpuLog` |
| Install and restore | `scripts/install-gpucheck.ps1`, `restore-gpucheck.ps1` | the boot files and `gpucheck.cfg` of an ESP | back up, verify, overwrite, put back, remove | `EspInstall` |
| Inspection | `scripts/inspect-esp.ps1` | none | report | not modelled |
| Library layer | `Compat/` | none | memory, strings, print | string copies in `OwnPath`, else not modelled |
| Build | `scripts/build.ps1`, `verify-pe.py`, `.inf`, `.dsc` | none | compile, check the image | not modelled |

The application is one thread of calls. `UefiMain` loads the configuration once and then turns a
loop: `GpuScanPci` fills the list, `ComputeVerdict` compares it with the pin of the configuration,
`WinBootFindLoader` looks for a loader, `GpuLogWriteScan` writes the log, `RenderScreen` paints,
`WaitForAction` waits, and the action it returns is carried out; `WinBootChainload` may return, and then the loop turns again. What makes
this hard is everything around the thread: the firmware's keyboard queue, which fills at any moment;
cards and disks that are exchanged between two turns; firmware calls that fail half way, return in
any order or not at all; and a Windows loader that hands control back. The scripts run on another
machine, may die in the middle of any copy, and alternate with a Windows that services its own boot
files.

What makes each part correct:

* **Boot loop**: nothing boots unattended when the card is missing; no keystroke is taken for an
  answer to another screen, or beaten by the countdown; a loader that returns is not relaunched for ever; every turn reaches a screen.
* **Screen**: the verdict and the list never scroll away, whatever the console.
* **Log**: a log reported as written is that of this scan, all of it, unless an answer that the code
  does not look at was a failure.
* **Own path**: however the firmware cuts it, the path names our file; the self-boot guard
  compares with it.
* **Scan**: every readable adapter once, in a stable order; an honest truncation flag; an end.
* **Adapter**: no access outside the window; boards recognised; integrated graphics never taken for
  a board.
* **Loader search**: the first acceptable loader, on our own disk first, and never GpuCheck itself;
  no image left behind that the firmware would have unloaded.
* **Configuration**: the settings in force are those the author wrote last.
* **Scripts**: a whole Windows Boot Manager stays on the boot path whatever is interrupted.

## 2. Modules

`ScreenLayout` ← `BootFlow` ← `MCBootFlow`, `BootFlowProofs`; `BootPolicy` is instantiated by
`BootFlow` and extended by `BootPolicyProofs`. `ScreenLayout` ← `Screen`; `Turn` composes `Screen`,
`GpuLog` and `OwnPath` to one turn of `UefiMain` ← `MCTurn`, `TurnProofs`. The other components stand
alone, each with an `MC` module and a module of proofs: `PciScanProofs`, `PciAdapterProofs`,
`WindowsBootProofs`, `EspInstallProofs`, `GpuConfigProofs`. No module declares a recursive operator:
where the code's loop has to be followed to its end (`Prefix`, `HexRun`, `DecRun`, `Numbers` in
`GpuConfig`), the model has a recursive function of the positions passed. Operators named `X_Fault` next to `X` are faulty variants of `X`: `PROJECT.json`
"mutants" lists which property each of them violates.

### BootFlow, implementing BootPolicy

One step is one call that a keystroke can overtake: a scan, a search, a repaint, one
`ReadKeyStroke`, one `Stall`. `pc` names the point in `UefiMain`; `screen` says which of the waiting
screens is up, so that the nested calls (`ShowDetails` inside `WaitForAction`'s caller,
`ShowBootError`, the message of a refused shutdown) need no stack. `useTimeout`, `remaining`,
`ticks` and `drained` are locals of `WaitForAction` and `DrainKeystrokes`. `Type`, `LoaderReadsKey`,
`LoaderReturns`, `LoaderFails` and `LoaderBootsWindows` are the environment. `GpuScanPci` may find
any population and `FindLoader` a loader or none, each turn anew. The keystrokes in `queue` carry a
history bit, `fresh`: typed after the last repaint. The variables `waited`, `touched`, `cause`,
`launches` and `owesKey` are history too; no guard reads them.

`BootPolicy` is what this machinery promises about starting Windows, in four variables: look, count
down or hold, start. `PolicyMode` in `BootFlow` maps one onto the other, and the run
`bootflow` checks the refinement.

### Turn: Screen, GpuLog, OwnPath

`Turn` has the same loop as `BootFlow`, with the parts that `BootFlow` takes in one step drawn out
and the dialogue reduced to its effect on `mPage`. Its `stage` says which component is at work;
`PowerLoss` may come at any stage but the first and leaves only the partition.

* `Screen` counts rows. `SelectTextMode` chooses among `Modes`, of which any may fail to answer or
  refuse to be set; `mRows` is what the program believes and `mode` what the console is in.
  `PaintTop`, `PaintAdapter` and `PaintBottom` are the parts of `RenderScreen` with the number of rows
  each prints, the two notices it does not budget for among them. The layouts and pages come from
  `ScreenLayout`, which `BootFlow` uses as well.
* `GpuLog` has one action per firmware call of `GpuLogWriteScan`. A file is so much of the latest
  log followed by so much of older ones (`fresh`, `stale`), in units of an adapter's entry of at
  most 92 bytes: the header's 139 bytes are two of them, the buffer's 4095 bytes 44, and 2 + 32 fit
  (`LogAssumption`). The code does not look at the answers of
  `Delete` and `Flush`, nor at the size `Write` returns, and an `Open` that answers success without
  a handle is returned as the success it claims; all of these happen in the model. The history
  `dropped` collects which failures of the present call left no trace in the status returned:
  `OnlyDroppedAnswersSpoilTheLog` says that these four spoil the log and nothing else does.
* `OwnPath` walks the device path nodes of our own image. The firmware cuts the path into nodes
  anywhere between names, with or without separators at the cuts, in either spelling, with foreign
  nodes between, and may end it too early. `Joined` writes names with separators, `Join`, `StrCat16`,
  `Cut` and `Rooted` are the code's string work, including its truncation. A name is one character of
  the text (`Names`), the separators are the others.

### PciScan

`VisitHandle`/`PassOverHandle` are the body of the loop in `ScanViaPciIo`, `VisitBridge` the
determination of a bridge's bus range, `ProbeFunction`, `NobodyHome`, `VendorFails` and
`HeaderFails` the ways through the body of the innermost loop of `ScanViaRootBridge`, and
`RecordIfDisplayDevice` and `AlreadyRecorded` are operators with the names of the functions. `Sort` is
one round of the outer loop of `SortByBdf`, which `SortRound` gives by its outcome: adapter `i` goes
behind the last one before it that does not come after it. Segment, bus and device are one number, ordered as the sort key orders them; a device
that does not decode the function number answers at all of them. `offered`, `probed` and `failed`
are history.

### PciAdapter

The offsets, masks and window are the real ones; an adapter is its vendor, place, ROM, port type and
capability list, every pointer from 0 to 255. `AdaptersAssumption` states the hardware facts that
the comments of `ClassifyGpu` argue from (integrated graphics have no expansion ROM, NVIDIA builds
none, Intel's are on bus 0, the ranges of APU device IDs are right); nothing in it is about the
code. Any read may fail. `OnTheList` says, for `BoardsAreRecognised`, what is on a list that may loop:
the capability at the end of a route of pointers, the next one each.

### WindowsBoot

A handle is what the firmware hands out and a volume is what is on the disk. Two handles may show
one volume, our own handle and path may be unknown, a content check may not be able to read, a disk
may be pulled at any time (`Unplug`). `TryDevice` moves over the candidates of one handle,
`NextVolume` goes on to the others, in the order of `Handles`. `Chainload` to `LoaderReturns` are the two `LoadImage` calls,
`UnloadImage` and `StartImage`. The firmware may refuse to unload, which the code does not notice; the
histories `images` and `refusals` count what stays loaded and what was refused. A loader that never returns is simply the end of the behaviour.

### GpuConfig

`Files` are files as their author means them: a mark, a sequence of lines with key, value and
comment. `Bytes` writes one down and the actions read it back, cut off at `MaxSize`: `SkipMark`,
`RejectUtf16`, then one `ParseLine` per turn of `ParseBuffer`'s loop with the whole of
`ApplySetting` in it. Keys and words are single tokens; numbers are digits, since their boundaries
are what is checked. `HexRun` and `DecRun` are the locals of `ParseHex16` and `ParseDec` after each
character. `Meaning` and `InForce` are the reference, which knows nothing of the loops' guards, counts
and early returns: the number that the digits denote (`Number`), compared with the limit at the end,
and the last good line by quantification.

### EspInstall

A file is an image, a version and a state: whole, torn, or *lookalike*: torn, but with the parts the
scripts look at intact. A run of a script is a list of copies (`todo`) and the decisions between
them; `CopyBegins` ruins the destination and `CopyVerified` completes it, so `Interrupted` between
the two leaves a damaged file. `Service` is Windows putting a whole `bootmgfw.efi` of some version
back, `Configure` the operator writing a `gpucheck.cfg`. `deployed` is history: the version that
Windows, or a restore, last put in place. `Hosts` is how PowerShell treats the restore script's calls `Test-IsWindowsBootManager -Path
x`, whose only parameter is `$P`: the pass run allows all three ways, including the one the author
meant ("binds"), so that the properties do not hold merely because restore never works. PowerShell does not
treat them so, and the behaviours with "binds" are those of a hypothetical corrected script;
`RestoreChangesNoLoader` is about the script as it stands, in the other two.

## 3. Runs

Passing runs (2 workers; each well under five minutes):

| Run | States | What it shows |
|---|---|---|
| `bootflow` | 630,979 | nothing boots that should not; an untouched countdown boots; every turn reaches a listening screen; refinement of `BootPolicy` |
| `windows_boot` | 5,190,860 | right loader, right order, never itself, no image left loaded but one the firmware refused to unload |
| `esp_install` | 3,470,808 | a whole Boot Manager stays on the boot path, and its backup current, under crashes and servicing; the restore script as PowerShell runs it changes no loader |
| `pci_scan` | 114,665 | complete, sorted, duplicate-free list; the scan ends |
| `pci_adapter` | 234,696 | reads in the window; no false discrete; the walk ends |
| `gpu_config` | 238,990 | the last good line for a key is in force |
| `turn` | 5,218,676 | the page fits the console; only the answers the code drops can spoil a log reported written; our own path names our file |

Bounds, and why they are enough:

* `bootflow`: a second has 2 ticks instead of 20, the keyboard queue holds 2 keys and a drain
  discards at most 2 (256); `KeyBuffer =< DrainLimit` is an assumption, since with a longer queue a
  stale key does survive. Delays of 1 and 2 seconds distinguish the ticks of one second from the
  next. Populations of 0, 1, 2 and 5 adapters give no page, one page and two pages at 25 rows. The five
  configurations reach every branch of `WillAutoboot` and `ComputeVerdict`. The proofs remove these bounds for all properties but liveness.
* `windows_boot`: two handles and two volumes are what an ambiguity between handles takes; three of
  the candidate paths keep first, middle and last; one path is no candidate (Mode B). The first disk
  has every state that installs, restores and damage leave, the second one a stock loader or
  nothing.
* `esp_install`: two versions are what stale and current take; they are interchangeable, which the
  run uses as symmetry (it checks no liveness). Nothing bounds the number of runs, crashes or
  servicings.
* `turn`: consoles of 25, 34, 36 and 40 rows and 0, 1 or 5 adapters (5 being the full list), so that
  one adapter just fits in detail and five take two pages at 25 rows, and five just fit in the
  compact layout at 36. The log buffer is exactly as large as its largest log. One of our two
  paths just fits its buffer and the other one does not; three nodes are one less than the longer
  path may take. The proofs remove these bounds.
* `pci_scan`: two devices of three functions, a list of three: duplicates, gaps, aliasing, an
  exactly full list and an overfull one all occur. Bridges own one device each or report the whole
  range.
* `pci_adapter`: three places for capabilities, chosen so that a link register ends exactly at the
  end of the window, begins there, and lies outside, and a pointer to where there is none (zeros are
  read); every chain, dead end and loop over them.
  `Limit` is 3 for 64; all that matters is that there are no more places for a capability than that
  (48 in the real space).
* `gpu_config`: up to three lines from 18 at the boundaries of their kind, with and without each
  mark, cut by a limit of 22 tokens. The proofs remove these bounds.

Runs that find a violation, each of a sentence of the documentation:

| Run | Sentence | What the code does |
|---|---|---|
| `windows_boot_claim` | `WindowsBoot.h:55-57` the stock loader is only accepted when "provably not GpuCheck itself" | a file whose content cannot be read is accepted (`WindowsBoot.c:254-266`) |
| `esp_install_claim` | `install-gpucheck.ps1:23` "The backup is always verified before the original loader is overwritten" | Mode B keeps an existing backup unseen (`:513`), also one an interrupted run has torn |
| `esp_restore_claim` | `restore-gpucheck.ps1:3` restores the original Windows Boot Manager | its helpers do not have the parameter they are called with (`:74`, `:81`, `:182`) |
| `pci_adapter_claim` | `README.md:419` "The card did not appear on PCI at all" | an AMD board off bus 0, with its own ROM and a PCI Express endpoint capability read without failure, is left Unknown (`PciScan.c:355`) if the root-bridge pass found it, which does not know the ROM (`:756`), and raises the same warning |
| `own_path_claim` | `WindowsBoot.c:65-66` either separator will do | the walk that builds the path knows only backslashes (`:177`, `:191-197`), so that the comparison fails |

`esp_install_claim` runs with the calls of the restore script as the author meant them, so that it
shows the install script's own doing.

**Deadlock** is checked in every run. Where the system stops for good (Windows has taken over, the
machine is off, a scan is complete) the model has an explicit stuttering action (`Finished`,
`HeadlessHalt`, `Done`).

**The returned status of the log.** `GpuLog.h:6-7` says of `GpuLogWriteScan` that "every failure here is
silent to the caller except for the returned status". That is not so: the status is that of `Write`,
and the answers of `Delete` (`GpuLog.c:256`) and `Flush` (274) are dropped. A `Flush` that fails may leave
the file empty, and a `Delete` that fails the tail of an older log, behind a status of success. The
run `turn` has these behaviours and its property names them as exceptions, `"delete"` and `"flush"` in
`dropped`, instead of excluding the states they lead to.

**Near misses** met while modelling, of which no property is claimed: the comment at
`GpuCheck.c:310-313` says the rendered height "still fits", while the notices of the fallback pass and
of a full list are not in the row budget and push up to two rows off the top (`PageFitsConsole` states
exactly that: at worst the rule and the title, never the verdict). `PciScan.h:117` calls
`TotalPciFunctions` "every PCI function seen", while the fallback pass counts on top of the PciIo
pass (`PciScan.c:748`); it is a number on the screen, and not modelled. An interrupted copy of the
sample `gpucheck.cfg` is kept by every later install, which leaves a present file alone
(`install-gpucheck.ps1:531`). A restore puts `bootmgfw-original.efi` back also over a newer
`bootmgfw.efi` of Windows (`restore-gpucheck.ps1:222`); no document says which is wanted.

**Fairness.** `FairSpec` asks weak fairness of the program's own steps as one action (`Program`,
`Scan`, `Record`): until it hands over, GpuCheck is the only thing the processor runs, and every one
of its firmware calls is taken to return. Nothing is asked of the operator, of the environment or of
Windows. Weak fairness of the disjunction is enough because the program is sequential: it is always
at exactly one point.

## 4. Proofs

`BootFlowProofs` proves for `BootFlow`, for all constants that satisfy its assumptions (any
populations, configurations, console height, ticks per second, queue length up to the drain limit):

| Theorem | Property | Rests on |
|---|---|---|
| `TypeCorrect` | `TypeOK` | itself |
| `AnswersAreFresh` | `NoStaleAnswer` | `QueueInv` |
| `NeverBootsAloneWhenMissing` | `NoUnattendedBootWhenMissing` | `ControlInv` |
| `TouchPreventsBoot` | `TouchedScreenNeverBoots` | `ControlInv` |
| `RefusalIsHeld` | `RefusedShutdownHolds` | `ControlInv`, `QueueInv` |
| `RelaunchIsAsked` | `RelaunchNeedsOperator` | `ControlInv` |
| `DelayIsWhole` | `FullDelayBeforeBoot` | `CountdownInv` |
| `LoopImplementsPolicy` | `ImplementsPolicy` | `ControlInv` |
| `PageIsNeverEmpty` | `PageShowsSomething` | `PageInv`, lemma `PageStartsInList` |

Hardly any of these properties is inductive. They follow from four invariants, each proved on top of
the ones before it:

* `QueueInv`: while a wait drains, the stale keystrokes left lie within what the drain may still
  discard. That is why a poll finds none, and where `KeyBuffer =< DrainLimit` is used.
* `ControlInv`: a countdown only runs on the main screen, untouched, with `WillAutoboot` true and a
  verdict that is the verdict of the current list; the cause of a boot survives until the next
  paint; a launch implies the latch; a shutdown refused implies its screen. Its preservation needs
  `QueueInv`, since a stale key would leave the refused-shutdown screen unacknowledged.
* `CountdownInv`: `waited + remaining * TicksPerSecond = delay * TicksPerSecond + ticks` with `ticks
< TicksPerSecond` during a countdown.
* `PageInv`: the list is finite, and the page on the screen begins inside it. Every repaint brings the
  page back into range by the number of pages, a rounded-up division, and `PageStartsInList` is the
  arithmetic of it: a page below that number starts before the end of the list.

`BootPolicyProofs` proves `PolicyIsSafe` of the abstract policy: unless the operator asked, a loader
is started only if the last look permitted it and for the first time. Through `LoopImplementsPolicy`
that holds of the loop as well.

`PciAdapterProofs` proves for `PciAdapter`, for every set of adapters that `AdaptersAssumption` allows,
every capability list and every failing read:

| Theorem | Property | Rests on |
|---|---|---|
| `AdapterTypes` | `TypeOK` | `WindowInv` |
| `ReadsInWindow` | `ReadsStayInWindow` | `WindowInv`, lemmas `MaskedAligns` and `Extents` |
| `IntegratedIsNeverDiscrete` | `NoFalseDiscrete` | lemma `EvidenceIsProof` |
| `BoardsAreDiscrete` | `BoardsAreRecognised` | `BoardsInv` (`RoutesInv`, `PortInv`) |

`WindowInv` is both at once: the read of a link register stays in the window by its guard, every
other read because an aligned pointer is at most 252. `EvidenceIsProof` is the argument of
`ClassifyGpu`: with the hardware facts, evidence for a board is proof once the evidence for
integrated graphics has been looked at, also when a register could not be read.

`BoardsAreDiscrete` rests on `RoutesInv`: take any route to a PCI Express capability that is no longer
than there are places for capabilities. As long as no read has failed, the walk is on it, at the
capability its loop guard counts, and the guard has not run out, since `Limit` outlasts every such
route. That is the difference between giving up on a loop and giving up on a long list.

`TurnProofs` proves for `Turn`, for every list of text modes, every number of adapters and every size
of header and buffer that the assumptions allow:

| Theorem | Property | Rests on |
|---|---|---|
| `ScreenFitsConsole` | `PageFitsConsole` | `ScreenInv`, lemma `FullPageFits` |
| `LogIsCurrent` | `OnlyDroppedAnswersSpoilTheLog` | `LogInv` |
| `LogLeavesNothingOpen` | `LogHandlesClosed` (no run checks it) | `LogInv` |
| `OwnPathIsOurs` | `OwnPathNamesOurFile` | `PathInv` |
| `TurnTypes` | `TypeOK` | `ScreenInv`, `LogInv`, `PathInv` |

`ScreenInv` says that while the list is printed, the cursor is no further than the rows above the
list plus the layout's height per adapter listed, and that the program believes the console to have
its true size or 25 rows, which every console has. `FullPageFits` is the row budget itself: in each
of the three layouts a full page and what is printed around it stay within the console but for the
two notices. `LogInv` relates, per call of `GpuLogWriteScan`, what is open, what was built and what is
on the partition to the stage of the turn: what of the file is older was left by a `Delete` that failed,
and from `WriteLog` on a file that is not the whole log has its cause in `dropped`.

`PathInv` says that with `m` names of the path walked, the buffer is the text of a piece of our path that
begins at its first separator or one character later (the firmware may leave the leading separator
out, and `Rooted` puts it back at the end), and reaches up to the `m`-th name or the separator after it,
cut at the end of the buffer. Texts are compared character by character (`IsText`), so no induction
over the path is needed; a full buffer takes nothing more (`FullTakesNothing`), which is why a join at
a full buffer cannot put a wrong character into it.

`WindowsBootProofs` proves for `WindowsBoot`, for any number of volumes, handles and candidate paths and
every state of the disks:

| Theorem | Property |
|---|---|
| `SearchTypes` | `TypeOK` |
| `MarkedIsNeverChainloaded` | `NeverChainloadsMarkedImage` |
| `NeverItself` | `NeverRestartsItself` |
| `SearchIsInOrder` | `EarlierCandidatesPassedOver` |
| `NoImageLeaks` | `ImagesAreReleased` |
| `NotFoundIsFinal` | `NotFoundMeansNone` (action property) |

All rest on `SearchInv`. It divides what is known between the search and `StartImage` by where it was
learnt: every candidate before `index` on the present handle was passed over (`TriedHere`), all those of
our own handle once the search has left it (`TriedOwn`), all those of the handles before `position`
(`TriedOthers`); what the guards let through is not ourselves, and not marked if it could be read
(`Accepted`), and the target is just that (`Targeted`). A disk may be pulled in between: what was passed
over stays so, since an absent file is passed over too, and this is why the three parts are stated
of what may be passed over and not of what was seen. `OneImage` is the bookkeeping of the two
`LoadImage` calls: besides those the firmware refused to unload, an image is loaded only between a call
and the look at its answer.

`EspInstallProofs` proves for `EspInstall`, for any versions of Windows and any treatment of the restore
script's calls:

| Theorem | Property | Rests on |
|---|---|---|
| `ScriptTypes` | `TypeOK` | `ScriptInv` |
| `RefusalsAreClean` | `RefusalTouchesNothing` | `ScriptInv` |
| `RestoreIsHarmless` | `RestoreChangesNoLoader` | `ScriptInv` |
| `WindowsIsNeverLost` | `WindowsIsOnTheBootPath` | `LoaderInv` |
| `BackupIsTheDeployedLoader` | `BackupIsCurrent` | `LoaderInv` |
| `LastCopiesAreKept` | `OnlyCopiesAreKept` (action property) | `ScriptInv` |

`ScriptInv` is what a run knows of the partition at each point: which copies may be left (`Plans`), that
nothing has been written before the point of no return (`Untouched`), and what the copies already made
have put in place (`Backed`, `FallbackSet`, `FallbackBackup`, `ConfigIsNew`, `Restorable`, `Restored`). It
holds whichever files are damaged. `LoaderInv` adds where the deployed loader is: as
`bootmgfw.efi` wherever that passes for Windows, else as the backup; and it is the backup from the
moment it has been verified until GpuCheck stands in front of it. That is why an interruption is
harmless at any point: the file being copied is never the one that has the loader. `Trustworthy`, under
which these two properties are claimed, is used exactly where a restore takes a damaged backup for
a whole one. `RestoreIsHarmless` is about the script as PowerShell runs it: what its calls throw or answer
stops it, or leaves it with nothing to do, before every step that writes, so that the only run to
complete is one without an original. The theorems hold for any set of versions; the run's symmetry is not needed.

`PciScanProofs` proves for `PciScan`, for any number of devices and functions, any machines and root
bridges the assumptions allow, and any capacity of the list:

| Theorem | Property |
|---|---|
| `ScanTypes` | `TypeOK` |
| `AdaptersAreListedOnce` | `NoAdapterTwice` |
| `ReadableAdaptersAreListed` | `NoReadableAdapterMissed` |
| `TheListIsSorted` | `ListIsSorted` |
| `TruncationIsReal` | `TruncatedMeansMore` |

All rest on `ScanInv`. Two adapters on the list are different slots (`Distinct`), and a slot on the list
is a function that is there (`Listed`): a device that ignores the function number is a single function,
so its other seven numbers are never recorded. What was visited and could be read is on the list, or
the list is full (`Visited`); of the root-bridge pass, also what is still ahead in the present range
(`Covered`). A full list that reports truncation has met an adapter that is not on it (`Truncated`), and
stays so through the sort, since a round only permutes the list. `TruncationIsReal` then counts: the
list and that adapter are `Capacity + 1` different adapters of the machine, by the pigeonhole
principle of the library (`FS_Injection`). `InOrder` is the loop invariant of the sort: the first
`sorted` adapters are in order.

`GpuConfigProofs` proves for `GpuConfig`, for every set of files that `ConfigAssumption` describes:
lines, values and marks of any number and length, in any order, and any limits on what is read and
kept. The assumption says what an author may mean by a file: a value contains neither newline nor
comment sign and does not begin or end with a blank; anything else may be in it, another `=` or the
name of a key included.

| Theorem | Property | Rests on |
|---|---|---|
| `HexIsParsed` | (no run: `ParseHex16(val) = Hex(val)`) | lemmas `HexRunIs`, `NumbersIs`, `HexDigit` |
| `DecIsParsed` | (no run: `ParseDec` against `Number`) | lemmas `DecRunIs`, `NumbersIs` |
| `ConfigTypes` | `TypeOK` | `IInv` |
| `LastGoodSettingIsInForce` | `LastGoodSettingWins` | `IInv` |

What a file leaves in force depends on all its lines, and a number on all its digits, so both
theorems need induction over data. The library's induction and recursion theorems take operators,
which the provers cannot instantiate; the module does it with *sets* instead. `Least` is the least
element of a set of natural numbers, from the library's well-founded order; `Induction` and
`InductionTo` are induction over a set of numbers; `Recursion` builds, from a step given as a
function, the function that runs it. With these `HexRunIs`, `DecRunIs`, `NumbersIs` and `PrefixIs` show
that the recursive functions of the model satisfy their own equations.

* *Values.* `HexIsParsed` relates two ways to read a number: digit by digit with a count of the
  significant ones, and by what the digits denote. Along the digits, `acc` is the number so far as long
  as that fits 16 bits, `count` is the number of its digits, and a fifth significant digit is exactly
  a number of 65536 or more (`HexAt`). `DecIsParsed` has the corresponding argument for the limit of
  3600: giving up early is not giving up too early.
* *A line.* `LineParsed`: what `ParseBuffer` does with the beginning of a line, wherever it ends.
  If all of the setting is there, the line has its effect, whatever blanks and comment stand around
  it, and none if it lacks a key or the `=`; if not, only the fields of its own key can change.
* *The file.* `Prefix` gives each line a place; `LineStands` says that the line is there and its
  newline behind it, so that `Before(rest, "\n")` is that line, or what the limit has left of it.
* *The invariant*, `IInv` with `Where`: the text is the bytes read, behind the mark; between two lines
  every key has what the last good line among those passed means, or its default (`AfterLine`); once
  the cut line has been read, every key but its own does (`InCut`). `LastGoodSettingWins` speaks of the
  end only and says nothing of the position; the invariant ties the position to a number of lines.

**Only model-checked, and why.** The liveness properties (`UntouchedCountdownBoots`,
`EveryTurnReachesTheOperator`, `ScanEnds`, `WalkEventuallyEnds`): the prover has neither fairness nor
`ENABLED`. Every other property of a passing run, state or action, is a theorem. The claims of
section 3 that a run refutes are not, of course.

## 5. What is left out

* Colours, wording, tables of names, decoded link speeds: printed and never read back.
* In `PciScan`, a header type that reads as all ones while the rest of the header does not; in
  `GpuConfig`, letter-by-letter comparison of keys, file contents with characters of no meaning, and
  UTF-16 files without a byte-order mark, which the code takes for text.
* In `PciScan`, the counter `TotalPciFunctions`; in `PciAdapter`, the decoded link speed and width.
* In the scripts, everything before the first write, which can only end the run, and dry runs, which
  write nothing; a copy whose hash does not match, which ends the run as an interruption does; concurrent
  runs of two scripts on one partition.
* `inspect-esp.ps1` changes nothing; `Compat/` stands in for library functions whose outcome is what
  the models take, except for the two string functions in `OwnPath`; the build and its checks are
  not part of the running system. `GpuCheck`'s wording, vendor names and PCI class names are tables.
* Images that are damaged and pass the scripts' test for a genuine loader (the signer is read, the
  signature not verified, `install-gpucheck.ps1:164`) exist in the model, but
  `WindowsIsOnTheBootPath` is not claimed for them where the restore script's calls bind
  (`Trustworthy`): a restore would then trust a damaged backup.

## 6. Plan

Every component with state of its own is modelled: boot loop, screen, log, own path, loader search,
scripts, scan, adapter, configuration. Every safety property of a passing run is a theorem. What
remains is decisions that no document makes yet: which loader a restore should leave when Windows has
put a newer one in place (`restore-gpucheck.ps1:222`), and what the scripts should ask of a
signature. A property can be stated once they are made.

Out of reach are the composition of `WindowsBoot`'s single steps inside `BootFlow` (the product of
the two state spaces; `BootFlow` takes the search's outcome, any loader or none, which covers it).
