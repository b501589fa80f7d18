-------------------------------- MODULE Turn --------------------------------
(***************************************************************************)
(* One turn of UefiMain of GpuCheck.c around Screen, GpuLog and OwnPath:   *)
(* the text mode is chosen once; then every turn of the loop scans, asks   *)
(* for its own path while it searches for a loader, writes the log of the  *)
(* scan, paints it, and waits for a key that starts the next turn.  The    *)
(* power may fail anywhere; only the partition outlives that.              *)
(***************************************************************************)
EXTENDS Screen, GpuLog, OwnPath

ASSUME TurnAssumption == MaxDevices =< MostAdapters

VARIABLE stage

vars == <<results, notice, screenVars, logVars, pathVars, stage>>

TypeOK ==
    /\ ScreenTypeOK /\ LogTypeOK /\ PathTypeOK
    /\ stage \in {"select", "scan", "find", "log", "paint", "wait"}

NoResults == [count |-> 0, fallback |-> FALSE, overflow |-> FALSE]

Init ==
    /\ ScreenInit /\ LogInit /\ PathInit
    /\ results = NoResults
    /\ stage = "select"

-----------------------------------------------------------------------------
Select ==
    /\ stage = "select"
    /\ SelectTextMode
    /\ stage' = "scan"
    /\ UNCHANGED <<logVars, pathVars>>

(* GpuScanPci finds what it finds. *)
Scan ==
    /\ stage = "scan"
    /\ results' \in ScanResults
    /\ file' = Outdated(file)
    /\ stage' = "find"
    /\ UNCHANGED <<notice, screenVars, mLogPos, root, log, logStatus, logPc,
                   dropped, pathVars>>

(* WinBootFindLoader, whose guard needs our own path. *)
Find ==
    /\ stage = "find"
    /\ \/ PathNext /\ UNCHANGED stage
       \/ pathPc = "done" /\ ForgetPath /\ stage' = "log"
    /\ UNCHANGED <<results, notice, screenVars, logVars>>

(* LOG_ENABLE and a known volume of our own, or no log. *)
Log ==
    /\ stage = "log"
    /\ \/ (BuildLog(results.count) \/ LogDisabled \/ LogNext) /\ UNCHANGED stage
       \/ logPc = "done" /\ stage' = "paint" /\ UNCHANGED logVars
    /\ UNCHANGED <<results, notice, screenVars, pathVars>>

(* RenderScreen. *)
RenderScreen ==
    /\ stage = "paint"
    /\ \/ (PaintTop \/ PaintAdapter \/ PaintBottom) /\ UNCHANGED stage
       \/ /\ screenPc = "painted" /\ stage' = "wait"
          /\ UNCHANGED <<results, notice, screenVars>>
    /\ UNCHANGED <<logVars, pathVars>>

(* WaitForAction: N turns the page, R and a failed or ended boot go back   *)
(* to the first one, ESC and a refused shutdown keep it.                   *)
NextTurn ==
    /\ stage = "wait"
    /\ mPage' \in {mPage + 1, 0, mPage}
    /\ screenPc' = "clear" /\ listed' = 0 /\ line' = 0
    /\ logPc' = "idle" /\ logStatus' = "none" /\ dropped' = {}
    /\ stage' = "scan"
    /\ UNCHANGED <<results, notice, mode, mRows, file, mLogPos, root, log, pathVars>>

(* The power fails; what the firmware had not flushed may be lost.  The    *)
(* program starts again, perhaps with another configuration file.          *)
PowerLoss ==
    /\ stage # "select"
    /\ notice' \in BOOLEAN
    /\ mode' \in StartModes
    /\ mRows' = DefaultRows /\ mPage' = 0
    /\ listed' = 0 /\ line' = 0 /\ screenPc' = "select"
    /\ \/ UNCHANGED file
       \/ log /\ \E n \in 0 .. file.fresh : file' = File(n, file.stale)
    /\ mLogPos' = 0 /\ root' = FALSE /\ log' = FALSE
    /\ logStatus' = "none" /\ logPc' = "idle" /\ dropped' = {}
    /\ ForgetPath
    /\ results' = NoResults
    /\ stage' = "select"

Next == Select \/ Scan \/ Find \/ Log \/ RenderScreen \/ NextTurn \/ PowerLoss

Spec == Init /\ [][Next]_vars

-----------------------------------------------------------------------------
(* README.md: "each scan is written to \EFI\GPUCHECK\lastscan.txt".  While *)
(* a scan is on the screen whose log was reported written, whatever        *)
(* interrupted that log or the earlier ones: the file holds something of   *)
(* an earlier scan only if the firmware refused to delete that one's log,  *)
(* and it holds less or more than the whole log of this scan only if Open  *)
(* gave no handle, Write wrote less than it was asked to, or Flush failed, *)
(* none of which GpuLogWriteScan looks at (GpuLog.c:253-278).  More cannot *)
(* be claimed: of these failures the caller hears nothing, although        *)
(* GpuLog.h:6-7 says that "every failure here is silent to the caller      *)
(* except for the returned status".                                        *)
OnlyDroppedAnswersSpoilTheLog ==
    stage \in {"paint", "wait"} /\ logStatus = "success" =>
        /\ file.stale > 0 => "delete" \in dropped
        /\ file.fresh # LogSize(results.count) =>
               dropped \intersect {"handle", "size", "flush"} # {}
=============================================================================
