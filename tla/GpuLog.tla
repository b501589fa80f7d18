------------------------------- MODULE GpuLog -------------------------------
(***************************************************************************)
(* GpuLogWriteScan of GpuLog.c: the scan log \EFI\GPUCHECK\lastscan.txt,   *)
(* deleted, created and written anew for every scan, one firmware call per *)
(* step.  Every call may fail, and the power may go between any two.       *)
(*                                                                         *)
(* Sizes are in units of one adapter's entry (at most 92 bytes).           *)
(***************************************************************************)
EXTENDS Naturals

CONSTANTS
    HeaderSize,  \* what BuildLog writes before the adapters
    LogBuffer,   \* LOG_BUFFER_SIZE - 1
    MostAdapters \* GPUCHECK_MAX_DISPLAY_DEVICES

(* The worst case fits: 2 + 32 entries of 92 bytes into 4095 bytes. *)
ASSUME LogAssumption ==
    /\ HeaderSize \in Nat /\ LogBuffer \in Nat /\ MostAdapters \in Nat
    /\ HeaderSize > 0
    /\ HeaderSize + MostAdapters =< LogBuffer

VARIABLES
    file,       \* lastscan.txt on the partition, or NoFile
    mLogPos,    \* size of the log built
    root, log,  \* Root and File are open
    logStatus,  \* what GpuLogWriteScan returned
    logPc,
    dropped     \* history: the failures that left no trace in logStatus

logVars == <<file, mLogPos, root, log, logStatus, logPc, dropped>>

(* What the code does not look at, or does not report: that the old log    *)
(* was not opened or not deleted, that Open answered success without a     *)
(* handle, that Write answered success for less than was asked, and that   *)
(* Flush failed.                                                           *)
Answers == {"delete", "handle", "size", "flush"}

(* A file holds `fresh' of the log of the latest scan, followed by `stale' *)
(* of an earlier one.                                                      *)
NoFile == [there |-> FALSE, fresh |-> 0, stale |-> 0]
File(fresh, stale) == [there |-> TRUE, fresh |-> fresh, stale |-> stale]

LogInit ==
    /\ file \in {NoFile, File(0, HeaderSize)}
    /\ mLogPos = 0
    /\ root = FALSE /\ log = FALSE
    /\ logStatus = "none" /\ logPc = "idle" /\ dropped = {}

LogTypeOK ==
    /\ file \in [there : BOOLEAN, fresh : Nat, stale : Nat]
    /\ mLogPos \in 0 .. LogBuffer
    /\ root \in BOOLEAN /\ log \in BOOLEAN /\ dropped \subseteq Answers
    /\ logStatus \in {"none", "success", "error"}
    /\ logPc \in {"idle", "open", "delete", "create", "write", "flush", "done"}

(* Return from GpuLogWriteScan. *)
Return(status) == logStatus' = status /\ logPc' = "done"

-----------------------------------------------------------------------------
(* Another scan: what is on the partition is of an earlier one now. *)
Outdated(f) == IF f.there THEN File(0, f.fresh + f.stale) ELSE f

LogSize(count) == HeaderSize + count

(* BuildLog, whose LogChar drops what does not fit. *)
BuildLog(count) ==
    /\ logPc = "idle"
    /\ mLogPos' = IF LogSize(count) =< LogBuffer THEN LogSize(count) ELSE LogBuffer
    /\ logPc' = "open"
    /\ UNCHANGED <<file, root, log, logStatus, dropped>>

(* LOG_ENABLE=0, or our own volume is not known. *)
LogDisabled ==
    /\ logPc = "idle"
    /\ logPc' = "done"
    /\ UNCHANGED <<file, mLogPos, root, log, logStatus, dropped>>

(* HandleProtocol and OpenVolume. *)
OpenVolume ==
    /\ logPc = "open"
    /\ \/ root' = TRUE /\ logPc' = "delete" /\ UNCHANGED logStatus
       \/ Return("error") /\ UNCHANGED root
    /\ UNCHANGED <<file, mLogPos, log, dropped>>

(* Fault for DeleteOld: the old log is not deleted. *)
DeleteOld_Kept ==
    /\ logPc = "delete"
    /\ logPc' = "create"
    /\ UNCHANGED <<file, mLogPos, root, log, logStatus, dropped>>

(* The directory is made, or is there; then the old log is opened and      *)
(* deleted, which closes it.  Either may fail without consequence.         *)
DeleteOld ==
    /\ logPc = "delete"
    /\ \/ file' = NoFile /\ UNCHANGED dropped
       \/ file.there /\ dropped' = dropped \union {"delete"} /\ UNCHANGED file
    /\ logPc' = "create"
    /\ UNCHANGED <<mLogPos, root, log, logStatus>>

(* Open with EFI_FILE_MODE_CREATE: an old file that is still there stays.  *)
Created == IF file.there THEN file ELSE File(0, 0)

(* The status of Open is returned as it is when there is no File to write, *)
(* even a success.                                                         *)
CreateLog ==
    /\ logPc = "create"
    /\ \/ /\ file' = Created /\ log' = TRUE /\ logPc' = "write"
          /\ UNCHANGED <<root, logStatus, dropped>>
       \/ /\ root' = FALSE /\ Return("error")
          /\ UNCHANGED <<file, log, dropped>>
       \/ /\ file' \in {file, Created}
          /\ dropped' = dropped \union {"handle"}
          /\ root' = FALSE /\ Return("success")
          /\ UNCHANGED log
    /\ UNCHANGED mLogPos

(* The file after n units were written over its beginning. *)
Overwritten(n) ==
    File(n, IF file.stale > n THEN file.stale - n ELSE 0)

(* Write, of whose answers only the status is looked at, not the Size. *)
WriteLog ==
    /\ logPc = "write"
    /\ \E n \in 0 .. mLogPos :
          /\ file' = Overwritten(n)
          /\ \/ logStatus' = "error" /\ UNCHANGED dropped
             \/ /\ logStatus' = "success"
                /\ dropped' = IF n < mLogPos THEN dropped \union {"size"} ELSE dropped
    /\ logPc' = "flush"
    /\ UNCHANGED <<mLogPos, root, log>>

(* Flush, whose answer is dropped, and Close of File and Root. *)
CloseLog ==
    /\ logPc = "flush"
    /\ \/ UNCHANGED <<file, dropped>>
       \/ \E n \in 0 .. file.fresh :
             file' = File(n, file.stale) /\ dropped' = dropped \union {"flush"}
    /\ root' = FALSE /\ log' = FALSE
    /\ Return(logStatus)
    /\ UNCHANGED mLogPos

-----------------------------------------------------------------------------
LogNext == OpenVolume \/ DeleteOld \/ CreateLog \/ WriteLog \/ CloseLog

(* The file is open for no longer than the call. *)
LogHandlesClosed == logPc \in {"idle", "done"} => ~root /\ ~log
=============================================================================
