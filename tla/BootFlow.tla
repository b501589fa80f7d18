------------------------------ MODULE BootFlow ------------------------------
(***************************************************************************)
(* The boot loop of GpuCheck.c: UefiMain with everything it calls to talk  *)
(* to the operator (RenderScreen's paging, WaitForAction, WaitForAnyKey,   *)
(* DrainKeystrokes, ShowDetails, ShowBootError, PowerOff), interleaved     *)
(* with a firmware keyboard queue, adapters and disks that come and go     *)
(* between two looks, and a Windows loader that may fail, hand control     *)
(* back or never return.                                                   *)
(*                                                                         *)
(* One step is one call that a keystroke can overtake: a whole PCI scan, a *)
(* loader search, a repaint, one ReadKeyStroke, one Stall.                 *)
(***************************************************************************)
EXTENDS Naturals, Sequences, FiniteSets, ScreenLayout

CONSTANTS
    Populations,      \* the sets of display adapters the machine may hold
    Configs,          \* the settings GpuConfigLoad may return
    Rows,             \* mRows, the height of the console
    TicksPerSecond,   \* polls of 50 ms to a second of countdown (20)
    DrainLimit,       \* keystrokes one DrainKeystrokes discards (256)
    KeyBuffer,        \* keystrokes the firmware's input queue can hold
    Unset, Any        \* EXPECT_* not given; EXPECT_DEVICE=ANY

Adapters == UNION Populations

(* AUTOBOOT_DELAY is never zero: ApplySetting turns 0 into 1. *)
ASSUME ConfigsAssumption ==
    \A c \in Configs :
        /\ c.autoboot \in BOOLEAN
        /\ c.halt \in BOOLEAN
        /\ c.notice \in BOOLEAN
        /\ c.delay \in Nat \ {0}

ASSUME RowsAssumption == Rows \in Nat

ASSUME TicksAssumption == TicksPerSecond \in Nat \ {0}

(* What the firmware can have queued, one DrainKeystrokes can discard. *)
ASSUME DrainAssumption ==
    /\ DrainLimit \in Nat
    /\ KeyBuffer \in Nat
    /\ KeyBuffer =< DrainLimit

ASSUME PopulationsAssumption == \A p \in Populations : IsFiniteSet(p)

Keys == {"esc", "enter", "r", "p", "n", "other"}

(* A queued keystroke; fresh if it was typed after the last repaint. *)
KeyQueue == Seq([key : Keys, fresh : BOOLEAN])

(* The screen last painted, and the point UefiMain has reached. *)
Screens == {"none", "main", "details", "error", "refused"}

Waiting  == {"drain", "poll", "quiet", "headless"}
Looking  == {"scan", "find", "render"}
Gone     == {"off", "os"}
Control  == Waiting \union Looking \union Gone
              \union {"poweroff", "boot", "chainload", "windows"}

VARIABLES
    config,         \* Config, loaded once
    conIn,          \* gST->ConIn # NULL
    queue,          \* keystrokes the firmware holds
    results,        \* Results: the adapters of the last scan
    targetPresent,  \* Verdict.TargetPresent
    targetFound,    \* Target.Found
    attempted,      \* BootAttempted
    page,           \* mPage
    pc, screen,
    useTimeout, remaining, ticks,  \* locals of WaitForAction
    drained,        \* Guard of DrainKeystrokes
    (* History, read by the properties and by no action's guard. *)
    waited,         \* polls spent waiting on this screen while counting down
    touched,        \* a keystroke was taken since the main screen was painted
    cause,          \* what made WaitForAction return ActionBoot
    launches,       \* chainloads so far, counted up to 2
    owesKey         \* a shutdown was refused, no key acknowledged it yet

fixed   == <<config, conIn>>
scanned == <<results, targetPresent, targetFound>>
waitvars == <<useTimeout, remaining, ticks, drained, waited>>
vars == <<fixed, queue, scanned, attempted, page, pc, screen,
          waitvars, touched, cause, launches, owesKey>>

-----------------------------------------------------------------------------
(* ComputeVerdict *)

Discrete(found) == \E a \in found : a.discrete

UsingExpectation(c) == c.vendor # Unset \/ c.device # Unset

Expected(found, c) ==
    \E a \in found :
        /\ c.vendor \in {Unset, a.vendor}
        /\ c.device \in {Unset, Any, a.device}

Verdict(found, c) ==
    /\ found # {}
    /\ IF UsingExpectation(c) THEN Expected(found, c) ELSE Discrete(found)

(* Faults for WillAutoboot: without the latch, and with HALT_WHEN_MISSING  *)
(* overriding AUTOBOOT_WHEN_FOUND.                                         *)
WillAutoboot_NoLatch ==
    config.autoboot /\ (targetPresent \/ ~config.halt)
WillAutoboot_Override ==
    ~attempted /\ ((config.autoboot /\ targetPresent) \/ ~config.halt)

(* The countdown may start: nothing was launched yet, and what we were     *)
(* looking for is there or need not be.                                    *)
WillAutoboot ==
    /\ ~attempted
    /\ config.autoboot
    /\ targetPresent \/ ~config.halt

-----------------------------------------------------------------------------
TypeOK ==
    /\ config \in Configs
    /\ conIn \in BOOLEAN
    /\ queue \in KeyQueue
    /\ results \in SUBSET Adapters
    /\ targetPresent \in BOOLEAN
    /\ targetFound \in BOOLEAN
    /\ attempted \in BOOLEAN
    /\ page \in Nat
    /\ pc \in Control
    /\ screen \in Screens
    /\ useTimeout \in BOOLEAN
    /\ remaining \in Nat
    /\ ticks \in Nat
    /\ drained \in 0 .. DrainLimit
    /\ waited \in Nat
    /\ touched \in BOOLEAN
    /\ cause \in {"none", "key", "timeout"}
    /\ launches \in 0 .. 2
    /\ owesKey \in BOOLEAN

(* The entry: the watchdog is off, the configuration is loaded, and keys   *)
(* held during POST may already sit in the queue.                          *)
Init ==
    /\ config \in Configs
    /\ conIn \in BOOLEAN
    /\ queue \in {<<>>} \union
         (IF conIn /\ KeyBuffer > 0
          THEN {<<[key |-> k, fresh |-> FALSE]>> : k \in Keys} ELSE {})
    /\ results = {} /\ targetPresent = FALSE /\ targetFound = FALSE
    /\ attempted = FALSE
    /\ page = 0
    /\ pc = "scan" /\ screen = "none"
    /\ useTimeout = FALSE /\ remaining = 0 /\ ticks = 0 /\ drained = 0
    /\ waited = 0 /\ touched = FALSE /\ cause = "none"
    /\ launches = 0 /\ owesKey = FALSE

-----------------------------------------------------------------------------
(* Pieces shared by the actions. *)

(* Fault for BeginWait: the wait does not drain the queue first. *)
BeginWait_NoDrain(timeout, seconds) ==
    /\ pc' = IF conIn THEN "poll" ELSE "headless"
    /\ drained' = 0
    /\ useTimeout' = timeout
    /\ remaining' = seconds
    /\ ticks' = 0
    /\ waited' = 0

(* Enter WaitForAction, or WaitForAnyKey, which counts nothing down. *)
BeginWait(timeout, seconds) ==
    /\ pc' = "drain"
    /\ drained' = 0
    /\ useTimeout' = timeout
    /\ remaining' = seconds
    /\ ticks' = 0
    /\ waited' = 0

(* Return from the wait: its locals are gone.  The history of the time it  *)
(* took is only of interest if the countdown ended it.                     *)
EndWait(spent) ==
    /\ useTimeout' = FALSE
    /\ remaining' = 0
    /\ ticks' = 0
    /\ drained' = 0
    /\ waited' = spent

(* Paint screen s.  Whatever is still queued was typed at an older screen. *)
Paint(s, keys) ==
    /\ screen' = s
    /\ queue' = [i \in DOMAIN keys |-> [keys[i] EXCEPT !.fresh = FALSE]]

(* ShowBootError up to its first WaitForAction. *)
ShowBootError ==
    /\ Paint("error", queue)
    /\ BeginWait(FALSE, 0)

-----------------------------------------------------------------------------
(* One turn of UefiMain's loop up to the wait. *)

(* Adapters are pulled and put in at any time, so a scan may see any       *)
(* population, whatever the last one saw.                                  *)
GpuScanPci ==
    /\ pc = "scan"
    /\ results' \in Populations
    /\ targetPresent' = Verdict(results', config)
    /\ pc' = "find"
    /\ UNCHANGED <<fixed, queue, targetFound, attempted, page, screen,
                   waitvars, touched, cause, launches, owesKey>>

(* So are disks: a search finds a loader, or none.                         *)
FindLoader ==
    /\ pc = "find"
    /\ targetFound' \in BOOLEAN
    /\ pc' = "render"
    /\ UNCHANGED <<fixed, queue, results, targetPresent, attempted,
                   page, screen, waitvars, touched, cause, launches, owesKey>>

(* Fault for PageShown: the page is kept as it is. *)
PageShown_Kept == page

(* The page RenderScreen shows: mPage, or the first one if the adapters of *)
(* this scan fill fewer pages.                                             *)
PageShown ==
    IF page >= TotalPages(Cardinality(results), Rows, config.notice)
    THEN 0 ELSE page

(* RenderScreen, which also brings mPage back into range, then the call of *)
(* WaitForAction.                                                          *)
Render ==
    /\ pc = "render"
    /\ page' = PageShown
    /\ Paint("main", queue)
    /\ BeginWait(WillAutoboot, config.delay)
    /\ touched' = FALSE
    /\ cause' = "none"
    /\ UNCHANGED <<fixed, scanned, attempted, launches, owesKey>>

-----------------------------------------------------------------------------
(* DrainKeystrokes, one ReadKeyStroke at a time. *)

(* Fault for MoreToDrain: one key too many. *)
MoreToDrain_OffByOne == conIn /\ queue # <<>> /\ drained =< DrainLimit

MoreToDrain == conIn /\ queue # <<>> /\ drained < DrainLimit

(* Fault for DrainKey: the keys are not counted. *)
DrainKey_Uncounted ==
    /\ pc = "drain" /\ MoreToDrain
    /\ queue' = Tail(queue)
    /\ UNCHANGED <<fixed, scanned, attempted, page, pc, screen, waitvars,
                   touched, cause, launches, owesKey>>

DrainKey ==
    /\ pc = "drain" /\ MoreToDrain
    /\ queue' = Tail(queue)
    /\ drained' = drained + 1
    /\ UNCHANGED <<fixed, scanned, attempted, page, pc, screen,
                   useTimeout, remaining, ticks, waited, touched, cause,
                   launches, owesKey>>

DrainDone ==
    /\ pc = "drain" /\ ~MoreToDrain
    /\ pc' = IF conIn THEN "poll" ELSE "headless"
    /\ UNCHANGED <<fixed, queue, scanned, attempted, page, screen,
                   waitvars, touched, cause, launches, owesKey>>

-----------------------------------------------------------------------------
(* Keystrokes taken while a screen waits. *)

(* ReadKeyStroke returned key k of the screens ss. *)
Take(ss, k) ==
    /\ pc = "poll" /\ screen \in ss
    /\ queue # <<>> /\ Head(queue).key = k
    /\ touched' = TRUE
    /\ owesKey' = (owesKey /\ ~Head(queue).fresh)

(* ESC: ShowDetails, which ends in WaitForAnyKey. *)
KeyDetails ==
    /\ Take({"main"}, "esc")
    /\ Paint("details", Tail(queue))
    /\ BeginWait(FALSE, 0)
    /\ UNCHANGED <<fixed, scanned, attempted, page, cause, launches>>

(* ENTER: the operator decides to boot. *)
KeyBoot ==
    /\ Take({"main"}, "enter")
    /\ queue' = Tail(queue)
    /\ cause' = "key"
    /\ pc' = "boot"
    /\ EndWait(0)
    /\ UNCHANGED <<fixed, scanned, attempted, page, screen,
                   launches>>

(* R, on the main screen or as the retry of the error screen. *)
KeyRescan ==
    /\ Take({"main", "error"}, "r")
    /\ queue' = Tail(queue)
    /\ page' = 0
    /\ pc' = "scan"
    /\ EndWait(0)
    /\ UNCHANGED <<fixed, scanned, attempted, screen, cause,
                   launches>>

KeyPowerOff ==
    /\ Take({"main", "error"}, "p")
    /\ queue' = Tail(queue)
    /\ pc' = "poweroff"
    /\ EndWait(0)
    /\ UNCHANGED <<fixed, scanned, attempted, page, screen,
                   cause, launches>>

KeyNextPage ==
    /\ Take({"main"}, "n")
    /\ queue' = Tail(queue)
    /\ page' = page + 1
    /\ pc' = "scan"
    /\ EndWait(0)
    /\ UNCHANGED <<fixed, scanned, attempted, screen, cause,
                   launches>>

(* Fault for KeyOther: the countdown goes on. *)
KeyOther_Ignored ==
    /\ Take({"main", "error"}, "other")
    /\ queue' = Tail(queue)
    /\ UNCHANGED <<fixed, scanned, attempted, page, pc, screen, waitvars,
                   cause, launches>>

(* Any other key stops the countdown, and the read loop goes on. *)
KeyOther ==
    /\ Take({"main", "error"}, "other")
    /\ queue' = Tail(queue)
    /\ useTimeout' = FALSE
    /\ UNCHANGED <<fixed, scanned, attempted, page, pc, screen,
                   remaining, ticks, drained, waited, cause, launches>>

(* ShowBootError ignores the actions it has no use for and waits again. *)
KeyIgnoredByError ==
    /\ \E k \in {"esc", "enter", "n"} : Take({"error"}, k)
    /\ queue' = Tail(queue)
    /\ BeginWait(FALSE, 0)
    /\ UNCHANGED <<fixed, scanned, attempted, page, screen, cause,
                   launches>>

(* WaitForAnyKey returns, from the details or from a refused shutdown. *)
KeyReturns ==
    /\ \E k \in Keys : Take({"details", "refused"}, k)
    /\ queue' = Tail(queue)
    /\ pc' = "scan"
    /\ EndWait(0)
    /\ UNCHANGED <<fixed, scanned, attempted, page, screen,
                   cause, launches>>

-----------------------------------------------------------------------------
(* The countdown. *)

NoKey ==
    /\ pc = "poll" /\ queue = <<>>
    /\ pc' = "quiet"
    /\ UNCHANGED <<fixed, queue, scanned, attempted, page, screen,
                   waitvars, touched, cause, launches, owesKey>>

(* The keyboard was read and was silent, and the time is up. *)
Expire ==
    /\ pc = "quiet" /\ useTimeout /\ remaining = 0
    /\ cause' = "timeout"
    /\ pc' = "boot"
    /\ EndWait(waited)
    /\ UNCHANGED <<fixed, queue, scanned, attempted, page, screen, touched, launches, owesKey>>

(* Faults for CountTick: the ticks are not reset after a second, and they  *)
(* are reset at every tick, so that no time ever passes.                   *)
CountTick_NoReset ==
    /\ waited' = waited + 1
    /\ ticks' = ticks + 1
    /\ remaining' = IF ticks + 1 >= TicksPerSecond /\ remaining > 0
                    THEN remaining - 1 ELSE remaining
CountTick_AlwaysReset ==
    /\ waited' = waited
    /\ ticks' = 0
    /\ remaining' = IF ticks + 1 >= TicksPerSecond /\ remaining > 0
                    THEN remaining - 1 ELSE remaining

(* A second has passed when TicksPerSecond stalls have. *)
CountTick ==
    /\ waited' = waited + 1
    /\ ticks' = IF ticks + 1 >= TicksPerSecond THEN 0 ELSE ticks + 1
    /\ remaining' = IF ticks + 1 >= TicksPerSecond /\ remaining > 0
                    THEN remaining - 1 ELSE remaining

(* Stall for 50 ms, and count it while a countdown runs. *)
Tick ==
    /\ pc = "quiet" /\ ~(useTimeout /\ remaining = 0)
    /\ pc' = "poll"
    /\ \/ useTimeout /\ CountTick
       \/ ~useTimeout /\ UNCHANGED <<waited, ticks, remaining>>
    /\ UNCHANGED <<fixed, queue, scanned, attempted, page, screen,
                   useTimeout, drained, touched, cause, launches, owesKey>>

(* Without a console input device a requested countdown runs in whole      *)
(* seconds.                                                                *)
HeadlessTick ==
    /\ pc = "headless" /\ useTimeout /\ remaining > 0
    /\ remaining' = remaining - 1
    /\ waited' = waited + TicksPerSecond
    /\ UNCHANGED <<fixed, queue, scanned, attempted, page, pc, screen,
                   useTimeout, ticks, drained, touched, cause, launches,
                   owesKey>>

HeadlessBoot ==
    /\ pc = "headless" /\ useTimeout /\ remaining = 0
    /\ cause' = "timeout"
    /\ pc' = "boot"
    /\ EndWait(waited)
    /\ UNCHANGED <<fixed, queue, scanned, attempted, page, screen, touched, launches, owesKey>>

(* Without either, the machine stalls on this screen for ever.             *)
HeadlessHalt ==
    /\ pc = "headless" /\ ~useTimeout
    /\ UNCHANGED vars

-----------------------------------------------------------------------------
(* PowerOff *)

PowerOffHonoured ==
    /\ pc = "poweroff"
    /\ pc' = "off"
    /\ UNCHANGED <<fixed, queue, scanned, attempted, page, screen,
                   waitvars, touched, cause, launches, owesKey>>

(* Fault for PowerOffRefused: the loop goes on at once. *)
PowerOffRefused_FallsThrough ==
    /\ pc = "poweroff"
    /\ pc' = "scan"
    /\ owesKey' = TRUE
    /\ UNCHANGED <<fixed, queue, scanned, attempted, page, screen, waitvars,
                   touched, cause, launches>>

(* ResetSystem returned: hold the message with WaitForAnyKey.  After an    *)
(* error screen the list starts again from its first page.                 *)
PowerOffRefused ==
    /\ pc = "poweroff"
    /\ Paint("refused", queue)
    /\ BeginWait(FALSE, 0)
    /\ page' = IF screen = "error" THEN 0 ELSE page
    /\ owesKey' = TRUE
    /\ UNCHANGED <<fixed, scanned, attempted, touched, cause, launches>>

-----------------------------------------------------------------------------
(* ActionBoot and the Windows loader *)

BootNotFound ==
    /\ pc = "boot" /\ ~targetFound
    /\ ShowBootError
    /\ UNCHANGED <<fixed, scanned, attempted, page, touched, cause,
                   launches, owesKey>>

(* Fault for BootChainload: BootAttempted is not set. *)
BootChainload_NoLatch ==
    /\ pc = "boot" /\ targetFound
    /\ launches' = IF launches < 2 THEN launches + 1 ELSE launches
    /\ pc' = "chainload"
    /\ UNCHANGED <<fixed, queue, scanned, attempted, page, screen, waitvars,
                   touched, cause, owesKey>>

BootChainload ==
    /\ pc = "boot" /\ targetFound
    /\ attempted' = TRUE
    /\ launches' = IF launches < 2 THEN launches + 1 ELSE launches
    /\ pc' = "chainload"
    /\ UNCHANGED <<fixed, queue, scanned, page, screen, waitvars,
                   touched, cause, owesKey>>

(* WinBootChainload could not load the image: refused, damaged, or no      *)
(* longer where the search had seen it.                                    *)
ChainloadFails ==
    /\ pc = "chainload"
    /\ ShowBootError
    /\ UNCHANGED <<fixed, scanned, attempted, page, touched, cause,
                   launches, owesKey>>

ChainloadStarts ==
    /\ pc = "chainload"
    /\ pc' = "windows"
    /\ UNCHANGED <<fixed, queue, scanned, attempted, page, screen,
                   waitvars, touched, cause, launches, owesKey>>

(* StartImage returned: without an error back to the first page of the     *)
(* screen, with one to the error screen.                                   *)
LoaderReturns ==
    /\ pc = "windows"
    /\ page' = 0
    /\ pc' = "scan"
    /\ UNCHANGED <<fixed, queue, scanned, attempted, screen, waitvars,
                   touched, cause, launches, owesKey>>

LoaderFails ==
    /\ pc = "windows"
    /\ ShowBootError
    /\ UNCHANGED <<fixed, scanned, attempted, page, touched, cause,
                   launches, owesKey>>

-----------------------------------------------------------------------------
(* The operator and the Windows loader's own steps *)

Type ==
    /\ conIn /\ pc \notin Gone /\ Len(queue) < KeyBuffer
    /\ \E k \in Keys : queue' = Append(queue, [key |-> k, fresh |-> TRUE])
    /\ UNCHANGED <<fixed, scanned, attempted, page, pc, screen,
                   waitvars, touched, cause, launches, owesKey>>

LoaderReadsKey ==
    /\ pc = "windows" /\ queue # <<>>
    /\ queue' = Tail(queue)
    /\ UNCHANGED <<fixed, scanned, attempted, page, pc, screen,
                   waitvars, touched, cause, launches, owesKey>>

(* Windows calls ExitBootServices: the firmware application is no more. *)
LoaderBootsWindows ==
    /\ pc = "windows"
    /\ pc' = "os"
    /\ UNCHANGED <<fixed, queue, scanned, attempted, page, screen,
                   waitvars, touched, cause, launches, owesKey>>

(* Nothing of GpuCheck runs any more. *)
Finished ==
    /\ pc \in Gone
    /\ UNCHANGED vars

-----------------------------------------------------------------------------
TakeKey ==
    \/ KeyDetails \/ KeyBoot \/ KeyRescan \/ KeyPowerOff \/ KeyNextPage
    \/ KeyOther \/ KeyIgnoredByError \/ KeyReturns

Program ==
    \/ GpuScanPci \/ FindLoader \/ Render
    \/ DrainKey \/ DrainDone
    \/ TakeKey
    \/ NoKey \/ Expire \/ Tick
    \/ HeadlessTick \/ HeadlessBoot \/ HeadlessHalt
    \/ PowerOffHonoured \/ PowerOffRefused
    \/ BootNotFound \/ BootChainload \/ ChainloadFails \/ ChainloadStarts

Environment ==
    \/ Type
    \/ LoaderReadsKey \/ LoaderReturns \/ LoaderFails \/ LoaderBootsWindows

Next == Program \/ Environment \/ Finished

Spec == Init /\ [][Next]_vars

(* GpuCheck is the only thing the processor runs until it hands over, so   *)
(* its own steps are never put off for ever; nothing is assumed of the     *)
(* operator or of the Windows loader.                                      *)
FairSpec == Spec /\ WF_vars(Program)
-----------------------------------------------------------------------------
(* Safety *)

(* Nothing boots by itself unless the adapters of the scan on the screen   *)
(* contain what was looked for, or HALT_WHEN_MISSING is 0; and never with  *)
(* AUTOBOOT_WHEN_FOUND=0.  (README: "never auto-continues into Windows     *)
(* when the GPU it was looking for is absent".)                            *)
NoUnattendedBootWhenMissing ==
    pc \in {"boot", "chainload", "windows"} /\ cause = "timeout" =>
        /\ config.autoboot
        /\ config.halt => Verdict(results, config)

(* A keystroke typed before the screen it would answer was painted is      *)
(* never taken as an answer (the comment on DrainKeystrokes).              *)
NoStaleAnswer ==
    pc \in {"poll", "quiet"} => \A i \in DOMAIN queue : queue[i].fresh

(* An unattended boot gives the operator the whole AUTOBOOT_DELAY of this  *)
(* very screen to intervene, whatever was shown and counted before.        *)
FullDelayBeforeBoot ==
    pc = "boot" /\ cause = "timeout" => waited >= config.delay * TicksPerSecond

(* "Any other key means a human is here": once a keystroke was taken on a  *)
(* screen, no countdown of that screen boots.                              *)
TouchedScreenNeverBoots ==
    pc = "boot" /\ cause = "timeout" => ~touched

(* A refused shutdown is held on the screen until a key typed at that      *)
(* screen acknowledges it; no countdown runs meanwhile (the comment after  *)
(* PowerOff in UefiMain).                                                  *)
RefusedShutdownHolds ==
    owesKey => pc \in Waiting /\ ~useTimeout

(* The page on the screen has an adapter on it whenever there is one, also *)
(* when a rescan found fewer adapters than the page was counted for.       *)
PageShowsSomething ==
    pc \in Waiting /\ screen = "main" /\ results # {} =>
        page * PerPage(Cardinality(results), Rows, config.notice)
            < Cardinality(results)

-----------------------------------------------------------------------------
(* Action properties *)

(* After the first chainload the countdown never launches another: every   *)
(* relaunch is the operator's (the comment on BootAttempted).              *)
RelaunchNeedsOperator ==
    [][pc = "boot" /\ pc' = "chainload" /\ launches > 0 => cause = "key"]_vars

-----------------------------------------------------------------------------
(* Liveness *)

Armed == pc \in Waiting /\ screen = "main" /\ useTimeout

(* A countdown nobody touches ends in the boot it announces, with or       *)
(* without an input device.                                                *)
UntouchedCountdownBoots == Armed ~> touched \/ (pc = "boot" /\ cause = "timeout")

(* However many keys are hammered in, a turn of the loop reaches a screen  *)
(* that listens.                                                           *)
EveryTurnReachesTheOperator == pc \in Looking ~> pc \in {"poll", "headless"}

-----------------------------------------------------------------------------
(* BootFlow implements BootPolicy. *)

PolicyMode ==
    CASE pc \in Looking -> "looking"
      [] pc \in Waiting /\ screen = "main" ->
           IF useTimeout THEN "counting" ELSE "holding"
      [] pc \in Waiting /\ screen = "error" -> "failed"
      [] pc \in Waiting /\ screen \notin {"main", "error"} -> "aside"
      [] pc = "poweroff" -> "stopping"
      [] pc = "boot" -> "starting"
      [] pc \in {"chainload", "windows"} -> "running"
      [] pc \in Gone -> "gone"

Policy == INSTANCE BootPolicy WITH
    mode      <- PolicyMode,
    permitted <- config.autoboot /\ (Verdict(results, config) \/ ~config.halt),
    launched  <- attempted,
    asked     <- cause = "key"

(* Every behaviour of the boot loop is one the policy allows. *)
ImplementsPolicy == Policy!Spec
=============================================================================
