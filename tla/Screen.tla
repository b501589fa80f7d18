------------------------------- MODULE Screen -------------------------------
(***************************************************************************)
(* What SelectTextMode and RenderScreen of GpuCheck.c do to the rows of    *)
(* the text console.  A row is one line of text, whatever it says: no line *)
(* is as wide as the 80 columns every mode has.  `line' is the row the     *)
(* cursor is in, counted from the first row painted; once it is past the   *)
(* bottom of the console, rows have scrolled off the top.                  *)
(***************************************************************************)
EXTENDS ScreenLayout, Sequences

CONSTANTS
    Modes,       \* the console's text modes, in the order of their numbers
    StartModes,  \* the modes the firmware may have left it in
    Counts,      \* how many adapters a scan may find
    MaxDevices   \* GPUCHECK_MAX_DISPLAY_DEVICES

DefaultRows == 25
WantedRows  == 34
Columns     == 80

(* Every UEFI console has the 80 by 25 mode; it is never started with less. *)
ASSUME ModesAssumption ==
    /\ Modes \in Seq([cols : Nat, rows : Nat])
    /\ StartModes \subseteq DOMAIN Modes
    /\ \A m \in StartModes : Modes[m].rows >= DefaultRows

ASSUME CountsAssumption ==
    MaxDevices \in Nat /\ Counts \subseteq 0 .. MaxDevices /\ 0 \in Counts

(* The parts of GPU_SCAN_RESULTS the screen depends on. *)
ScanResults ==
    {r \in [count : Counts, fallback : BOOLEAN, overflow : BOOLEAN] :
        r.overflow => r.count = MaxDevices}

VARIABLES
    results,   \* Results
    notice,    \* gpucheck.cfg is UTF-16
    mode,      \* ConOut->Mode->Mode
    mRows,     \* the rows the program believes the console has
    mPage,
    listed,    \* Shown: adapters printed on this page
    line,      \* the row the cursor is in
    screenPc

screenVars == <<mode, mRows, mPage, listed, line, screenPc>>

-----------------------------------------------------------------------------
(* Fault for RowsBelieved: what was asked for, not what was got. *)
RowsBelieved_Wanted(m) == {DefaultRows, WantedRows}

(* After the choice the mode in force is asked for its size; the default   *)
(* stands if it does not answer.                                           *)
RowsBelieved(m) == {DefaultRows, Modes[m].rows}

(* The smallest of the modes that answered and are tall and wide enough:   *)
(* the first one, of several.                                              *)
Best(answered) ==
    LET tall == {m \in answered :
                    Modes[m].cols >= Columns /\ Modes[m].rows >= WantedRows}
    IN  {m \in tall : \A n \in tall :
            \/ Modes[m].rows < Modes[n].rows
            \/ Modes[m].rows = Modes[n].rows /\ m =< n}

(* Any QueryMode may fail, and so may SetMode, which leaves the mode.      *)
SelectTextMode ==
    /\ screenPc = "select"
    /\ \E answered \in SUBSET DOMAIN Modes : mode' \in Best(answered) \union {mode}
    /\ mRows' \in RowsBelieved(mode')
    /\ screenPc' = "clear"
    /\ UNCHANGED <<results, notice, mPage, listed, line>>

-----------------------------------------------------------------------------
Rows(condition, n) == IF condition THEN n ELSE 0

Budget  == Overhead(results.count, notice)
Layout  == ChooseLayout(results.count, mRows, Budget)
OnePage == PerPage(results.count, mRows, notice)
Pages   == TotalPages(results.count, mRows, notice)

(* RenderHeader and the lines before the list: three rows of title, the    *)
(* count or the complaint, the two lines nobody budgeted for, blank rows.  *)
TopRows ==
    4 + (IF results.count = 0 THEN 3 ELSE 1)
      + Rows(results.fallback /\ results.count > 0, 1)
      + Rows(results.overflow, 1)
      + 1
      + Rows(notice, 1)
      + Rows(Layout = "table", 2)

PaintTop ==
    /\ screenPc = "clear"
    /\ mPage' = IF mPage >= Pages THEN 0 ELSE mPage
    /\ line' = TopRows
    /\ listed' = 0
    /\ screenPc' = "list"
    /\ UNCHANGED <<results, notice, mode, mRows>>

MoreToList ==
    /\ mPage * OnePage + listed < results.count
    /\ listed < OnePage

(* RenderDeviceDetailed prints one row less without a PCI Express link.    *)
AdapterRows ==
    IF Layout = "detailed" THEN {8, 9} ELSE IF Layout = "compact" THEN {4} ELSE {1}

PaintAdapter ==
    /\ screenPc = "list" /\ MoreToList
    /\ \E rows \in AdapterRows : line' = line + rows
    /\ listed' = listed + 1
    /\ UNCHANGED <<results, notice, mode, mRows, mPage, screenPc>>

(* The page indicator, a rule, the verdict, the legend, and the row of the *)
(* countdown if there will be one; the cursor stays in the last of them.   *)
PaintBottom ==
    /\ screenPc = "list" /\ ~MoreToList
    /\ \E willAutoboot \in BOOLEAN :
          line' = line + Rows(Pages > 1, 2) + 4 + 4 + Rows(Pages > 1, 1)
                       + Rows(willAutoboot, 1)
    /\ screenPc' = "painted"
    /\ UNCHANGED <<results, notice, mode, mRows, mPage, listed>>

-----------------------------------------------------------------------------
ScreenInit ==
    /\ notice \in BOOLEAN
    /\ mode \in StartModes
    /\ mRows = DefaultRows /\ mPage = 0
    /\ listed = 0 /\ line = 0 /\ screenPc = "select"

ScreenNext == SelectTextMode \/ PaintTop \/ PaintAdapter \/ PaintBottom

ScreenTypeOK ==
    /\ results \in ScanResults
    /\ notice \in BOOLEAN
    /\ mode \in DOMAIN Modes
    /\ mRows \in Nat /\ mPage \in Nat /\ listed \in Nat /\ line \in Nat
    /\ screenPc \in {"select", "clear", "list", "painted"}

(* Rows that have left the console at its top. *)
RowsLost ==
    IF line >= Modes[mode].rows THEN line - Modes[mode].rows + 1 ELSE 0

(* "Nothing ever scrolls the verdict off the top of the screen" (the       *)
(* comment on ChooseLayout): whatever was found, on every page and in      *)
(* every text mode, also when a mode could not be set or asked, a finished *)
(* screen has lost no more rows than the two notices RenderScreen does not *)
(* budget for, so at worst the rule above the title and the title.         *)
PageFitsConsole ==
    screenPc = "painted" =>
        RowsLost =< Rows(results.fallback, 1) + Rows(results.overflow, 1)
=============================================================================
