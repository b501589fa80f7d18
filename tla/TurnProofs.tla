----------------------------- MODULE TurnProofs -----------------------------
(***************************************************************************)
(* Proofs about Turn: the screen, the log and the path of our own file,    *)
(* for every console, every number of adapters and every size.             *)
(***************************************************************************)
EXTENDS Turn, SequenceTheorems, TLAPS

-----------------------------------------------------------------------------
(* The screen: what a page costs *)

(* The size of a console the program may find itself on. *)
Console ==
    /\ Modes[mode].rows \in Nat /\ Modes[mode].rows >= DefaultRows
    /\ mRows \in {DefaultRows, Modes[mode].rows}

(* Rows of one adapter in the layout in force, at most. *)
Height == IF Layout = "detailed" THEN 9 ELSE IF Layout = "compact" THEN 4 ELSE 1

(* Adapters on a full page. *)
FullPage == IF results.count = 0 THEN 0 ELSE OnePage

(* What RenderScreen has printed while it lists the adapters. *)
Painting ==
    screenPc = "list" => listed =< FullPage /\ line =< TopRows + Height * listed

(* The rows printed below the list. *)
BottomRows(willAutoboot) ==
    Rows(Pages > 1, 2) + 4 + 4 + Rows(Pages > 1, 1) + Rows(willAutoboot, 1)

(* Something that may or may not be printed takes its rows or none. *)
LEMMA RowsBounds ==
    \A c \in BOOLEAN, n \in Nat : Rows(c, n) \in 0 .. n
  BY DEF Rows

(* A scan finds a number of adapters. *)
LEMMA ResultTypes ==
    ASSUME ScreenTypeOK
    PROVE  results.count \in Nat /\ results.count =< MaxDevices
  <1> DEFINE Record == [count : Counts, fallback : BOOLEAN, overflow : BOOLEAN]
  <1>1. ScanResults = {r \in Record : r.overflow => r.count = MaxDevices}
    BY DEF ScanResults
  <1>2. results \in Record
    <2> HIDE DEF Record
    <2> QED
      BY <1>1 DEF ScreenTypeOK
  <1>3. results.count \in Counts
    BY <1>2
  <1>4. \A c \in Counts : c \in Nat /\ c =< MaxDevices
    BY CountsAssumption
  <1> HIDE DEF Record
  <1> QED
    BY <1>3, <1>4

(* The number of rows above the list. *)
LEMMA TopRowsBound ==
    ASSUME ScreenTypeOK
    PROVE  /\ TopRows \in Nat
           /\ TopRows =< (IF results.count = 0 THEN 8 ELSE 6)
                         + Rows(results.fallback, 1) + Rows(results.overflow, 1)
                         + Rows(notice, 1) + Rows(Layout = "table", 2)
  <1> DEFINE f == Rows(results.fallback, 1)
             g == Rows(results.fallback /\ results.count > 0, 1)
             o == Rows(results.overflow, 1)
             n == Rows(notice, 1)
             t == Rows(Layout = "table", 2)
  <1>1. notice \in BOOLEAN
    BY DEF ScreenTypeOK
  <1>2. f \in Nat /\ g \in Nat /\ o \in Nat /\ n \in Nat /\ t \in Nat
    BY DEF Rows
  <1>3. g =< f
    <2>1. CASE results.fallback
      BY <2>1 DEF Rows
    <2>2. CASE ~results.fallback
      BY <2>2 DEF Rows
    <2> QED
      BY <2>1, <2>2
  <1>4. TopRows = 4 + (IF results.count = 0 THEN 3 ELSE 1) + g + o + 1 + n + t
    BY DEF TopRows
  <1> HIDE DEF f, g, o, n, t
  <1>5. TopRows \in Nat
        /\ TopRows =< (IF results.count = 0 THEN 8 ELSE 6) + f + o + n + t
    BY <1>2, <1>3, <1>4
  <1> QED
    BY <1>5 DEF f, o, n, t

(* What the row budget gives for the list. *)
LEMMA BudgetIs ==
    ASSUME ScreenTypeOK
    PROVE  /\ Budget \in Nat
           /\ Budget = (IF results.count = 0 THEN 18 ELSE 16) + Rows(notice, 1)
  <1>1. (IF notice THEN 1 ELSE 0) = Rows(notice, 1) /\ Rows(notice, 1) \in 0 .. 1
    BY RowsBounds DEF Rows, ScreenTypeOK
  <1>2. Budget = (IF results.count = 0 THEN 8 ELSE 6) + Rows(notice, 1) + 10
    BY <1>1 DEF Budget, Overhead
  <1> QED
    BY <1>1, <1>2

(* A list that fits one page has one page. *)
LEMMA OnePageOnly ==
    ASSUME NEW c \in Nat, c > 0
    PROVE  (c + c - 1) \div c = 1
  OBVIOUS

(* There is a page for everything, and outside the table only one. *)
LEMMA PageTypes ==
    ASSUME ScreenTypeOK
    PROVE  /\ OnePage \in Nat /\ OnePage > 0
           /\ Layout # "table" =>
                /\ OnePage = IF results.count = 0 THEN 1 ELSE results.count
                /\ Pages = 1
  <1>1. results.count \in Nat /\ mRows \in Nat /\ Budget \in Nat
    BY ResultTypes, BudgetIs DEF ScreenTypeOK
  <1>2. TablePage(mRows, Budget) \in Nat /\ TablePage(mRows, Budget) > 0
    BY <1>1 DEF TablePage
  <1>3. OnePage = IF Layout = "table" THEN TablePage(mRows, Budget)
                  ELSE IF results.count = 0 THEN 1 ELSE results.count
    BY DEF OnePage, PerPage, Layout, Budget
  <1>4. Pages = LET n == (results.count + OnePage - 1) \div OnePage
                IN  IF n = 0 THEN 1 ELSE n
    BY DEF Pages, TotalPages, OnePage
  <1>5. OnePage \in Nat /\ OnePage > 0
    BY <1>1, <1>2, <1>3
  <1>6. ASSUME Layout # "table" PROVE Pages = 1
    <2>1. CASE results.count = 0
      BY <1>3, <1>4, <1>6, <2>1
    <2>2. CASE results.count # 0
      <3>1. OnePage = results.count
        BY <1>3, <1>6, <2>2
      <3>2. (results.count + results.count - 1) \div results.count = 1
        BY <1>1, <2>2, OnePageOnly
      <3> QED
        BY <1>4, <3>1, <3>2
    <2> QED
      BY <2>1, <2>2
  <1> QED
    BY <1>3, <1>5, <1>6

(* A page with all its adapters on it, and the rows below them, leave no   *)
(* more than the two notices beyond the console.                           *)
LEMMA FullPageFits ==
    ASSUME ScreenTypeOK, Console, NEW willAutoboot \in BOOLEAN
    PROVE  TopRows + Height * FullPage + BottomRows(willAutoboot)
             =< Modes[mode].rows - 1 + Rows(results.fallback, 1)
                  + Rows(results.overflow, 1)
  <1> DEFINE f == Rows(results.fallback, 1)
             o == Rows(results.overflow, 1)
             n == Rows(notice, 1)
             t == Rows(Layout = "table", 2)
             R == Modes[mode].rows
             c == results.count
             bottom == BottomRows(willAutoboot)
  <1>1. /\ f \in 0 .. 1 /\ o \in 0 .. 1 /\ n \in 0 .. 1 /\ t \in 0 .. 2
        /\ c \in Nat
    <2>1. f \in 0 .. 1 /\ o \in 0 .. 1 /\ n \in 0 .. 1 /\ t \in 0 .. 2
      BY DEF Rows
    <2> QED
      BY <2>1, ResultTypes
  <1>2. R \in Nat /\ mRows \in Nat /\ mRows =< R /\ mRows >= 25
    BY DEF Console, ScreenTypeOK, DefaultRows
  <1>3. TopRows \in Nat /\ TopRows =< (IF c = 0 THEN 8 ELSE 6) + f + o + n + t
    BY TopRowsBound
  <1>4. Budget \in Nat /\ Budget = (IF c = 0 THEN 18 ELSE 16) + n
    BY BudgetIs
  <1>5. bottom \in Nat /\ bottom =< 12 /\ (Pages = 1 => bottom =< 9)
    <2>1. Rows(willAutoboot, 1) \in 0 .. 1
      BY RowsBounds
    <2>2. Rows(Pages > 1, 2) \in 0 .. 2 /\ Rows(Pages > 1, 1) \in 0 .. 1
      BY DEF Rows
    <2>3. Pages = 1 => Rows(Pages > 1, 2) = 0 /\ Rows(Pages > 1, 1) = 0
      BY DEF Rows
    <2> QED
      BY <2>1, <2>2, <2>3 DEF BottomRows
  <1>6. Layout \in {"detailed", "compact", "table"}
        /\ (Layout = "detailed" => c = 0 \/ Budget + 9 * c =< mRows)
        /\ (Layout = "compact" => c # 0 /\ Budget + 4 * c =< mRows)
        /\ (Layout = "table" => c # 0)
    BY DEF Layout, ChooseLayout
  <1>7. /\ OnePage \in Nat
        /\ Layout # "table" => OnePage = (IF c = 0 THEN 1 ELSE c) /\ Pages = 1
    BY PageTypes
  <1>8. Layout # "table" => t = 0
    BY DEF Rows
  <1>9. Layout = "table" => OnePage = IF mRows > Budget + 5 THEN mRows - (Budget + 5) ELSE 1
    BY DEF OnePage, PerPage, Layout, Budget, TablePage
  <1> HIDE DEF f, o, n, t, R, c, bottom
  <1>10. CASE Layout = "detailed"
    <2>1. Height = 9 /\ t = 0 /\ bottom =< 9 /\ OnePage = IF c = 0 THEN 1 ELSE c
      BY <1>5, <1>7, <1>8, <1>10 DEF Height
    <2>2. CASE c = 0
      <3>1. FullPage = 0
        BY <2>2 DEF FullPage, c
      <3>2. TopRows + bottom =< R - 1 + f + o
        BY <1>1, <1>2, <1>3, <1>5, <2>1, <2>2
      <3>3. TopRows + Height * FullPage + bottom = TopRows + bottom
        BY <1>3, <1>5, <2>1, <3>1
      <3> QED
        BY <3>2, <3>3 DEF f, o, R, bottom
    <2>3. CASE c # 0
      <3>1. 16 + n + 9 * c =< mRows
        BY <1>4, <1>6, <1>10, <2>3
      <3>2. TopRows + 9 * c + bottom =< R - 1 + f + o
        BY <1>1, <1>2, <1>3, <1>5, <2>1, <2>3, <3>1
      <3>3. FullPage = c
        BY <2>1, <2>3 DEF FullPage, c
      <3> QED
        BY <2>1, <3>2, <3>3 DEF f, o, R, bottom
    <2> QED
      BY <2>2, <2>3
  <1>11. CASE Layout = "compact"
    <2>1. Height = 4 /\ t = 0 /\ bottom =< 9 /\ OnePage = c /\ c # 0
      BY <1>5, <1>6, <1>7, <1>8, <1>11 DEF Height
    <2>2. 16 + n + 4 * c =< mRows
      BY <1>4, <1>6, <1>11, <2>1
    <2>3. TopRows + 4 * c + bottom =< R - 1 + f + o
      BY <1>1, <1>2, <1>3, <1>5, <2>1, <2>2
    <2>4. FullPage = c
      BY <2>1 DEF FullPage, c
    <2> QED
      BY <2>1, <2>3, <2>4 DEF f, o, R, bottom
  <1>12. CASE Layout = "table"
    <2>1. Height = 1 /\ c # 0
      BY <1>6, <1>12 DEF Height
    <2>2. OnePage = mRows - (21 + n)
      BY <1>1, <1>2, <1>4, <1>9, <1>12, <2>1
    <2>3. TopRows + OnePage + bottom =< R - 1 + f + o
      BY <1>1, <1>2, <1>3, <1>5, <2>1, <2>2
    <2>4. FullPage = OnePage
      BY <2>1 DEF FullPage, c
    <2> QED
      BY <1>7, <2>1, <2>3, <2>4 DEF f, o, R, bottom
  <1> QED
    BY <1>6, <1>10, <1>11, <1>12

-----------------------------------------------------------------------------
(* The screen: one turn after the other *)

(* Where RenderScreen is, by the stage of the turn. *)
ScreenStages ==
    /\ stage \in {"select", "scan", "find", "log", "paint", "wait"}
    /\ stage = "select" => screenPc = "select"
    /\ stage \in {"scan", "find", "log"} => screenPc = "clear"
    /\ stage = "paint" => screenPc \in {"clear", "list", "painted"}
    /\ stage = "wait" => screenPc = "painted"

ScreenInv == ScreenTypeOK /\ ScreenStages /\ Console /\ Painting /\ PageFitsConsole

(* Best chooses among the modes there are, and only tall ones. *)
LEMMA BestIsAMode ==
    ASSUME NEW answered \in SUBSET DOMAIN Modes, NEW m \in Best(answered)
    PROVE  m \in DOMAIN Modes /\ Modes[m].rows >= DefaultRows
  <1>1. m \in DOMAIN Modes /\ Modes[m].rows >= WantedRows
    BY DEF Best
  <1>2. Modes[m].rows \in Nat
    <2> DEFINE M == [cols : Nat, rows : Nat]
    <2>1. \A x \in M : x.rows \in Nat
      OBVIOUS
    <2>2. Modes \in Seq(M)
      BY ModesAssumption
    <2> HIDE DEF M
    <2>3. Modes[m] \in M
      BY <1>1, <2>2
    <2> QED
      BY <2>1, <2>3
  <1> QED
    BY <1>1, <1>2 DEF WantedRows, DefaultRows

(* Every mode has a size. *)
LEMMA ModeRows ==
    \A m \in DOMAIN Modes : Modes[m].rows \in Nat
  <1> DEFINE M == [cols : Nat, rows : Nat]
  <1>1. \A x \in M : x.rows \in Nat
    OBVIOUS
  <1>2. Modes \in Seq(M)
    BY ModesAssumption
  <1> HIDE DEF M
  <1>3. \A m \in DOMAIN Modes : Modes[m] \in M
    BY <1>2
  <1> QED
    BY <1>1, <1>3

(* The firmware's mode is one it may start in. *)
LEMMA StartConsole ==
    ASSUME NEW m \in StartModes
    PROVE  m \in DOMAIN Modes /\ Modes[m].rows \in Nat /\ Modes[m].rows >= DefaultRows
  BY ModesAssumption, ModeRows

(* Before the first scan nothing is found. *)
LEMMA NothingFound == NoResults \in ScanResults
  <1> DEFINE Record == [count : Counts, fallback : BOOLEAN, overflow : BOOLEAN]
  <1>1. NoResults \in Record /\ NoResults.overflow = FALSE
    BY CountsAssumption DEF NoResults
  <1>2. ScanResults = {r \in Record : r.overflow => r.count = MaxDevices}
    BY DEF ScanResults
  <1> HIDE DEF Record
  <1> QED
    BY <1>1, <1>2

(* The start of the program. *)
LEMMA ScreenStarts == Init => ScreenInv
  <1> SUFFICES ASSUME Init PROVE ScreenInv
    OBVIOUS
  <1>1. mode \in DOMAIN Modes /\ Console
    BY StartConsole DEF Init, ScreenInit, Console
  <1>2. results \in ScanResults
    BY NothingFound DEF Init
  <1> QED
    BY <1>1, <1>2 DEF Init, ScreenInit, ScreenInv, ScreenTypeOK, ScreenStages, Painting, PageFitsConsole, DefaultRows

(* What the layout depends on. *)
LEMMA LayoutUnchanged ==
    ASSUME UNCHANGED <<results, notice, mRows>>
    PROVE  /\ TopRows' = TopRows /\ Height' = Height /\ FullPage' = FullPage
           /\ OnePage' = OnePage /\ Pages' = Pages
  <1>1. Budget' = Budget
    BY DEF Budget
  <1>2. Layout' = Layout
    BY <1>1 DEF Layout
  <1>3. OnePage' = OnePage /\ Pages' = Pages
    BY DEF OnePage, Pages
  <1> QED
    BY <1>2, <1>3 DEF TopRows, Height, FullPage

(* A screen that nothing happens to. *)
LEMMA ScreenUnchanged ==
    ASSUME ScreenTypeOK, Console, Painting, PageFitsConsole,
           UNCHANGED <<results, notice, screenVars>>
    PROVE  ScreenTypeOK' /\ Console' /\ Painting' /\ PageFitsConsole'
  <1>1. UNCHANGED <<mode, mRows, mPage, listed, line, screenPc>>
    BY DEF screenVars
  <1>2. ScreenTypeOK' /\ Console'
    BY <1>1 DEF ScreenTypeOK, Console
  <1>3. Painting'
    BY <1>1, LayoutUnchanged DEF Painting
  <1>4. RowsLost' = RowsLost
    BY <1>1 DEF RowsLost
  <1> QED
    BY <1>1, <1>2, <1>3, <1>4 DEF PageFitsConsole

(* A mode is chosen. *)
LEMMA SelectFits ==
    ASSUME ScreenInv, Select
    PROVE  ScreenInv'
  <1>1. SelectTextMode /\ stage' = "scan" /\ screenPc' = "clear"
        /\ UNCHANGED <<results, notice, mPage, listed, line>>
    BY DEF Select, SelectTextMode
  <1>2. mode \in DOMAIN Modes /\ Modes[mode].rows >= DefaultRows
    BY DEF ScreenInv, ScreenTypeOK, Console
  <1>3. PICK answered \in SUBSET DOMAIN Modes :
            mode' \in Best(answered) \union {mode}
    BY <1>1 DEF SelectTextMode
  <1>4. mode' \in DOMAIN Modes /\ Modes[mode'].rows >= DefaultRows
    BY <1>2, <1>3, BestIsAMode
  <1>5. mRows' \in {DefaultRows, Modes[mode'].rows}
    BY <1>1 DEF SelectTextMode, RowsBelieved
  <1>6. Modes[mode'].rows \in Nat
    BY <1>4, ModeRows
  <1>7. mRows' \in Nat
    BY <1>5, <1>6 DEF DefaultRows
  <1>8. ScreenTypeOK' /\ ScreenStages'
    BY <1>1, <1>4, <1>7 DEF ScreenInv, ScreenTypeOK, ScreenStages
  <1>9. Console' /\ Painting' /\ PageFitsConsole'
    BY <1>1, <1>4, <1>5, <1>6 DEF Console, Painting, PageFitsConsole
  <1> QED
    BY <1>8, <1>9 DEF ScreenInv

(* A scan happens off the screen. *)
LEMMA ScanFits ==
    ASSUME ScreenInv, Scan
    PROVE  ScreenInv'
  <1>1. /\ results' \in ScanResults /\ stage = "scan" /\ stage' = "find"
        /\ UNCHANGED <<notice, mode, mRows, mPage, listed, line, screenPc>>
    BY DEF Scan, screenVars
  <1>2. screenPc = "clear"
    BY <1>1 DEF ScreenInv, ScreenStages
  <1> QED
    BY <1>1, <1>2 DEF ScreenInv, ScreenTypeOK, ScreenStages, Console, Painting,
                      PageFitsConsole

(* The lines before the list. *)
LEMMA PaintTopFits ==
    ASSUME ScreenInv, PaintTop, stage = "paint", UNCHANGED stage
    PROVE  ScreenInv'
  <1>1. /\ screenPc' = "list" /\ line' = TopRows /\ listed' = 0
        /\ UNCHANGED <<results, notice, mode, mRows>>
    BY DEF PaintTop
  <1>2. ScreenTypeOK
    BY DEF ScreenInv
  <1>3. TopRows \in Nat /\ TopRows' = TopRows
    BY <1>1, <1>2, TopRowsBound, LayoutUnchanged
  <1>4. mPage' \in Nat
    BY <1>2 DEF PaintTop, ScreenTypeOK
  <1>5. Height \in Nat /\ FullPage \in Nat
    BY <1>2, PageTypes, ResultTypes DEF FullPage, Height
  <1>6. Painting'
    <2>1. TopRows =< TopRows + Height * 0 /\ 0 =< FullPage
      BY <1>3, <1>5
    <2> QED
      BY <1>1, <2>1, LayoutUnchanged DEF Painting
  <1>7. ScreenTypeOK'
    BY <1>1, <1>2, <1>3, <1>4 DEF ScreenTypeOK
  <1> QED
    BY <1>1, <1>6, <1>7 DEF ScreenInv, ScreenStages, Console, PageFitsConsole

(* One adapter more. *)
LEMMA PaintAdapterFits ==
    ASSUME ScreenInv, PaintAdapter, stage = "paint", UNCHANGED stage
    PROVE  ScreenInv'
  <1>1. /\ screenPc = "list" /\ MoreToList /\ listed' = listed + 1
        /\ UNCHANGED <<results, notice, mode, mRows, mPage, screenPc>>
    BY DEF PaintAdapter
  <1>2. PICK rows \in AdapterRows : line' = line + rows
    BY DEF PaintAdapter
  <1>3. rows \in Nat /\ rows =< Height /\ Height \in {1, 4, 9}
    BY <1>2 DEF AdapterRows, Height
  <1>4. /\ ScreenTypeOK /\ listed =< FullPage
        /\ line =< TopRows + Height * listed
    BY <1>1 DEF ScreenInv, Painting
  <1>5. listed \in Nat /\ line \in Nat /\ mPage \in Nat
    BY <1>4 DEF ScreenTypeOK
  <1>6. OnePage \in Nat /\ TopRows \in Nat /\ results.count \in Nat
    BY <1>4, PageTypes, TopRowsBound, ResultTypes
  <1>7. listed < FullPage
    <2>1. mPage * OnePage \in Nat
      BY <1>5, <1>6
    <2>2. mPage * OnePage + listed < results.count /\ listed < OnePage
      BY <1>1 DEF MoreToList
    <2>3. results.count # 0
      <3> DEFINE skipped == mPage * OnePage
      <3> HIDE DEF skipped
      <3> QED
        BY <1>5, <1>6, <2>1, <2>2 DEF skipped
    <2> QED
      BY <2>2, <2>3 DEF FullPage
  <1>8. FullPage \in Nat
    BY <1>6 DEF FullPage
  <1>9. line' =< TopRows + Height * listed' /\ listed' =< FullPage
    BY <1>1, <1>2, <1>3, <1>4, <1>5, <1>6, <1>7, <1>8
  <1>10. Painting'
    BY <1>1, <1>9, LayoutUnchanged DEF Painting
  <1>11. ScreenTypeOK'
    BY <1>1, <1>2, <1>3, <1>4, <1>5 DEF ScreenTypeOK
  <1> QED
    BY <1>1, <1>10, <1>11 DEF ScreenInv, ScreenStages, Console, PageFitsConsole

(* Rows too many, and rows lost. *)
LEMMA Excess ==
    ASSUME NEW x \in Nat, NEW r \in Nat, NEW n \in Nat, x =< r - 1 + n
    PROVE  (IF x >= r THEN x - r + 1 ELSE 0) =< n
  OBVIOUS

(* The lines below the list: the screen is finished, and fits. *)
LEMMA PaintBottomFits ==
    ASSUME ScreenInv, PaintBottom, stage = "paint", UNCHANGED stage
    PROVE  ScreenInv'
  <1>1. /\ screenPc = "list" /\ screenPc' = "painted"
        /\ UNCHANGED <<results, notice, mode, mRows, mPage, listed>>
    BY DEF PaintBottom
  <1>2. /\ ScreenTypeOK /\ Console /\ listed =< FullPage
        /\ line =< TopRows + Height * listed
    BY <1>1 DEF ScreenInv, Painting
  <1>3. listed \in Nat /\ line \in Nat /\ TopRows \in Nat
        /\ OnePage \in Nat /\ results.count \in Nat
    BY <1>2, PageTypes, TopRowsBound, ResultTypes DEF ScreenTypeOK
  <1>4. FullPage \in Nat /\ Height \in {1, 4, 9}
    BY <1>3 DEF FullPage, Height
  <1>5. Height * listed =< Height * FullPage
    BY <1>2, <1>3, <1>4
  <1>6. PICK willAutoboot \in BOOLEAN :
            line' = line + Rows(Pages > 1, 2) + 4 + 4 + Rows(Pages > 1, 1)
                         + Rows(willAutoboot, 1)
    BY DEF PaintBottom
  <1>7. Rows(Pages > 1, 2) \in Nat /\ Rows(Pages > 1, 1) \in Nat
        /\ Rows(willAutoboot, 1) \in Nat
    BY DEF Rows
  <1>8. line' = line + BottomRows(willAutoboot) /\ BottomRows(willAutoboot) \in Nat
    BY <1>3, <1>6, <1>7 DEF BottomRows
  <1> DEFINE R == Modes[mode].rows
             notices == Rows(results.fallback, 1) + Rows(results.overflow, 1)
             bottom == BottomRows(willAutoboot)
  <1>9. notices \in Nat /\ R \in Nat
    BY <1>2 DEF Rows, Console
  <1>10. TopRows + Height * FullPage + bottom =< R - 1 + notices
    <2>1. TopRows + Height * FullPage + bottom
            =< R - 1 + Rows(results.fallback, 1) + Rows(results.overflow, 1)
      BY <1>2, FullPageFits
    <2>2. Rows(results.fallback, 1) \in Nat /\ Rows(results.overflow, 1) \in Nat
      BY DEF Rows
    <2> QED
      BY <1>9, <2>1, <2>2
  <1> HIDE DEF R, notices, bottom
  <1>11. Height * listed \in Nat /\ Height * FullPage \in Nat
    BY <1>3, <1>4
  <1>12. line' \in Nat /\ line' =< R - 1 + notices
    <2> DEFINE a == Height * listed
               b == Height * FullPage
    <2>1. a \in Nat /\ b \in Nat /\ a =< b /\ line =< TopRows + a
          /\ TopRows + b + bottom =< R - 1 + notices
      BY <1>2, <1>5, <1>10, <1>11
    <2>2. line' = line + bottom /\ bottom \in Nat
      BY <1>8 DEF bottom
    <2> HIDE DEF a, b
    <2> QED
      BY <1>3, <1>9, <2>1, <2>2
  <1>13. (IF line' >= R THEN line' - R + 1 ELSE 0) =< notices
    BY <1>9, <1>12, Excess, Zenon
  <1>14. PageFitsConsole'
    <2>1. Modes[mode'].rows = R /\ results' = results
      BY <1>1 DEF R
    <2>2. (IF line' >= Modes[mode'].rows THEN line' - Modes[mode'].rows + 1 ELSE 0)
            =< Rows(results'.fallback, 1) + Rows(results'.overflow, 1)
      BY <1>13, <2>1, Zenon DEF notices
    <2> QED
      BY <2>2, Zenon DEF PageFitsConsole, RowsLost
  <1>15. ScreenTypeOK' /\ Console'
    BY <1>1, <1>2, <1>12 DEF ScreenTypeOK, Console
  <1> QED
    BY <1>1, <1>14, <1>15 DEF ScreenInv, ScreenStages, Painting

(* The next turn, or the next start, begins without a screen. *)
LEMMA RestartFits ==
    ASSUME ScreenInv, NextTurn \/ PowerLoss
    PROVE  ScreenInv'
  <1>1. CASE NextTurn
    <2>1. /\ screenPc' = "clear" /\ listed' = 0 /\ line' = 0 /\ stage' = "scan"
          /\ mPage' \in {mPage + 1, 0, mPage}
          /\ UNCHANGED <<results, notice, mode, mRows>>
      BY <1>1 DEF NextTurn
    <2>2. ScreenTypeOK'
      BY <2>1 DEF ScreenInv, ScreenTypeOK
    <2> QED
      BY <2>1, <2>2 DEF ScreenInv, ScreenStages, Console, Painting, PageFitsConsole
  <1>2. CASE PowerLoss
    <2>1. /\ screenPc' = "select" /\ listed' = 0 /\ line' = 0 /\ stage' = "select"
          /\ mPage' = 0 /\ mRows' = DefaultRows
          /\ mode' \in StartModes /\ notice' \in BOOLEAN /\ results' = NoResults
      BY <1>2 DEF PowerLoss
    <2>2. results' \in ScanResults
      BY <2>1, NothingFound
    <2>3. mode' \in DOMAIN Modes /\ Modes[mode'].rows \in Nat
          /\ Modes[mode'].rows >= DefaultRows
      BY <2>1, StartConsole
    <2>4. ScreenTypeOK'
      BY <2>1, <2>2, <2>3 DEF ScreenTypeOK, DefaultRows
    <2> QED
      BY <2>1, <2>3, <2>4 DEF ScreenInv, ScreenStages, Console, Painting, PageFitsConsole
  <1> QED
    BY <1>1, <1>2

(* Every step keeps the screen within its console. *)
LEMMA ScreenStep == ScreenInv /\ [Next]_vars => ScreenInv'
  <1> SUFFICES ASSUME ScreenInv, [Next]_vars PROVE ScreenInv'
    OBVIOUS
  <1>1. CASE Find
    <2>1. UNCHANGED <<results, notice, screenVars>>
          /\ (UNCHANGED stage \/ stage' = "log") /\ stage = "find"
      BY <1>1 DEF Find
    <2> QED
      BY <2>1, ScreenUnchanged DEF ScreenInv, ScreenStages, screenVars
  <1>2. CASE Log
    <2>1. UNCHANGED <<results, notice, screenVars>>
          /\ (UNCHANGED stage \/ stage' = "paint") /\ stage = "log"
      BY <1>2 DEF Log
    <2> QED
      BY <2>1, ScreenUnchanged DEF ScreenInv, ScreenStages, screenVars
  <1>3. CASE RenderScreen
    <2>1. CASE PaintTop \/ PaintAdapter \/ PaintBottom
      <3>1. CASE stage' = stage
        BY <1>3, <2>1, <3>1, PaintTopFits, PaintAdapterFits, PaintBottomFits
           DEF RenderScreen
      <3>2. CASE stage' # stage
        <4>1. screenPc = "painted"
          BY <1>3, <3>2 DEF RenderScreen
        <4> QED
          BY <2>1, <4>1 DEF PaintTop, PaintAdapter, PaintBottom
      <3> QED
        BY <3>1, <3>2
    <2>2. CASE /\ screenPc = "painted" /\ stage' = "wait"
               /\ UNCHANGED <<results, notice, screenVars>>
      BY <1>3, <2>2, ScreenUnchanged DEF ScreenInv, ScreenStages, screenVars
    <2> QED
      BY <1>3, <2>1, <2>2 DEF RenderScreen
  <1>4. CASE UNCHANGED vars
    <2>1. UNCHANGED <<results, notice, screenVars, stage>>
      BY <1>4 DEF vars
    <2> QED
      BY <2>1, ScreenUnchanged DEF ScreenInv, ScreenStages, screenVars
  <1> QED
    BY <1>1, <1>2, <1>3, <1>4, SelectFits, ScanFits, RestartFits DEF Next

(* Whatever is found and whatever console it is shown on, no finished      *)
(* screen has lost more rows than the two notices nobody budgeted for.     *)
THEOREM ScreenFitsConsole == Spec => []PageFitsConsole
  <1>1. ScreenInv => PageFitsConsole
    BY DEF ScreenInv
  <1> QED
    BY <1>1, ScreenStarts, ScreenStep, PTL DEF Spec

-----------------------------------------------------------------------------
(* The log *)

Files == [there : BOOLEAN, fresh : Nat, stale : Nat]

(* Where GpuLogWriteScan is, by the stage of the turn. *)
LogStages ==
    /\ stage \in {"select", "scan", "find"} => logPc = "idle"
    /\ stage \in {"paint", "wait"} => logPc = "done"

(* What it has open. *)
LogHandles ==
    /\ logPc \in {"idle", "open", "done"} => ~root /\ ~log
    /\ logPc \in {"delete", "create"} => root /\ ~log
    /\ logPc \in {"write", "flush"} => root /\ log

(* What it has built, and what it has answered so far. *)
LogBuilt ==
    /\ logPc \in {"open", "delete", "create", "write", "flush"} =>
          mLogPos = LogSize(results.count)
    /\ logPc \in {"idle", "open", "delete", "create", "write"} => logStatus = "none"

(* Only a log that was not deleted leaves something of an earlier scan. *)
LogReplaced ==
    "delete" \notin dropped =>
        /\ logPc \in {"create", "write", "flush"} => file.stale = 0
        /\ logPc = "done" /\ logStatus = "success" => file.stale = 0

(* A log reported written is as long as its scan made it, if every answer  *)
(* about it was looked at.                                                 *)
LogComplete ==
    /\ logPc \in {"flush", "done"} /\ logStatus = "success"
    /\ dropped \intersect {"handle", "size", "flush"} = {}
    => file.fresh = LogSize(results.count)

LogInv ==
    LogTypeOK /\ LogStages /\ LogHandles /\ LogBuilt /\ LogReplaced /\ LogComplete

(* Files are files. *)
LEMMA FileTypes ==
    /\ NoFile \in Files
    /\ \A a, b \in Nat : File(a, b) \in Files
    /\ \A f \in Files : f.fresh \in Nat /\ f.stale \in Nat
  BY DEF NoFile, File, Files

(* What a file holds. *)
LEMMA FileParts ==
    /\ \A a, b \in Nat : File(a, b).fresh = a /\ File(a, b).stale = b
    /\ NoFile.stale = 0
  BY DEF File, NoFile

(* The log of any scan fits its buffer. *)
LEMMA LogFits ==
    ASSUME ScreenTypeOK
    PROVE  /\ LogSize(results.count) \in 0 .. LogBuffer
           /\ LogSize(results.count) \in Nat /\ LogSize(results.count) # 0
  <1>1. results.count \in Nat /\ results.count =< MaxDevices
    BY ResultTypes
  <1>2. MaxDevices \in Nat /\ MaxDevices =< MostAdapters
    BY CountsAssumption, TurnAssumption
  <1> QED
    BY <1>1, <1>2, LogAssumption DEF LogSize

(* The log at the start of the program. *)
LEMMA LogStarts == Init => LogInv
  <1> SUFFICES ASSUME Init PROVE LogInv
    OBVIOUS
  <1>1. file \in Files
    BY FileTypes, LogAssumption DEF Init, LogInit
  <1>2. mLogPos \in 0 .. LogBuffer
    BY LogAssumption DEF Init, LogInit
  <1> QED
    BY <1>1, <1>2 DEF Init, LogInit, LogInv, LogTypeOK, LogStages, LogHandles,
                      LogBuilt, LogReplaced, LogComplete, Files

(* The steps of GpuLogWriteScan. *)
LEMMA LogCallStep ==
    ASSUME ScreenTypeOK, LogInv, stage = "log", UNCHANGED stage,
           UNCHANGED results,
           BuildLog(results.count) \/ LogDisabled \/ LogNext
    PROVE  LogInv'
  <1>1. file \in Files /\ mLogPos \in 0 .. LogBuffer
    BY DEF LogInv, LogTypeOK, Files
  <1>2. LogSize(results.count)' = LogSize(results.count)
    OBVIOUS
  <1>3. LogStages'
    BY DEF LogStages
  <1> USE DEF LogInv, LogTypeOK, LogHandles, LogBuilt
  <1>4. CASE BuildLog(results.count)
    <2>1. mLogPos' = LogSize(results.count) /\ mLogPos' \in 0 .. LogBuffer
      BY <1>4, LogFits DEF BuildLog
    <2> QED
      BY <1>2, <1>3, <1>4, <2>1 DEF BuildLog, LogReplaced, LogComplete
  <1>5. CASE LogDisabled
    BY <1>2, <1>3, <1>5 DEF LogDisabled, LogReplaced, LogComplete
  <1>6. CASE OpenVolume
    <2>1. /\ logPc = "open" /\ root' \in BOOLEAN /\ UNCHANGED <<file, mLogPos, log, dropped>>
          /\ \/ root' = TRUE /\ logPc' = "delete" /\ UNCHANGED logStatus
             \/ logStatus' = "error" /\ logPc' = "done" /\ UNCHANGED root
      BY <1>6 DEF OpenVolume, Return
    <2>2. LogTypeOK'
      BY <2>1
    <2>3. LogHandles' /\ LogBuilt'
      BY <1>2, <2>1
    <2>4. LogReplaced' /\ LogComplete'
      BY <2>1 DEF LogReplaced, LogComplete
    <2> QED
      BY <1>3, <2>2, <2>3, <2>4
  <1>7. CASE DeleteOld
    <2>1. file' \in Files
      BY <1>1, <1>7, FileTypes DEF DeleteOld
    <2>2. /\ logPc = "delete" /\ logPc' = "create"
          /\ UNCHANGED <<mLogPos, root, log, logStatus>>
          /\ \/ file' = NoFile /\ UNCHANGED dropped
             \/ dropped' = dropped \union {"delete"}
      BY <1>7 DEF DeleteOld
    <2>3. LogTypeOK'
      BY <2>1, <2>2 DEF Files, Answers
    <2>4. LogHandles' /\ LogBuilt'
      BY <1>2, <2>2
    <2>5. LogReplaced' /\ LogComplete'
      BY <2>2, FileParts DEF LogReplaced, LogComplete
    <2> QED
      BY <1>3, <2>3, <2>4, <2>5
  <1>8. CASE CreateLog
    <2>1. /\ Created \in Files
          /\ "delete" \notin dropped => Created.stale = 0 /\ file.stale = 0
      BY <1>1, <1>8, FileTypes, FileParts DEF Created, CreateLog, LogReplaced
    <2>2. logPc = "create" /\ root /\ ~log /\ mLogPos' = mLogPos
          /\ logStatus = "none" /\ mLogPos = LogSize(results.count)
      BY <1>8 DEF CreateLog
    <2>3. CASE /\ file' = Created /\ log' = TRUE /\ logPc' = "write"
               /\ UNCHANGED <<root, logStatus, dropped>>
      <3>1. LogTypeOK'
        BY <2>1, <2>2, <2>3 DEF Files
      <3>2. LogHandles' /\ LogBuilt'
        BY <1>2, <2>2, <2>3
      <3>3. LogReplaced' /\ LogComplete'
        BY <2>1, <2>3 DEF LogReplaced, LogComplete
      <3> QED
        BY <1>3, <3>1, <3>2, <3>3
    <2>4. CASE /\ root' = FALSE /\ logStatus' = "error" /\ logPc' = "done"
               /\ UNCHANGED <<file, log, dropped>>
      <3>1. LogTypeOK'
        BY <2>2, <2>4 DEF Files
      <3>2. LogHandles' /\ LogBuilt'
        BY <1>2, <2>2, <2>4
      <3>3. LogReplaced' /\ LogComplete'
        BY <2>4 DEF LogReplaced, LogComplete
      <3> QED
        BY <1>3, <3>1, <3>2, <3>3
    <2>5. CASE /\ file' \in {file, Created}
               /\ dropped' = dropped \union {"handle"}
               /\ root' = FALSE /\ logStatus' = "success" /\ logPc' = "done"
               /\ UNCHANGED log
      <3>1. file' \in Files /\ dropped' \subseteq Answers
        BY <1>1, <2>1, <2>5 DEF Answers
      <3>2. LogTypeOK'
        BY <2>2, <2>5, <3>1 DEF Files
      <3>3. LogHandles' /\ LogBuilt'
        BY <1>2, <2>2, <2>5
      <3>4. LogReplaced'
        BY <2>1, <2>5 DEF LogReplaced
      <3>5. LogComplete'
        BY <2>5 DEF LogComplete
      <3> QED
        BY <1>3, <3>2, <3>3, <3>4, <3>5
    <2> QED
      BY <1>8, <2>3, <2>4, <2>5 DEF CreateLog, Return
  <1>9. CASE WriteLog
    <2>1. PICK n \in 0 .. mLogPos :
              /\ file' = Overwritten(n)
              /\ \/ logStatus' = "error" /\ UNCHANGED dropped
                 \/ /\ logStatus' = "success"
                    /\ dropped' = IF n < mLogPos THEN dropped \union {"size"} ELSE dropped
      BY <1>9 DEF WriteLog
    <2>2. n \in Nat /\ n =< mLogPos /\ file.stale \in Nat
      BY <1>1, <2>1, FileTypes
    <2> DEFINE m == IF file.stale > n THEN file.stale - n ELSE 0
    <2>3. m \in Nat /\ (file.stale = 0 => m = 0)
      BY <2>2
    <2>4. file' \in Files /\ file'.fresh = n /\ file'.stale = m
      BY <2>1, <2>2, <2>3, FileTypes, FileParts DEF Overwritten
    <2>5. /\ logPc = "write" /\ logPc' = "flush" /\ UNCHANGED <<mLogPos, root, log>>
          /\ mLogPos = LogSize(results.count)
      BY <1>9 DEF WriteLog
    <2>6. LogTypeOK'
      BY <2>1, <2>4, <2>5 DEF Files, Answers
    <2>7. LogHandles' /\ LogBuilt'
      BY <1>2, <2>1, <2>5
    <2>8. LogReplaced'
      BY <2>1, <2>3, <2>4, <2>5 DEF LogReplaced
    <2>9. LogComplete'
      <3>1. n < mLogPos \/ n = LogSize(results.count)
        BY <1>1, <2>2, <2>5
      <3> QED
        BY <1>2, <2>1, <2>4, <3>1 DEF LogComplete
    <2> QED
      BY <1>3, <2>6, <2>7, <2>8, <2>9
  <1>10. CASE CloseLog
    <2>1. /\ logStatus' = logStatus /\ logPc' = "done"
          /\ logPc = "flush" /\ ~root' /\ ~log' /\ mLogPos' = mLogPos
          /\ root' \in BOOLEAN /\ log' \in BOOLEAN
      BY <1>10 DEF CloseLog, Return
    <2>2. CASE UNCHANGED <<file, dropped>>
      BY <1>2, <1>3, <2>1, <2>2 DEF LogReplaced, LogComplete
    <2>3. CASE \E n \in 0 .. file.fresh :
                  file' = File(n, file.stale) /\ dropped' = dropped \union {"flush"}
      <3>1. file' \in Files /\ file'.stale = file.stale
        <4>1. \A n \in 0 .. file.fresh :
                  File(n, file.stale) \in Files /\ File(n, file.stale).stale = file.stale
          BY <1>1, FileTypes, FileParts
        <4> QED
          BY <2>3, <4>1
      <3>2. LogTypeOK' /\ LogHandles' /\ LogBuilt'
        BY <2>1, <2>3, <3>1 DEF Files, Answers
      <3>3. LogReplaced' /\ LogComplete'
        BY <2>1, <2>3, <3>1 DEF LogReplaced, LogComplete
      <3> QED
        BY <1>3, <3>2, <3>3
    <2> QED
      BY <1>10, <2>2, <2>3 DEF CloseLog
  <1> QED
    BY <1>4, <1>5, <1>6, <1>7, <1>8, <1>9, <1>10 DEF LogNext

(* A log that nothing happens to. *)
LEMMA LogUnchanged ==
    ASSUME LogInv, UNCHANGED <<logVars, results>>, LogStages'
    PROVE  LogInv'
  BY DEF LogInv, LogTypeOK, LogHandles, LogBuilt, LogReplaced,
         LogComplete, logVars

(* Every step keeps the log in order. *)
LEMMA LogStep == ScreenTypeOK /\ LogInv /\ [Next]_vars => LogInv'
  <1> SUFFICES ASSUME ScreenTypeOK, LogInv, [Next]_vars PROVE LogInv'
    OBVIOUS
  <1>1. CASE Select \/ Find \/ RenderScreen \/ UNCHANGED vars
    <2>1. UNCHANGED <<logVars, results>>
      BY <1>1 DEF Select, SelectTextMode, Find, RenderScreen, PaintTop,
                  PaintAdapter, PaintBottom, vars
    <2>2. UNCHANGED logPc
      BY <2>1 DEF logVars
    <2>3. LogStages'
      BY <1>1, <2>2 DEF LogInv, LogStages, Select, Find, RenderScreen, vars
    <2> QED
      BY <2>1, <2>3, LogUnchanged
  <1>2. CASE Scan
    <2>1. file' \in Files
      <3>1. file \in Files
        BY DEF LogInv, LogTypeOK, Files
      <3>2. file.fresh + file.stale \in Nat
        BY <3>1, FileTypes
      <3> QED
        BY <1>2, <3>1, <3>2, FileTypes DEF Scan, Outdated
    <2>2. logPc = "idle" /\ logStatus = "none"
      BY <1>2 DEF Scan, LogInv, LogStages, LogBuilt
    <2> QED
      BY <1>2, <2>1, <2>2 DEF Scan, LogInv, LogTypeOK, LogStages, LogHandles,
                              LogBuilt, LogReplaced, LogComplete, Files
  <1>3. CASE Log
    <2>1. stage = "log" /\ UNCHANGED results
      BY <1>3 DEF Log
    <2>2. CASE BuildLog(results.count) \/ LogDisabled \/ LogNext
      <3>1. CASE UNCHANGED stage
        BY <2>1, <2>2, <3>1, LogCallStep
      <3>2. CASE stage' # stage
        <4>1. logPc = "done"
          BY <1>3, <3>2 DEF Log
        <4> QED
          BY <2>2, <4>1 DEF BuildLog, LogDisabled, LogNext, OpenVolume, DeleteOld,
                            CreateLog, WriteLog, CloseLog
      <3> QED
        BY <3>1, <3>2
    <2>3. CASE logPc = "done" /\ stage' = "paint" /\ UNCHANGED logVars
      <3>1. LogStages'
        BY <2>3 DEF LogStages, logVars
      <3> QED
        BY <2>1, <2>3, <3>1, LogUnchanged
    <2> QED
      BY <1>3, <2>2, <2>3 DEF Log
  <1>4. CASE NextTurn
    BY <1>4 DEF NextTurn, LogInv, LogTypeOK, LogStages, LogHandles, LogBuilt,
                LogReplaced, LogComplete, Answers
  <1>5. CASE PowerLoss
    <2>1. file' \in Files
      <3>1. file \in Files
        BY DEF LogInv, LogTypeOK, Files
      <3>2. \A n \in 0 .. file.fresh : File(n, file.stale) \in Files
        BY <3>1, FileTypes
      <3> QED
        BY <1>5, <3>1, <3>2 DEF PowerLoss
    <2>2. 0 \in 0 .. LogBuffer
      BY LogAssumption
    <2> QED
      BY <1>5, <2>1, <2>2 DEF PowerLoss, LogInv, LogTypeOK, LogStages, LogHandles,
                              LogBuilt, LogReplaced, LogComplete, Files
  <1> QED
    BY <1>1, <1>2, <1>3, <1>4, <1>5 DEF Next

(* The log of a scan on the screen that was reported written is spoiled by *)
(* nothing but the four answers GpuLogWriteScan does not look at: whatever *)
(* the earlier scans left, and whenever the power went.                    *)
THEOREM LogIsCurrent == Spec => []OnlyDroppedAnswersSpoilTheLog
  <1>1. LogInv => OnlyDroppedAnswersSpoilTheLog
    <2> SUFFICES ASSUME LogInv, stage \in {"paint", "wait"}, logStatus = "success"
                 PROVE  /\ file.stale > 0 => "delete" \in dropped
                        /\ file.fresh # LogSize(results.count) =>
                               dropped \intersect {"handle", "size", "flush"} # {}
      BY DEF OnlyDroppedAnswersSpoilTheLog
    <2>1. logPc = "done"
      BY DEF LogInv, LogStages
    <2>2. "delete" \notin dropped => file.stale = 0
      BY <2>1 DEF LogInv, LogReplaced
    <2>3. ~(0 > 0)
      OBVIOUS
    <2> QED
      BY <2>1, <2>2, <2>3 DEF LogInv, LogComplete
  <1>2. ScreenInv => ScreenTypeOK
    BY DEF ScreenInv
  <1> QED
    BY <1>1, <1>2, ScreenStarts, ScreenStep, LogStarts, LogStep, PTL DEF Spec

(* GpuLogWriteScan leaves neither the file nor its volume open, on any of  *)
(* its returns.                                                            *)
THEOREM LogLeavesNothingOpen == Spec => []LogHandlesClosed
  <1>1. LogInv => LogHandlesClosed
    BY DEF LogInv, LogHandles, LogHandlesClosed
  <1>2. ScreenInv => ScreenTypeOK
    BY DEF ScreenInv
  <1> QED
    BY <1>1, <1>2, ScreenStarts, ScreenStep, LogStarts, LogStep, PTL DEF Spec

-----------------------------------------------------------------------------
(* The path of our own file: however the device path cuts it into nodes,   *)
(* what is put together from them is the beginning of the path itself.     *)

(* The i-th character of the names, rooted and with backslashes. *)
Char(names, i) == IF i % 2 = 1 THEN "backslash" ELSE names[i \div 2]

(* The text has what the buffer holds of the len characters after off. *)
IsText(names, text, off, len) ==
    /\ text \in Seq(Characters)
    /\ Len(text) = IF len < MaxPath THEN len ELSE MaxPath
    /\ \A i \in 1 .. Len(text) : text[i] = Char(names, off + i)

(* What is left of the names after the first m. *)
IsRest(names, m, rest) ==
    /\ rest \in Seq(Characters)
    /\ Len(rest) = Len(names) - m
    /\ \A i \in 1 .. Len(rest) : rest[i] = names[m + i]

(* A separator comes first and after every name. *)
LEMMA CharSeparator ==
    ASSUME NEW names, NEW j \in Nat
    PROVE  Char(names, 2 * j + 1) = "backslash"
  <1>1. (2 * j + 1) % 2 = 1
    OBVIOUS
  <1> QED
    BY <1>1 DEF Char

(* The names stand between the separators. *)
LEMMA CharName ==
    ASSUME NEW names, NEW j \in Nat
    PROVE  Char(names, 2 * j) = names[j]
  <1>1. (2 * j) % 2 = 0 /\ (2 * j) \div 2 = j
    OBVIOUS
  <1> QED
    BY <1>1 DEF Char

(* So they alternate from any separator on. *)
LEMMA CharsAlternate ==
    ASSUME NEW names, NEW i \in Nat, NEW j \in Nat
    PROVE  Char(names, 2 * j + 1 + i) =
              IF i % 2 = 0 THEN "backslash" ELSE names[j + (i + 1) \div 2]
  <1>1. i % 2 = 0 => (2 * j + 1 + i) % 2 = 1
    OBVIOUS
  <1>2. i % 2 # 0 => /\ (2 * j + 1 + i) % 2 = 0
                     /\ (2 * j + 1 + i) \div 2 = j + (i + 1) \div 2
    OBVIOUS
  <1> QED
    BY <1>1, <1>2 DEF Char

(* A text of one character. *)
LEMMA OneCharacter ==
    ASSUME NEW c \in Characters
    PROVE  <<c>> \in Seq(Characters) /\ Len(<<c>>) = 1 /\ <<c>>[1] = c
  OBVIOUS

(* The names of our file are characters other than separators. *)
LEMMA OwnNames ==
    ASSUME own \in OwnPaths
    PROVE  /\ own \in Seq(Characters) /\ Len(own) \in Nat \ {0} /\ own # <<>>
           /\ \A i \in 1 .. Len(own) : own[i] \in Names /\ own[i] # "backslash"
  <1>1. own \in Seq(Names) /\ own # <<>>
    BY PathAssumption
  <1>2. Names \subseteq Characters /\ "backslash" \notin Names
    BY PathAssumption DEF Separators, Characters
  <1>3. own \in Seq(Characters)
    BY <1>1, <1>2, SeqMonotonic
  <1> QED
    BY <1>1, <1>2, <1>3

(* A text is cut to the size of the buffer and no further. *)
LEMMA CutKeeps ==
    ASSUME NEW text \in Seq(Characters)
    PROVE  /\ Cut(text) \in Seq(Characters)
           /\ Len(Cut(text)) = IF Len(text) < MaxPath THEN Len(text) ELSE MaxPath
           /\ \A i \in 1 .. Len(Cut(text)) : Cut(text)[i] = text[i]
  <1> DEFINE n == IF Len(text) < MaxPath THEN Len(text) ELSE MaxPath
  <1>1. n \in 0 .. Len(text) /\ MaxPath \in Nat
    BY PathAssumption
  <1>2. Cut(text) = SubSeq(text, 1, n)
    BY DEF Cut
  <1> HIDE DEF n
  <1>3. \A i \in 1 .. n : text[i] \in Characters
    BY <1>1
  <1>4. /\ SubSeq(text, 1, n) \in Seq(Characters)
        /\ Len(SubSeq(text, 1, n)) = n
        /\ \A i \in 1 .. n : SubSeq(text, 1, n)[i] = text[i]
    BY <1>1, <1>3, SubSeqProperties
  <1> QED
    BY <1>2, <1>4 DEF n

(* StrCat16 appends as much as there is room for. *)
LEMMA CatKeeps ==
    ASSUME NEW dest \in Seq(Characters), NEW src \in Seq(Characters)
    PROVE  /\ StrCat16(dest, src) \in Seq(Characters)
           /\ Len(StrCat16(dest, src)) =
                 IF Len(dest) + Len(src) < MaxPath THEN Len(dest) + Len(src) ELSE MaxPath
           /\ \A i \in 1 .. Len(StrCat16(dest, src)) :
                 StrCat16(dest, src)[i] = IF i =< Len(dest) THEN dest[i]
                                          ELSE src[i - Len(dest)]
  <1> DEFINE both == dest \o src
  <1>1. /\ both \in Seq(Characters)
        /\ Len(both) = Len(dest) + Len(src)
        /\ \A i \in 1 .. Len(dest) + Len(src) :
              both[i] = IF i =< Len(dest) THEN dest[i] ELSE src[i - Len(dest)]
    BY ConcatProperties
  <1> HIDE DEF both
  <1>2. /\ Cut(both) \in Seq(Characters)
        /\ Len(Cut(both)) = IF Len(both) < MaxPath THEN Len(both) ELSE MaxPath
        /\ \A i \in 1 .. Len(Cut(both)) : Cut(both)[i] = both[i]
    BY <1>1, CutKeeps
  <1>3. StrCat16(dest, src) = Cut(both)
    BY DEF StrCat16, both
  <1>4. Len(Cut(both)) =< Len(dest) + Len(src) /\ MaxPath \in Nat
    BY <1>1, <1>2, PathAssumption
  <1> QED
    BY <1>1, <1>2, <1>3, <1>4

(* Appending what comes next gives the longer text. *)
LEMMA CatText ==
    ASSUME NEW names, NEW dest, NEW src \in Seq(Characters),
           NEW off \in Nat, NEW len \in Nat,
           IsText(names, dest, off, len),
           \A i \in 1 .. Len(src) : src[i] = Char(names, off + len + i)
    PROVE  IsText(names, StrCat16(dest, src), off, len + Len(src))
  <1> DEFINE cat == StrCat16(dest, src)
  <1>1. MaxPath \in Nat /\ Len(src) \in Nat /\ Len(dest) \in Nat
    BY PathAssumption DEF IsText
  <1>2. /\ cat \in Seq(Characters)
        /\ Len(cat) = IF Len(dest) + Len(src) < MaxPath THEN Len(dest) + Len(src) ELSE MaxPath
        /\ \A i \in 1 .. Len(cat) :
              cat[i] = IF i =< Len(dest) THEN dest[i] ELSE src[i - Len(dest)]
    BY CatKeeps DEF IsText
  <1>3. /\ Len(dest) = IF len < MaxPath THEN len ELSE MaxPath
        /\ \A i \in 1 .. Len(dest) : dest[i] = Char(names, off + i)
    BY DEF IsText
  <1> HIDE DEF cat
  <1>4. Len(cat) = IF len + Len(src) < MaxPath THEN len + Len(src) ELSE MaxPath
    BY <1>1, <1>2, <1>3
  <1>5. ASSUME NEW i \in 1 .. Len(cat) PROVE cat[i] = Char(names, off + i)
    <2>1. CASE i =< Len(dest)
      BY <1>2, <1>3, <2>1
    <2>2. CASE i > Len(dest)
      <3>1. len < MaxPath /\ Len(dest) = len
        BY <1>1, <1>3, <1>4, <2>2
      <3>2. i - len \in 1 .. Len(src) /\ off + len + (i - len) = off + i
        BY <1>1, <1>4, <2>2, <3>1
      <3>3. src[i - len] = Char(names, off + i)
        <4>1. src[i - len] = Char(names, off + len + (i - len))
          BY <3>2
        <4> QED
          BY <3>2, <4>1
      <3> QED
        BY <1>1, <1>2, <2>2, <3>1, <3>3
    <2> QED
      BY <1>1, <2>1, <2>2
  <1> QED
    BY <1>2, <1>4, <1>5 DEF IsText, cat

(* A full buffer takes nothing more. *)
LEMMA FullTakesNothing ==
    ASSUME NEW names, NEW dest, NEW src \in Seq(Characters),
           NEW off \in Nat, NEW len \in Nat, NEW more \in Nat,
           IsText(names, dest, off, len), len >= MaxPath, more >= MaxPath
    PROVE  IsText(names, StrCat16(dest, src), off, more)
  <1>1. MaxPath \in Nat /\ Len(src) \in Nat /\ Len(dest) = MaxPath
    BY PathAssumption DEF IsText
  <1>2. /\ StrCat16(dest, src) \in Seq(Characters)
        /\ Len(StrCat16(dest, src)) = MaxPath
        /\ \A i \in 1 .. MaxPath : StrCat16(dest, src)[i] = dest[i]
    <2>1. dest \in Seq(Characters) /\ ~(Len(dest) + Len(src) < MaxPath)
      BY <1>1 DEF IsText
    <2>2. /\ StrCat16(dest, src) \in Seq(Characters)
          /\ Len(StrCat16(dest, src)) = MaxPath
          /\ \A i \in 1 .. Len(StrCat16(dest, src)) :
                StrCat16(dest, src)[i] = IF i =< Len(dest) THEN dest[i]
                                         ELSE src[i - Len(dest)]
      BY <2>1, CatKeeps
    <2> QED
      BY <1>1, <2>2
  <1> QED
    BY <1>1, <1>2 DEF IsText

-----------------------------------------------------------------------------
(* Nodes *)

(* The text of a node, without its separators. *)
LEMMA JoinedText ==
    ASSUME NEW names \in Seq(Characters), names # <<>>, NEW sep \in Characters
    PROVE  /\ Joined(names, sep) \in Seq(Characters)
           /\ Len(Joined(names, sep)) = 2 * Len(names) - 1
           /\ \A i \in 1 .. 2 * Len(names) - 1 :
                 Joined(names, sep)[i] = IF i % 2 = 0 THEN sep ELSE names[(i + 1) \div 2]
  <1>1. Len(names) \in Nat \ {0}
    OBVIOUS
  <1> DEFINE n == 2 * Len(names) - 1
             f == [i \in 1 .. n |-> IF i % 2 = 0 THEN sep ELSE names[(i + 1) \div 2]]
  <1>2. n \in Nat
    BY <1>1
  <1>3. \A i \in 1 .. n : i % 2 # 0 => (i + 1) \div 2 \in 1 .. Len(names)
    BY <1>1
  <1>4. Joined(names, sep) = f
    BY DEF Joined
  <1>5. \A i \in 1 .. n : f[i] = IF i % 2 = 0 THEN sep ELSE names[(i + 1) \div 2]
    OBVIOUS
  <1>6. \A i \in 1 .. n : f[i] \in Characters
    <2>1. \A j \in 1 .. Len(names) : names[j] \in Characters
      OBVIOUS
    <2> QED
      BY <1>3, <1>5, <2>1
  <1>7. f \in [1 .. n -> Characters]
    BY <1>6
  <1> HIDE DEF n, f
  <1>8. f \in Seq(Characters) /\ Len(f) = n
    BY <1>2, <1>7
  <1> QED
    BY <1>4, <1>5, <1>8 DEF n

(* The path of our file is all of its characters. *)
LEMMA OwnPathText ==
    ASSUME own \in OwnPaths
    PROVE  /\ OwnPath \in Seq(Characters)
           /\ Len(OwnPath) = 2 * Len(own)
           /\ \A i \in 1 .. Len(OwnPath) : OwnPath[i] = Char(own, i)
  <1> DEFINE rest == Joined(own, "backslash")
  <1>1. own \in Seq(Characters) /\ own # <<>> /\ Len(own) \in Nat \ {0}
    BY OwnNames
  <1>2. /\ rest \in Seq(Characters)
        /\ Len(rest) = 2 * Len(own) - 1
        /\ \A i \in 1 .. 2 * Len(own) - 1 :
              rest[i] = IF i % 2 = 0 THEN "backslash" ELSE own[(i + 1) \div 2]
    <2>1. "backslash" \in Characters
      BY DEF Characters, Separators
    <2> QED
      BY <1>1, <2>1, JoinedText
  <1> HIDE DEF rest
  <1>3. /\ <<"backslash">> \in Seq(Characters) /\ Len(<<"backslash">>) = 1
        /\ <<"backslash">>[1] = "backslash"
    BY OneCharacter DEF Characters, Separators
  <1>4. /\ OwnPath \in Seq(Characters)
        /\ Len(OwnPath) = 2 * Len(own)
        /\ \A i \in 1 .. 2 * Len(own) :
              OwnPath[i] = IF i =< 1 THEN <<"backslash">>[i] ELSE rest[i - 1]
    <2>1. /\ <<"backslash">> \o rest \in Seq(Characters)
          /\ Len(<<"backslash">> \o rest) = 1 + Len(rest)
          /\ \A i \in 1 .. 1 + Len(rest) :
                (<<"backslash">> \o rest)[i] =
                   IF i =< 1 THEN <<"backslash">>[i] ELSE rest[i - 1]
      BY <1>2, <1>3, ConcatProperties
    <2>2. OwnPath = <<"backslash">> \o rest
      BY DEF OwnPath, rest
    <2>3. 1 + Len(rest) = 2 * Len(own)
      BY <1>1, <1>2
    <2> QED
      BY <2>1, <2>2, <2>3
  <1>5. ASSUME NEW i \in 1 .. 2 * Len(own) PROVE OwnPath[i] = Char(own, i)
    <2>1. CASE i = 1
      BY <1>3, <1>4, <2>1 DEF Char
    <2>2. CASE i # 1
      <3>1. i - 1 \in 1 .. 2 * Len(own) - 1 /\ OwnPath[i] = rest[i - 1]
        BY <1>1, <1>4, <2>2
      <3>2. rest[i - 1] = IF (i - 1) % 2 = 0 THEN "backslash" ELSE own[(i - 1 + 1) \div 2]
        BY <1>2, <3>1
      <3>3. ((i - 1) % 2 = 0 <=> i % 2 = 1) /\ i - 1 + 1 = i
        BY <3>1
      <3> QED
        BY <3>1, <3>2, <3>3 DEF Char
    <2> QED
      BY <2>1, <2>2
  <1> QED
    BY <1>4, <1>5

(* A node of a firmware that writes backslashes holds the characters from  *)
(* the separator it starts with, or from the next name, on.                *)
LEMMA FileNodeText ==
    ASSUME NEW m \in Nat, NEW k \in 1 .. Len(left),
           NEW lead \in BOOLEAN, NEW trail \in BOOLEAN,
           IsRest(own, m, left), spelling \in Separators
    PROVE  LET node == FileNode(k, lead, trail)
               l    == IF lead THEN 1 ELSE 0
               t    == IF trail /\ k < Len(left) THEN 1 ELSE 0
           IN  /\ node \in Seq(Characters)
               /\ Len(node) = l + (2 * k - 1) + t
               /\ spelling = "backslash" =>
                     \A i \in 1 .. Len(node) : node[i] = Char(own, 2 * m + 1 - l + i)
  <1> DEFINE head == IF lead THEN <<spelling>> ELSE <<>>
             body == Joined(SubSeq(left, 1, k), spelling)
             tail == IF trail /\ k < Len(left) THEN <<spelling>> ELSE <<>>
             l    == IF lead THEN 1 ELSE 0
             t    == IF trail /\ k < Len(left) THEN 1 ELSE 0
             b    == 2 * k - 1
  <1>1. spelling \in Characters
    BY DEF Characters
  <1>2. /\ head \in Seq(Characters) /\ Len(head) = l
        /\ \A i \in 1 .. l : head[i] = spelling
        /\ tail \in Seq(Characters) /\ Len(tail) = t
        /\ \A i \in 1 .. t : tail[i] = spelling
    <2>1. /\ <<spelling>> \in Seq(Characters) /\ Len(<<spelling>>) = 1
          /\ \A i \in 1 .. 1 : <<spelling>>[i] = spelling
      BY <1>1, OneCharacter
    <2>2. <<>> \in Seq(Characters) /\ Len(<<>>) = 0 /\ 1 .. 0 = {}
      OBVIOUS
    <2> QED
      BY <2>1, <2>2
  <1>3. k \in Nat \ {0} /\ b \in Nat /\ l \in 0 .. 1 /\ t \in 0 .. 1
    OBVIOUS
  <1>4. /\ SubSeq(left, 1, k) \in Seq(Characters)
        /\ Len(SubSeq(left, 1, k)) = k
        /\ \A i \in 1 .. k : SubSeq(left, 1, k)[i] = own[m + i]
    <2>1. left \in Seq(Characters) /\ \A i \in 1 .. k : left[i] = own[m + i]
      BY DEF IsRest
    <2>2. \A i \in 1 .. k : left[i] \in Characters
      BY <2>1
    <2>3. /\ SubSeq(left, 1, k) \in Seq(Characters)
          /\ Len(SubSeq(left, 1, k)) = k
          /\ \A i \in 1 .. k : SubSeq(left, 1, k)[i] = left[i]
      BY <1>3, <2>2, SubSeqProperties
    <2> QED
      BY <2>1, <2>3
  <1>5. /\ body \in Seq(Characters) /\ Len(body) = b
        /\ \A i \in 1 .. b :
              body[i] = IF i % 2 = 0 THEN spelling ELSE own[m + (i + 1) \div 2]
    <2> DEFINE s == SubSeq(left, 1, k)
    <2>1. s \in Seq(Characters) /\ s # <<>> /\ Len(s) = k
      BY <1>3, <1>4
    <2>2. body = Joined(s, spelling)
      OBVIOUS
    <2>3. \A i \in 1 .. k : s[i] = own[m + i]
      BY <1>4
    <2> HIDE DEF s, body
    <2>4. /\ body \in Seq(Characters) /\ Len(body) = b
          /\ \A i \in 1 .. b :
                body[i] = IF i % 2 = 0 THEN spelling ELSE s[(i + 1) \div 2]
      BY <1>1, <2>1, <2>2, JoinedText
    <2>5. \A i \in 1 .. b : i % 2 # 0 => (i + 1) \div 2 \in 1 .. k
      BY <1>3
    <2> QED
      BY <2>3, <2>4, <2>5
  <1>6. FileNode(k, lead, trail) = head \o body \o tail
    BY DEF FileNode
  <1> HIDE DEF head, body, tail, l, t, b
  <1>7. /\ head \o body \in Seq(Characters) /\ Len(head \o body) = l + b
        /\ \A i \in 1 .. l + b :
              (head \o body)[i] = IF i =< l THEN head[i] ELSE body[i - l]
    BY <1>2, <1>5, ConcatProperties
  <1>8. /\ head \o body \o tail \in Seq(Characters)
        /\ Len(head \o body \o tail) = l + b + t
        /\ \A i \in 1 .. l + b + t :
              (head \o body \o tail)[i] = IF i =< l + b THEN (head \o body)[i]
                                          ELSE tail[i - (l + b)]
    BY <1>2, <1>3, <1>7, ConcatProperties
  <1>9. ASSUME spelling = "backslash", NEW i \in 1 .. l + b + t
        PROVE  (head \o body \o tail)[i] = Char(own, 2 * m + 1 - l + i)
    <2>1. CASE i =< l
      <3>1. (head \o body \o tail)[i] = "backslash" /\ i = l /\ l = 1
        BY <1>2, <1>3, <1>7, <1>8, <1>9, <2>1
      <3>2. 2 * m + 1 - l + i = 2 * m + 1
        BY <1>3, <3>1
      <3>3. Char(own, 2 * m + 1) = "backslash"
        BY CharSeparator
      <3> QED
        BY <3>1, <3>2, <3>3
    <2>2. CASE i > l /\ i =< l + b
      <3>1. i - l \in 1 .. b /\ (head \o body \o tail)[i] = body[i - l]
        <4>1. i \in 1 .. l + b /\ ~(i =< l) /\ i - l \in 1 .. b
          BY <1>3, <2>2
        <4>2. (head \o body \o tail)[i] = (head \o body)[i]
          BY <1>8, <2>2
        <4>3. (head \o body)[i] = body[i - l]
          BY <1>7, <4>1
        <4> QED
          BY <4>1, <4>2, <4>3
      <3>2. body[i - l] = IF (i - l) % 2 = 0 THEN "backslash" ELSE own[m + (i - l + 1) \div 2]
        BY <1>5, <1>9, <3>1
      <3> DEFINE x == i - l
      <3>3. 2 * m + 1 - l + i = 2 * m + 1 + x /\ x \in Nat
        BY <1>3, <3>1
      <3>4. body[x] = IF x % 2 = 0 THEN "backslash" ELSE own[m + (x + 1) \div 2]
        BY <3>2
      <3> HIDE DEF x
      <3>5. Char(own, 2 * m + 1 + x) = body[x]
        BY <3>3, <3>4, CharsAlternate
      <3> QED
        BY <3>1, <3>3, <3>5 DEF x
    <2>3. CASE i > l + b
      <3>1. i = l + b + 1 /\ t = 1 /\ (head \o body \o tail)[i] = "backslash"
        BY <1>2, <1>3, <1>8, <1>9, <2>3
      <3>2. 2 * m + 1 - l + i = 2 * (m + k) + 1 /\ m + k \in Nat
        BY <1>3, <3>1 DEF b
      <3>3. Char(own, 2 * (m + k) + 1) = "backslash"
        BY <3>2, CharSeparator
      <3> QED
        BY <3>1, <3>2, <3>3
    <2>4. i =< l \/ (i > l /\ i =< l + b) \/ i > l + b
      BY <1>3
    <2> QED
      BY <2>1, <2>2, <2>3, <2>4
  <1> QED
    BY <1>6, <1>8, <1>9 DEF l, t, b

-----------------------------------------------------------------------------
(* Putting the nodes together *)

(* The buffer has m names: from the first separator on (off = 0) or from   *)
(* the first name, and to the last name or a separator after it (e = 1).   *)
Reached(m, off, e) ==
    /\ IsText(own, buffer, off, 2 * m - off + e)
    /\ e = 1 => m < Len(own)

(* The first node may bring the root or not. *)
LEMMA FirstNode ==
    ASSUME buffer = <<>>, NEW node \in Seq(Characters), NEW l \in 0 .. 1,
           \A i \in 1 .. Len(node) : node[i] = Char(own, 1 - l + i)
    PROVE  IsText(own, Join(node), 1 - l, Len(node))
  <1>1. Join(node) = StrCat16(buffer, node)
    BY DEF Join
  <1>2. 1 - l \in Nat /\ Len(node) \in Nat
    OBVIOUS
  <1>3. IsText(own, buffer, 1 - l, 0)
    <2>1. 0 < MaxPath
      BY PathAssumption
    <2> QED
      BY <2>1 DEF IsText
  <1>4. \A i \in 1 .. Len(node) : node[i] = Char(own, 1 - l + 0 + i)
    BY <1>2
  <1>5. IsText(own, StrCat16(buffer, node), 1 - l, 0 + Len(node))
    BY <1>2, <1>3, <1>4, CatText
  <1> QED
    BY <1>1, <1>2, <1>5

(* Every other node continues where the last one ended: with a separator   *)
(* between them, whoever brings it, and with one only.                     *)
LEMMA NextNode ==
    ASSUME own \in OwnPaths, NEW m \in 1 .. Len(own) - 1,
           NEW off \in 0 .. 1, NEW e \in 0 .. 1, NEW l \in 0 .. 1,
           Reached(m, off, e),
           NEW node \in Seq(Characters), Len(node) > l,
           \A i \in 1 .. Len(node) : node[i] = Char(own, 2 * m + 1 - l + i)
    PROVE  IsText(own, Join(node), off, 2 * m - off + 1 - l + Len(node))
  <1> DEFINE len  == 2 * m - off + e
             bs   == <<"backslash">>
             end  == 2 * m - off + 1 - l + Len(node)
  <1>1. /\ m \in Nat /\ len \in Nat /\ len > 0 /\ Len(node) \in Nat /\ end \in Nat
        /\ end >= len /\ MaxPath \in Nat /\ MaxPath > 0
        /\ off \in Nat /\ e \in Nat /\ l \in Nat
    <2>1. Len(node) \in Nat /\ Len(own) \in Nat
      BY OwnNames
    <2> QED
      BY <2>1, PathAssumption
  <1>2. IsText(own, buffer, off, len)
    BY DEF Reached
  <1>3. bs \in Seq(Characters) /\ Len(bs) = 1 /\ bs[1] = "backslash"
    BY OneCharacter DEF Characters, Separators
  <1>4. Tail(node) \in Seq(Characters) /\ Len(Tail(node)) = Len(node) - 1
        /\ \A i \in 1 .. Len(node) - 1 : Tail(node)[i] = node[i + 1]
    <2>1. node # <<>>
      BY <1>1
    <2> QED
      BY <2>1, HeadTailProperties
  <1>5. CASE len >= MaxPath
    <2>1. end >= MaxPath
      BY <1>1, <1>5
    <2> HIDE DEF len, bs, end
    <2>2. \A src \in Seq(Characters) : IsText(own, StrCat16(buffer, src), off, end)
      BY <1>1, <1>2, <1>5, <2>1, FullTakesNothing
    <2>3. IsText(own, StrCat16(StrCat16(buffer, bs), node), off, end)
      BY <1>1, <1>3, <2>1, <2>2, FullTakesNothing
    <2>4. \/ Join(node) = StrCat16(StrCat16(buffer, bs), node)
          \/ Join(node) = StrCat16(buffer, Tail(node))
          \/ Join(node) = StrCat16(buffer, node)
      BY DEF Join, bs
    <2> QED
      BY <1>3, <1>4, <2>2, <2>3, <2>4 DEF end
  <1>6. CASE len < MaxPath
    <2>1. Len(buffer) = len /\ buffer # <<>> /\ buffer \in Seq(Characters)
      BY <1>1, <1>2, <1>6 DEF IsText
    <2>2. (Last(buffer) = "backslash") = (e = 1)
      <3>1. buffer[len] = Char(own, off + len) /\ off + len = 2 * m + e
        BY <1>1, <1>2, <2>1 DEF IsText
      <3>2. CASE e = 0
        <4>1. buffer[len] = own[m]
          <5>1. off + len = 2 * m
            BY <1>1, <3>1, <3>2
          <5>2. Char(own, off + len) = Char(own, 2 * m)
            BY <5>1
          <5> QED
            BY <1>1, <3>1, <5>2, CharName
        <4>2. own[m] # "backslash"
          <5>1. m \in 1 .. Len(own)
            BY OwnNames
          <5> QED
            BY <5>1, OwnNames
        <4> QED
          BY <2>1, <3>2, <4>1, <4>2 DEF Last
      <3>3. CASE e = 1
        <4>1. buffer[len] = "backslash"
          BY <1>1, <3>1, <3>3, CharSeparator
        <4> QED
          BY <2>1, <3>3, <4>1 DEF Last
      <3> QED
        BY <3>2, <3>3
    <2>3. (Head(node) = "backslash") = (l = 1)
      <3>1. Head(node) = Char(own, 2 * m + 1 - l + 1)
        BY <1>1
      <3>2. CASE l = 1
        <4>1. 2 * m + 1 - l + 1 = 2 * m + 1
          BY <1>1, <3>2
        <4> QED
          BY <1>1, <3>1, <3>2, <4>1, CharSeparator
      <3>3. CASE l = 0
        <4>1. 2 * m + 1 - l + 1 = 2 * (m + 1) /\ m + 1 \in 1 .. Len(own)
          BY <1>1, <3>3, OwnNames
        <4>2. m + 1 \in Nat
          BY <1>1
        <4>3. Char(own, 2 * (m + 1)) = own[m + 1]
          BY <4>2, CharName
        <4>4. Char(own, 2 * m + 1 - l + 1) = Char(own, 2 * (m + 1))
          BY <4>1
        <4> QED
          BY <3>1, <3>3, <4>1, <4>3, <4>4, OwnNames
      <3> QED
        BY <3>2, <3>3
    <2>4. CASE e = 0 /\ l = 0
      <3>1. Join(node) = StrCat16(StrCat16(buffer, bs), node)
        BY <2>1, <2>2, <2>3, <2>4 DEF Join
      <3>2. \A i \in 1 .. Len(bs) : bs[i] = Char(own, off + len + i)
        <4>1. off + len + 1 = 2 * m + 1
          BY <1>1, <2>4
        <4>2. Char(own, off + len + 1) = Char(own, 2 * m + 1)
          BY <4>1
        <4>3. Char(own, off + len + 1) = "backslash"
          BY <1>1, <4>2, CharSeparator
        <4> QED
          BY <1>3, <4>3
      <3>3. \A i \in 1 .. Len(node) : node[i] = Char(own, off + (len + 1) + i)
        <4>1. ASSUME NEW i \in Nat
              PROVE  Char(own, off + (len + 1) + i) = Char(own, 2 * m + 1 - l + i)
          <5>1. off + (len + 1) + i = 2 * m + 1 - l + i
            BY <1>1, <2>4
          <5> QED
            BY <5>1
        <4> QED
          BY <4>1
      <3>4. end = len + 1 + Len(node) /\ len + 1 \in Nat
        BY <1>1, <2>4
      <3> HIDE DEF len, bs
      <3>5. IsText(own, StrCat16(buffer, bs), off, len + Len(bs))
        BY <1>1, <1>2, <1>3, <3>2, CatText
      <3>6. IsText(own, StrCat16(StrCat16(buffer, bs), node), off, len + 1 + Len(node))
        <4>1. IsText(own, StrCat16(buffer, bs), off, len + 1)
          BY <1>3, <3>5
        <4>2. StrCat16(buffer, bs) \in Seq(Characters)
          BY <4>1 DEF IsText
        <4> QED
          BY <1>1, <3>3, <3>4, <4>1, <4>2, CatText
      <3> QED
        BY <3>1, <3>4, <3>6
    <2>5. CASE e = 1 /\ l = 1
      <3>1. Join(node) = StrCat16(buffer, Tail(node))
        BY <2>1, <2>2, <2>3, <2>5 DEF Join
      <3>2. \A i \in 1 .. Len(Tail(node)) : Tail(node)[i] = Char(own, off + len + i)
        <4>1. ASSUME NEW i \in Nat
              PROVE  Char(own, off + len + i) = Char(own, 2 * m + 1 - l + (i + 1))
          <5>1. off + len + i = 2 * m + 1 - l + (i + 1)
            BY <1>1, <2>5
          <5> QED
            BY <5>1
        <4>2. \A i \in 1 .. Len(node) - 1 : i + 1 \in 1 .. Len(node)
          BY <1>1
        <4>3. \A i \in 1 .. Len(node) - 1 : Tail(node)[i] = Char(own, 2 * m + 1 - l + (i + 1))
          BY <1>4, <4>2
        <4> QED
          BY <1>4, <4>1, <4>3
      <3>3. end = len + Len(Tail(node))
        BY <1>1, <1>4, <2>5
      <3> HIDE DEF len
      <3>4. IsText(own, StrCat16(buffer, Tail(node)), off, len + Len(Tail(node)))
        BY <1>1, <1>2, <1>4, <3>2, CatText
      <3> QED
        BY <3>1, <3>3, <3>4
    <2>6. CASE e # l
      <3>1. Join(node) = StrCat16(buffer, node)
        <4>1. (e = 0 /\ l = 1) \/ (e = 1 /\ l = 0)
          BY <2>6
        <4> QED
          BY <2>1, <2>2, <2>3, <4>1 DEF Join
      <3>2. \A i \in 1 .. Len(node) : node[i] = Char(own, off + len + i)
        <4>1. ASSUME NEW i \in Nat
              PROVE  Char(own, off + len + i) = Char(own, 2 * m + 1 - l + i)
          <5>1. off + len + i = 2 * m + 1 - l + i
            BY <1>1, <2>6
          <5> QED
            BY <5>1
        <4> QED
          BY <4>1
      <3>3. end = len + Len(node)
        BY <1>1, <2>6
      <3> HIDE DEF len
      <3>4. IsText(own, StrCat16(buffer, node), off, len + Len(node))
        BY <1>1, <1>2, <3>2, CatText
      <3> QED
        BY <3>1, <3>3, <3>4
    <2> QED
      BY <2>4, <2>5, <2>6
  <1> QED
    BY <1>1, <1>5, <1>6

-----------------------------------------------------------------------------
(* The walk *)

(* Some names are read, the others are left; what is read of them is in    *)
(* the buffer, as far as it has room.  At the end it is rooted.            *)
PathStarts == pathPc = "start" =>
    spelling = "backslash" /\ left = own /\ buffer = <<>>

PathWalked == pathPc = "walk" =>
    \E m \in 0 .. Len(own) :
        /\ IsRest(own, m, left)
        /\ spelling = "backslash" =>
              IF m = 0 THEN buffer = <<>>
              ELSE \E off \in 0 .. 1, e \in 0 .. 1 : Reached(m, off, e)

PathRead == pathPc = "done" /\ spelling = "backslash" =>
    /\ IsText(own, buffer, 0, Len(buffer))
    /\ Len(buffer) =< 2 * Len(own)
    /\ left = <<>> /\ 2 * Len(own) =< MaxPath => Len(buffer) = 2 * Len(own)

PathInv == PathTypeOK /\ PathStarts /\ PathWalked /\ PathRead

(* A path not walked yet. *)
LEMMA PathAtStart ==
    ASSUME own \in OwnPaths, left = own, buffer = <<>>, spelling = "backslash",
           gotAny = FALSE, guard = 0, pathPc = "start"
    PROVE  PathInv
  <1>1. left \in Seq(Names) /\ 0 \in 0 .. MaxNodes
    BY PathAssumption
  <1>2. buffer \in Seq(Characters) /\ Len(buffer) =< MaxPath
    BY PathAssumption
  <1>3. PathTypeOK
    BY <1>1, <1>2 DEF PathTypeOK, Separators
  <1> QED
    BY <1>3 DEF PathInv, PathStarts, PathWalked, PathRead

(* The start of the program. *)
LEMMA PathInitHolds == PathInit => PathInv
  BY PathAtStart DEF PathInit

(* Whatever nodes are joined, the buffer holds characters. *)
LEMMA JoinTypes ==
    ASSUME buffer \in Seq(Characters), NEW node \in Seq(Characters), node # <<>>
    PROVE  Join(node) \in Seq(Characters) /\ Len(Join(node)) =< MaxPath
  <1>1. \A d, t \in Seq(Characters) :
            StrCat16(d, t) \in Seq(Characters) /\ Len(StrCat16(d, t)) =< MaxPath
    <2> SUFFICES ASSUME NEW d \in Seq(Characters), NEW t \in Seq(Characters)
                 PROVE  StrCat16(d, t) \in Seq(Characters) /\ Len(StrCat16(d, t)) =< MaxPath
      OBVIOUS
    <2>1. Len(d) + Len(t) \in Nat /\ MaxPath \in Nat
      BY PathAssumption
    <2> QED
      BY <2>1, CatKeeps
  <1>2. <<"backslash">> \in Seq(Characters)
    BY OneCharacter DEF Characters, Separators
  <1>3. Tail(node) \in Seq(Characters)
    BY HeadTailProperties
  <1>4. \/ Join(node) = StrCat16(StrCat16(buffer, <<"backslash">>), node)
        \/ Join(node) = StrCat16(buffer, Tail(node))
        \/ Join(node) = StrCat16(buffer, node)
    BY DEF Join
  <1>5. StrCat16(buffer, <<"backslash">>) \in Seq(Characters)
    BY <1>1, <1>2
  <1> QED
    BY <1>1, <1>3, <1>4, <1>5

(* A node of names leaves the names after it. *)
LEMMA RestAfter ==
    ASSUME NEW names, NEW m \in Nat, NEW rest \in Seq(Names), NEW k \in 1 .. Len(rest),
           Len(names) \in Nat, IsRest(names, m, rest)
    PROVE  /\ SubSeq(rest, k + 1, Len(rest)) \in Seq(Names)
           /\ IsRest(names, m + k, SubSeq(rest, k + 1, Len(rest)))
  <1> DEFINE after == SubSeq(rest, k + 1, Len(rest))
  <1>1. Len(rest) \in Nat /\ k \in Nat /\ k =< Len(rest)
    OBVIOUS
  <1>2. \A i \in k + 1 .. Len(rest) : rest[i] \in Names
    BY <1>1
  <1>3. /\ after \in Seq(Names)
        /\ Len(after) = IF k + 1 =< Len(rest) THEN Len(rest) - (k + 1) + 1 ELSE 0
        /\ \A i \in 1 .. Len(rest) - (k + 1) + 1 : after[i] = rest[k + 1 + i - 1]
    BY <1>1, <1>2, SubSeqProperties
  <1> HIDE DEF after
  <1>4. after \in Seq(Characters)
    <2>1. Names \subseteq Characters
      BY DEF Characters
    <2> QED
      BY <1>3, <2>1, SeqMonotonic
  <1>5. Len(after) = Len(rest) - k
    BY <1>1, <1>3
  <1>6. \A i \in 1 .. Len(after) : after[i] = names[m + k + i]
    <2> SUFFICES ASSUME NEW i \in 1 .. Len(after) PROVE after[i] = names[m + k + i]
      OBVIOUS
    <2>1. k + i \in 1 .. Len(rest) /\ k + 1 + i - 1 = k + i
          /\ m + (k + i) = m + k + i
      BY <1>1, <1>5
    <2>2. after[i] = rest[k + i]
      <3>1. i \in 1 .. Len(rest) - (k + 1) + 1
        BY <1>1, <1>5
      <3>2. after[i] = rest[k + 1 + i - 1]
        BY <1>3, <3>1
      <3> QED
        BY <2>1, <3>2
    <2>3. rest[k + i] = names[m + (k + i)]
      BY <2>1 DEF IsRest
    <2> QED
      BY <2>1, <2>2, <2>3
  <1>7. Len(after) = Len(names) - (m + k)
    BY <1>1, <1>5 DEF IsRest
  <1> QED
    BY <1>3, <1>4, <1>6, <1>7 DEF IsRest, after

(* One more node with names. *)
LEMMA FileNodeStep ==
    ASSUME PathInv, WalkFileNode
    PROVE  PathInv'
  <1>1. PICK k \in 1 .. Len(left), lead \in BOOLEAN, trail \in BOOLEAN :
            /\ buffer' = Join(FileNode(k, lead, trail))
            /\ left' = SubSeq(left, k + 1, Len(left))
    BY DEF WalkFileNode
  <1>2. PICK m \in 0 .. Len(own) :
            /\ IsRest(own, m, left)
            /\ spelling = "backslash" =>
                  IF m = 0 THEN buffer = <<>>
                  ELSE \E off \in 0 .. 1, e \in 0 .. 1 : Reached(m, off, e)
    BY DEF WalkFileNode, PathInv, PathWalked
  <1> DEFINE l    == IF lead THEN 1 ELSE 0
             t    == IF trail /\ k < Len(left) THEN 1 ELSE 0
             node == FileNode(k, lead, trail)
             n    == Len(own)
  <1>3. /\ own \in OwnPaths /\ spelling \in Separators /\ left \in Seq(Names)
        /\ buffer \in Seq(Characters) /\ guard \in 0 .. MaxNodes
    BY DEF PathInv, PathTypeOK
  <1>4. n \in Nat \ {0} /\ m \in Nat /\ Len(left) = n - m
    BY <1>2, <1>3, OwnNames DEF IsRest
  <1>5. /\ k \in Nat /\ k >= 1 /\ m + k =< n /\ l \in 0 .. 1 /\ t \in 0 .. 1
        /\ t = 1 => m + k < n
    BY <1>4
  <1>6. /\ node \in Seq(Characters)
        /\ Len(node) = l + (2 * k - 1) + t
        /\ spelling = "backslash" =>
              \A i \in 1 .. Len(node) : node[i] = Char(own, 2 * m + 1 - l + i)
    BY <1>2, <1>3, <1>4, FileNodeText
  <1>7. left' \in Seq(Names) /\ IsRest(own, m + k, left')
    BY <1>1, <1>2, <1>3, <1>4, RestAfter
  <1> HIDE DEF l, t, node, n
  <1>8. Len(node) > l
    BY <1>5, <1>6
  <1>9. buffer' \in Seq(Characters) /\ Len(buffer') =< MaxPath
    <2>1. node # <<>>
      BY <1>5, <1>6, <1>8
    <2> QED
      BY <1>1, <1>3, <1>6, <2>1, JoinTypes DEF node
  <1>10. UNCHANGED <<own, spelling, pathPc>> /\ pathPc = "walk"
         /\ guard' = guard + 1 /\ guard < MaxNodes /\ gotAny' = TRUE
    BY DEF WalkFileNode
  <1>11. PathTypeOK'
    <2>1. guard' \in 0 .. MaxNodes
      BY <1>3, <1>10, PathAssumption
    <2> QED
      BY <1>3, <1>7, <1>9, <1>10, <2>1 DEF PathTypeOK
  <1>12. ASSUME spelling = "backslash"
         PROVE  \E off \in 0 .. 1 : IsText(own, buffer', off, 2 * (m + k) - off + t)
    <2>1. buffer' = Join(node)
      BY <1>1 DEF node
    <2>2. CASE m = 0
      <3>1. \A i \in 1 .. Len(node) : node[i] = Char(own, 1 - l + i)
        <4> SUFFICES ASSUME NEW i \in 1 .. Len(node) PROVE node[i] = Char(own, 1 - l + i)
          OBVIOUS
        <4>1. 2 * m + 1 - l + i = 1 - l + i
          BY <1>5, <2>2
        <4>2. Char(own, 2 * m + 1 - l + i) = Char(own, 1 - l + i)
          BY <4>1
        <4> QED
          BY <1>6, <1>12, <4>2
      <3>2. IsText(own, Join(node), 1 - l, Len(node))
        BY <1>2, <1>5, <1>6, <1>12, <2>2, <3>1, FirstNode
      <3>3. Len(node) = 2 * (m + k) - (1 - l) + t /\ 1 - l \in 0 .. 1
        BY <1>5, <1>6, <2>2
      <3> QED
        BY <2>1, <3>2, <3>3
    <2>3. CASE m # 0
      <3>1. PICK off \in 0 .. 1, e \in 0 .. 1 : Reached(m, off, e)
        BY <1>2, <1>12, <2>3
      <3>2. m \in 1 .. Len(own) - 1
        BY <1>4, <1>5, <2>3 DEF n
      <3>3. IsText(own, Join(node), off, 2 * m - off + 1 - l + Len(node))
        BY <1>3, <1>5, <1>6, <1>8, <1>12, <3>1, <3>2, NextNode
      <3>4. 2 * m - off + 1 - l + Len(node) = 2 * (m + k) - off + t
        BY <1>4, <1>5, <1>6
      <3> QED
        BY <2>1, <3>3, <3>4
    <2> QED
      BY <2>2, <2>3
  <1>13. PathWalked'
    <2>1. m + k \in 0 .. Len(own)' /\ m + k # 0
      BY <1>4, <1>5, <1>10 DEF n
    <2>2. ASSUME spelling = "backslash"
          PROVE  \E off \in 0 .. 1, e \in 0 .. 1 : Reached(m + k, off, e)'
      <3>1. PICK off \in 0 .. 1 : IsText(own, buffer', off, 2 * (m + k) - off + t)
        BY <1>12, <2>2
      <3>2. PICK e \in 0 .. 1 : e = t
        BY <1>5
      <3>3. IsText(own, buffer', off, 2 * (m + k) - off + e) /\ (e = 1 => m + k < Len(own))
        BY <1>5, <3>1, <3>2 DEF n
      <3>4. Reached(m + k, off, e)'
        BY <1>10, <3>3 DEF Reached
      <3> QED
        BY <3>4
    <2>3. IsRest(own, m + k, left)'
      BY <1>7, <1>10
    <2> QED
      BY <1>10, <2>1, <2>2, <2>3 DEF PathWalked
  <1> QED
    BY <1>10, <1>11, <1>13 DEF PathInv, PathStarts, PathRead

(* The last step roots what there is. *)
LEMMA WalkEndsStep ==
    ASSUME PathInv, WalkEnds
    PROVE  PathInv'
  <1>1. PICK m \in 0 .. Len(own) :
            /\ IsRest(own, m, left)
            /\ spelling = "backslash" =>
                  IF m = 0 THEN buffer = <<>>
                  ELSE \E off \in 0 .. 1, e \in 0 .. 1 : Reached(m, off, e)
    BY DEF WalkEnds, PathInv, PathWalked
  <1>2. /\ own \in OwnPaths /\ buffer \in Seq(Characters) /\ Len(buffer) =< MaxPath
    BY DEF PathInv, PathTypeOK
  <1>3. /\ buffer' = Rooted(buffer) /\ pathPc' = "done"
        /\ UNCHANGED <<own, spelling, left, gotAny, guard>>
    BY DEF WalkEnds
  <1>4. Len(own) \in Nat \ {0} /\ m \in Nat /\ m =< Len(own) /\ Len(left) = Len(own) - m
        /\ MaxPath \in Nat /\ MaxPath > 0
    BY <1>1, <1>2, OwnNames, PathAssumption DEF IsRest
  <1> DEFINE bs == <<"backslash">>
  <1>5. bs \in Seq(Characters) /\ Len(bs) = 1 /\ bs[1] = "backslash"
    BY OneCharacter DEF Characters, Separators
  <1>6. PathTypeOK'
    <2>1. /\ StrCat16(bs, buffer) \in Seq(Characters)
          /\ Len(StrCat16(bs, buffer)) =< MaxPath
      <3> HIDE DEF bs
      <3>1. Len(bs) + Len(buffer) \in Nat
        BY <1>2, <1>5
      <3> QED
        BY <1>2, <1>4, <1>5, <3>1, CatKeeps
    <2>2. buffer' \in Seq(Characters) /\ Len(buffer') =< MaxPath
      BY <1>2, <1>3, <2>1 DEF Rooted
    <2> QED
      BY <1>3, <2>2 DEF PathInv, PathTypeOK
  <1>7. ASSUME spelling = "backslash"
        PROVE  /\ IsText(own, buffer', 0, Len(buffer'))
               /\ Len(buffer') =< 2 * Len(own)
               /\ left = <<>> /\ 2 * Len(own) =< MaxPath => Len(buffer') = 2 * Len(own)
    <2>1. CASE m = 0
      <3>1. buffer' = <<>> /\ left # <<>>
        BY <1>1, <1>3, <1>4, <1>7, <2>1 DEF Rooted
      <3>2. IsText(own, <<>>, 0, 0)
        BY <1>4 DEF IsText
      <3> QED
        BY <1>4, <3>1, <3>2
    <2>2. CASE m # 0
      <3>1. PICK off \in 0 .. 1, e \in 0 .. 1 : Reached(m, off, e)
        BY <1>1, <1>7, <2>2
      <3> DEFINE len == 2 * m - off + e
      <3>2. /\ len \in Nat /\ len > 0 /\ len + off =< 2 * Len(own)
            /\ m = Len(own) => len + off = 2 * Len(own)
        BY <1>4, <2>2, <3>1 DEF Reached
      <3>3. /\ Len(buffer) = IF len < MaxPath THEN len ELSE MaxPath
            /\ \A i \in 1 .. Len(buffer) : buffer[i] = Char(own, off + i)
        BY <3>1 DEF Reached, IsText
      <3> HIDE DEF len
      <3>4. left = <<>> => m = Len(own)
        BY <1>4
      <3>5. buffer # <<>> /\ Head(buffer) = Char(own, off + 1) /\ Len(buffer) >= 1
        BY <1>2, <1>4, <3>2, <3>3
      <3>6. CASE off = 0
        <4>1. Head(buffer) = "backslash"
          <5>1. Char(own, off + 1) = Char(own, 2 * 0 + 1)
            BY <3>6
          <5> QED
            BY <3>5, <5>1, CharSeparator
        <4>2. buffer' = buffer
          BY <1>3, <3>5, <4>1 DEF Rooted
        <4>3. IsText(own, buffer, 0, Len(buffer))
          BY <1>2, <1>4, <3>2, <3>3, <3>6 DEF IsText
        <4> QED
          BY <1>4, <3>2, <3>3, <3>4, <3>6, <4>2, <4>3
      <3>7. CASE off = 1
        <4>1. Head(buffer) # "backslash"
          <5>1. Char(own, off + 1) = Char(own, 2 * 1)
            BY <3>7
          <5>2. Char(own, 2 * 1) = own[1]
            BY CharName
          <5>3. 1 \in 1 .. Len(own)
            BY <1>4
          <5> QED
            BY <1>2, <3>5, <5>1, <5>2, <5>3, OwnNames
        <4>2. buffer' = StrCat16(bs, buffer)
          BY <1>3, <3>5, <4>1 DEF Rooted
        <4>3. IsText(own, bs, 0, 1)
          <5>1. Char(own, 2 * 0 + 1) = "backslash"
            BY CharSeparator
          <5>2. Char(own, 0 + 1) = Char(own, 2 * 0 + 1)
            OBVIOUS
          <5> QED
            BY <1>4, <1>5, <5>1, <5>2 DEF IsText
        <4>4. \A i \in 1 .. Len(buffer) : buffer[i] = Char(own, 0 + 1 + i)
          BY <3>3, <3>7
        <4>5. IsText(own, buffer', 0, 1 + Len(buffer))
          BY <1>2, <4>2, <4>3, <4>4, CatText
        <4>6. Len(buffer) \in Nat
          BY <1>2
        <4>7. Len(buffer') = IF 1 + Len(buffer) < MaxPath THEN 1 + Len(buffer) ELSE MaxPath
          BY <4>5 DEF IsText
        <4>8. IsText(own, buffer', 0, Len(buffer'))
          BY <1>4, <4>5, <4>6, <4>7 DEF IsText
        <4>9. Len(buffer') =< 2 * Len(own)
          BY <1>4, <3>2, <3>3, <3>7, <4>6, <4>7
        <4>10. left = <<>> /\ 2 * Len(own) =< MaxPath => Len(buffer') = 2 * Len(own)
          BY <1>4, <3>2, <3>3, <3>4, <3>7, <4>6, <4>7
        <4> QED
          BY <4>8, <4>9, <4>10
      <3> QED
        BY <3>6, <3>7
    <2> QED
      BY <2>1, <2>2
  <1>8. PathRead'
    BY <1>3, <1>7 DEF PathRead
  <1> QED
    BY <1>3, <1>6, <1>8 DEF PathInv, PathStarts, PathWalked

(* Every step of the walk keeps the buffer a beginning of our path. *)
LEMMA PathStep == PathInv /\ PathNext => PathInv'
  <1> SUFFICES ASSUME PathInv, PathNext PROVE PathInv'
    OBVIOUS
  <1>1. CASE StartWalk
    <2>1. /\ pathPc' \in {"walk", "done"} /\ left' = own /\ buffer' = <<>> /\ own' = own
          /\ own \in OwnPaths /\ PathTypeOK'
      BY <1>1 DEF StartWalk, PathInv, PathStarts, PathTypeOK
    <2>2. /\ own \in Seq(Characters) /\ own # <<>> /\ Len(own) \in Nat \ {0}
      BY <2>1, OwnNames
    <2>3. IsRest(own, 0, own)
      BY <2>2 DEF IsRest
    <2>4. PathWalked'
      <3>1. 0 \in 0 .. Len(own)'
        BY <2>1, <2>2
      <3>2. IsRest(own, 0, left)'
        BY <2>1, <2>3
      <3> QED
        BY <2>1, <3>1, <3>2 DEF PathWalked
    <2>5. PathRead'
      <3>1. IsText(own, <<>>, 0, 0)
        <4>1. 0 < MaxPath
          BY PathAssumption
        <4> QED
          BY <4>1 DEF IsText
      <3> QED
        BY <2>1, <2>2, <3>1 DEF PathRead
    <2> QED
      BY <2>1, <2>4, <2>5 DEF PathInv, PathStarts
  <1>2. CASE WalkFileNode
    BY <1>2, FileNodeStep
  <1>3. CASE WalkOtherNode
    <2>1. guard' \in 0 .. MaxNodes
      BY <1>3, PathAssumption DEF WalkOtherNode, PathInv, PathTypeOK
    <2>2. PathTypeOK'
      BY <1>3, <2>1 DEF WalkOtherNode, PathInv, PathTypeOK
    <2>3. PathWalked'
      BY <1>3 DEF WalkOtherNode, PathInv, PathWalked, Reached
    <2> QED
      BY <1>3, <2>2, <2>3 DEF WalkOtherNode, PathInv, PathStarts, PathRead
  <1>4. CASE WalkEnds
    BY <1>4, WalkEndsStep
  <1> QED
    BY <1>1, <1>2, <1>3, <1>4 DEF PathNext

(* The caller drops the path. *)
LEMMA ForgetStep == PathInv /\ ForgetPath => PathInv'
  <1> SUFFICES ASSUME PathInv, ForgetPath PROVE PathInv'
    OBVIOUS
  <1>1. own' \in OwnPaths /\ left' = own' /\ buffer' = <<>> /\ pathPc' = "start"
        /\ spelling' = "backslash" /\ gotAny' = FALSE /\ guard' = 0
    BY DEF ForgetPath, PathInv, PathTypeOK
  <1>2. left' \in Seq(Names) /\ 0 \in 0 .. MaxNodes
    BY <1>1, PathAssumption
  <1>3. buffer' \in Seq(Characters) /\ Len(buffer') =< MaxPath
    BY <1>1, PathAssumption
  <1>4. PathTypeOK'
    BY <1>1, <1>2, <1>3 DEF PathTypeOK, Separators
  <1> QED
    BY <1>1, <1>4 DEF PathInv, PathStarts, PathWalked, PathRead

(* A path that nothing happens to. *)
LEMMA PathUnchanged == PathInv /\ UNCHANGED pathVars => PathInv'
  BY DEF PathInv, PathTypeOK, PathStarts, PathWalked, PathRead, Reached, pathVars

-----------------------------------------------------------------------------
(* A text that begins our path is a prefix of it, and our path if it has   *)
(* its length.                                                             *)
LEMMA BufferNamesOurFile == PathInv => OwnPathNamesOurFile
  <1> SUFFICES ASSUME PathInv, spelling = "backslash", pathPc = "done"
               PROVE  /\ WholePathRead => PathEqual(buffer, OwnPath)
                      /\ IsPrefix(buffer, OwnPath)
    BY DEF OwnPathNamesOurFile, WholePathRead
  <1>1. /\ buffer \in Seq(Characters)
        /\ \A i \in 1 .. Len(buffer) : buffer[i] = Char(own, i)
        /\ Len(buffer) =< 2 * Len(own)
        /\ left = <<>> /\ 2 * Len(own) =< MaxPath => Len(buffer) = 2 * Len(own)
    <2>1. \A i \in 1 .. Len(buffer) : buffer[i] = Char(own, 0 + i)
      BY DEF PathInv, PathRead, IsText
    <2> QED
      BY <2>1 DEF PathInv, PathRead, IsText
  <1>2. /\ OwnPath \in Seq(Characters) /\ Len(OwnPath) = 2 * Len(own)
        /\ \A i \in 1 .. Len(OwnPath) : OwnPath[i] = Char(own, i)
    BY OwnPathText DEF PathInv, PathTypeOK
  <1>3. Len(buffer) \in Nat /\ Len(OwnPath) \in Nat /\ Len(buffer) =< Len(OwnPath)
        /\ \A i \in 1 .. Len(buffer) : buffer[i] = OwnPath[i]
    BY <1>1, <1>2
  <1>4. IsPrefix(buffer, OwnPath)
    <2> DEFINE n == Len(buffer)
               p == SubSeq(buffer, 1, n)
               q == SubSeq(OwnPath, 1, n)
    <2>1. /\ \A i \in 1 .. n : buffer[i] \in Characters
          /\ \A i \in 1 .. n : OwnPath[i] \in Characters
      BY <1>1, <1>2, <1>3
    <2>2. /\ p \in Seq(Characters) /\ Len(p) = n
          /\ \A i \in 1 .. n : p[i] = buffer[i]
      BY <1>3, <2>1, SubSeqProperties
    <2>3. /\ q \in Seq(Characters) /\ Len(q) = n
          /\ \A i \in 1 .. n : q[i] = OwnPath[i]
      BY <1>3, <2>1, SubSeqProperties
    <2> HIDE DEF p, q
    <2>4. p = q
      BY <1>3, <2>2, <2>3, SeqEqual
    <2> QED
      BY <1>3, <2>4 DEF IsPrefix, p, q
  <1>5. WholePathRead => PathEqual(buffer, OwnPath)
    <2> SUFFICES ASSUME WholePathRead PROVE PathEqual(buffer, OwnPath)
      OBVIOUS
    <2>1. Len(buffer) = Len(OwnPath)
      BY <1>1, <1>2 DEF WholePathRead
    <2>2. \A i \in DOMAIN buffer : buffer[i] = OwnPath[i]
      BY <1>1, <1>3
    <2> QED
      BY <2>1, <2>2 DEF PathEqual
  <1> QED
    BY <1>4, <1>5

-----------------------------------------------------------------------------
(* The path of our own file, turn after turn *)

(* The path is only touched while the loader is searched for, and when the *)
(* power fails.                                                            *)
LEMMA PathTurnStep == PathInv /\ [Next]_vars => PathInv'
  <1> SUFFICES ASSUME PathInv, [Next]_vars PROVE PathInv'
    OBVIOUS
  <1>1. CASE Find
    <2>1. PathNext \/ ForgetPath
      BY <1>1 DEF Find
    <2> QED
      BY <2>1, PathStep, ForgetStep
  <1>2. CASE PowerLoss
    BY <1>2, ForgetStep DEF PowerLoss
  <1>3. CASE Select \/ Scan \/ Log \/ RenderScreen \/ NextTurn \/ UNCHANGED vars
    <2>1. UNCHANGED pathVars
      BY <1>3 DEF Select, Scan, Log, RenderScreen, NextTurn, vars
    <2> QED
      BY <2>1, PathUnchanged
  <1> QED
    BY <1>1, <1>2, <1>3 DEF Next

(* The path starts out not walked. *)
LEMMA PathTurnInit == Init => PathInv
  BY PathInitHolds DEF Init

(* However the firmware cuts our path into nodes, and whenever the power   *)
(* goes, what WinBootOwnFilePath hands to the guard is our path or the     *)
(* beginning of it.                                                        *)
THEOREM OwnPathIsOurs == Spec => []OwnPathNamesOurFile
  BY PathTurnInit, PathTurnStep, BufferNamesOurFile, PTL DEF Spec

(* The screen, the log and the path keep their types: the cursor its       *)
(* console, the log its buffer and the path its own.                       *)
THEOREM TurnTypes == Spec => []TypeOK
  <1>1. ScreenInv /\ LogInv /\ PathInv => TypeOK
    BY DEF ScreenInv, ScreenStages, LogInv, PathInv, TypeOK
  <1>2. ScreenInv => ScreenTypeOK
    BY DEF ScreenInv
  <1> QED
    BY <1>1, <1>2, ScreenStarts, ScreenStep, LogStarts, LogStep, PathTurnInit,
       PathTurnStep, PTL DEF Spec
=============================================================================
