---------------------------- MODULE ScreenLayout ----------------------------
(***************************************************************************)
(* How RenderScreen of GpuCheck.c divides the rows of the text console:    *)
(* the row budget, the layout ChooseLayout picks, and the pages the        *)
(* adapter list is cut into.  Pure operators; `count' is the number of     *)
(* adapters, `rows' the height of the console (mRows), and `notice' says   *)
(* that the "gpucheck.cfg is UTF-16" line is printed.                      *)
(***************************************************************************)
EXTENDS Naturals

(* Rows RenderScreen reserves for everything outside the adapter list. *)
Overhead(count, notice) ==
    (IF count = 0 THEN 8 ELSE 6) + (IF notice THEN 1 ELSE 0) + 10

(* The richest layout whose budgeted height fits the console. *)
ChooseLayout(count, rows, overhead) ==
    IF count = 0 \/ overhead + 9 * count =< rows THEN "detailed"
    ELSE IF overhead + 4 * count =< rows THEN "compact"
    ELSE "table"

(* Adapters on one page of the table, whose heading, page indicator and    *)
(* extra legend line cost five more rows.                                  *)
TablePage(rows, overhead) ==
    IF rows > overhead + 5 THEN rows - (overhead + 5) ELSE 1

(* Adapters on one page: all of them, except in the table layout.          *)
PerPage(count, rows, notice) ==
    LET overhead == Overhead(count, notice)
    IN  IF ChooseLayout(count, rows, overhead) = "table"
        THEN TablePage(rows, overhead)
        ELSE IF count = 0 THEN 1 ELSE count

TotalPages(count, rows, notice) ==
    LET perPage == PerPage(count, rows, notice)
        pages   == (count + perPage - 1) \div perPage
    IN  IF pages = 0 THEN 1 ELSE pages
=============================================================================
