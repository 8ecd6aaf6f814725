---------------------------- MODULE ExportPaging ----------------------------
(***************************************************************************)
(* The spreadsheet export of pkg/export.go: Export.Run asks TotalFunc for  *)
(* the number of rows, computes how many pages to fetch and how many       *)
(* sheets to spread them over, and fetches page after page with ListFunc   *)
(* while the table goes on changing: nothing holds it still.  Columns come *)
(* from FieldFunc or, without one, from the first row of the first page.   *)
(* SummaryFunc and ParamsFunc may add a sheet each at the end.             *)
(*                                                                         *)
(* The functions the caller gives read the table and may fail; what a cell *)
(* looks like (status words, translation, pictures, styles) is left out.   *)
(* A row is a number; rows may be added at the end of the listing, or in   *)
(* front of it or taken out, which shifts the pages.  The table changes    *)
(* once at most in a run.                                                  *)
(***************************************************************************)
EXTENDS Integers, Sequences

CONSTANTS PageSizes, SheetSizes, LimitSizes, \* the options to choose from
          RawFuncs,  \* what SummaryFunc and ParamsFunc are and give, see below
          Tables,    \* sizes of the table
          MaxInt32,  \* the largest int32
          MaxRuns    \* bound on how often Run is called on one Export

\* The parameters are as Services assumes them.
ExportSizesAssumption ==
  /\ PageSizes \subseteq Nat \ {0} /\ SheetSizes \subseteq Nat
  /\ LimitSizes \subseteq Nat /\ Tables \subseteq Nat
  /\ MaxInt32 \in Nat /\ MaxRuns \in Nat

VARIABLES
  options,   \* PageSize, SheetSize, LimitSize; is there a TotalFunc, a FieldFunc?
             \*   summary, params: "none", or their function gives "rows", a
             \*   struct all of whose fields are zero ("blank"), or "empty", a slice
  rowKind,   \* what ListFunc lists: a "struct", or a "pointer" to one or a map
  table,     \* the rows, in the order they are listed
  change,    \* history: the table did not change, has "grown", has "shifted"
  pc,        \* where Run is
  total, pageTotal, sheetTotal,  \* what before computes
  page,      \* Export.page, the page fetched last
  inSheet,   \* pages fetched for the current sheet
  count,     \* Export.count, rows written by this Export, whatever the run
  limit,     \* Export.limit
  columns,   \* "unbuilt", or does fieldList have "none" or "some"?
  sheets,    \* rows in each sheet of the workbook
  written,   \* the rows written to the workbook, in order
  blank,     \* was one of them written without columns?
  raws,      \* the sheets of SummaryFunc and ParamsFunc that were written
  runs, start\* history: calls of Run, and count when the last one began

plan == << total, pageTotal, sheetTotal >>
book == << columns, sheets, written, blank, raws >>
vars == << options, rowKind, table, change, pc, plan, page, inSheet, count,
           limit, book, runs, start >>

\* A bug to detect: the last page, when it is not full, is not counted.
PagesFloor(rows, size) == rows \div size

\* math.Ceil(float64(rows) / float64(size))
Pages(rows, size) == (rows + size - 1) \div size

\* int32(LimitSize)
Limit32 ==
  IF options.limit > MaxInt32 THEN options.limit - 2 * (MaxInt32 + 1)
  ELSE options.limit

\* NewExport: a sheet is at least a page.
Options ==
  {[page |-> p, sheet |-> IF s < p THEN p ELSE s, limit |-> l,
    hasTotal |-> t, hasFields |-> f, summary |-> w.summary, params |-> w.params] :
     p \in PageSizes, s \in SheetSizes, l \in LimitSizes,
     t \in BOOLEAN, f \in BOOLEAN, w \in RawFuncs}

Init ==
  /\ options \in Options
  /\ rowKind \in {"struct", "pointer"}
  /\ table \in {[n \in 1..size |-> n] : size \in Tables}
  /\ change = "none"
  /\ pc = "idle"
  /\ total = 0 /\ pageTotal = 0 /\ sheetTotal = 0
  /\ page = 0 /\ inSheet = 0 /\ count = 0 /\ limit = FALSE
  /\ columns = "unbuilt" /\ sheets = << >> /\ written = << >> /\ blank = FALSE
  /\ raws = {}
  /\ runs = 0 /\ start = 0

-----------------------------------------------------------------------------
(* The table *)

Rows == 1..Len(table)

Fresh == Len(table) + 1

Change(kind, rows) ==
  /\ pc \in {"before", "sheet", "pages"} /\ change = "none"
  /\ change' = kind /\ table' = rows
  /\ UNCHANGED << options, rowKind, pc, plan, page, inSheet, count, limit, book,
                  runs, start >>

Others == \/ Change("grown", Append(table, Fresh))
          \/ Change("shifted", << Fresh >> \o table)
          \/ table # << >> /\ Change("shifted", Tail(table))

-----------------------------------------------------------------------------
(* Run *)

\* A new workbook; the columns of an earlier run are built anew, count stays.
Run ==
  /\ pc = "idle" /\ runs < MaxRuns
  /\ pc' = "before"
  /\ runs' = runs + 1 /\ start' = count
  /\ change' = "none"
  /\ columns' = "unbuilt" /\ sheets' = << >> /\ written' = << >> /\ blank' = FALSE
  /\ raws' = {}
  /\ UNCHANGED << options, rowKind, table, plan, page, inSheet, count, limit >>

Fails == /\ pc' = "failed"
         /\ UNCHANGED << options, rowKind, table, change, plan, page, inSheet, count,
                         limit, book, runs, start >>

Proceeds(from, to) ==
  /\ pc = from
  /\ \/ /\ pc' = to
        /\ UNCHANGED << options, rowKind, table, change, plan, page, inSheet, count,
                        limit, book, runs, start >>
     \/ Fails

\* The rows that count: no more than LimitSize of them.
Wanted(rows) == IF rows >= options.limit THEN options.limit ELSE rows

\* TotalFunc and the computation of pages and sheets
Before ==
  /\ pc = "before"
  /\ \/ /\ total' = IF options.hasTotal THEN Len(table) ELSE total
        /\ pageTotal' = LET pages == Pages(Wanted(total'), options.page)
                        IN  IF pages = 0 THEN 1 ELSE pages
        /\ sheetTotal' = Pages(Wanted(total'), options.sheet)
        /\ page' = 0 /\ limit' = FALSE
        /\ pc' = "sheet"
        /\ UNCHANGED << options, rowKind, table, change, inSheet, count, book,
                        runs, start >>
     \/ options.hasTotal /\ Fails

NewSheet ==
  /\ pc = "sheet"
  /\ Len(sheets) < sheetTotal /\ ~limit
  /\ sheets' = Append(sheets, 0)
  /\ inSheet' = 0
  /\ pc' = "pages"
  /\ UNCHANGED << options, rowKind, table, change, plan, page, count, limit,
                  columns, written, blank, raws, runs, start >>

\* ListFunc: OFFSET (number - 1) * PageSize LIMIT PageSize
List(number) ==
  SubSeq(table, (number - 1) * options.page + 1,
         LET end == number * options.page
         IN  IF end < Len(table) THEN end ELSE Len(table))

\* GetTags: the elements of the list are interfaces, and only a struct in one
\* has fields to be found; a pointer has none, and neither has an empty list.
Columns(list) ==
  IF options.hasFields \/ (list # << >> /\ rowKind = "struct") THEN "some" ELSE "none"

\* isBuildHeader: once in a run, from the first page
PreBuildHeader(list) == IF columns = "unbuilt" THEN Columns(list) ELSE columns

\* A bug to detect: one row more than the limit.
RoomToLimit == Limit32 - count + 1

\* exportList stops before a row that is beyond the limit.
Room == IF Limit32 > count THEN Limit32 - count ELSE 0

Fit(list) == IF Len(list) > Room THEN Room ELSE Len(list)

MorePages == /\ inSheet < Pages(pageTotal, sheetTotal)
             /\ page < pageTotal /\ ~limit

FetchPage ==
  /\ pc = "pages"
  /\ MorePages
  /\ page' = page + 1
  /\ LET list == List(page')
     IN  \/ /\ inSheet' = inSheet + 1
            /\ columns' = PreBuildHeader(list)
            /\ written' = written \o SubSeq(list, 1, Fit(list))
            /\ sheets' = [sheets EXCEPT ![Len(sheets)] = @ + Fit(list)]
            /\ blank' = (blank \/ (Fit(list) > 0 /\ columns' = "none"))
            /\ count' = count + Fit(list)
            /\ limit' = (Fit(list) < Len(list))
            /\ pc' = pc
         \/ /\ count' \in count..(count + Fit(list))   \* the rows before the error
            /\ pc' = "failed"
            /\ UNCHANGED << inSheet, columns, written, sheets, blank, limit >>
  /\ UNCHANGED << options, rowKind, table, change, plan, raws, runs, start >>

\* Pictures and Flush
EndSheet ==
  /\ pc = "pages"
  /\ ~MorePages
  /\ Proceeds("pages", "sheet")

-----------------------------------------------------------------------------
(* The sheets of SummaryFunc and ParamsFunc, and the end *)

\* GetNonEmptyFields: nothing of a slice without elements but an error
NonEmptyFields(kind) == IF kind = "rows" THEN {"field"} ELSE {}

\* preProcessor
Describes(kind) == kind # "empty"

\* processorRaw writes no sheet for a struct without fields to show.
ProcessorRaw(raw) ==
  raws' = IF NonEmptyFields(options[raw]) = {} THEN raws ELSE raws \cup {raw}

AddRaw(raw, next) ==
  /\ \/ options[raw] = "none" /\ raws' = raws
     \/ options[raw] # "none" /\ Describes(options[raw]) /\ ProcessorRaw(raw)
  /\ pc' = next
  /\ UNCHANGED << options, rowKind, table, change, plan, page, inSheet, count,
                  limit, columns, sheets, written, blank, runs, start >>

\* After the last sheet
Summary == /\ pc = "sheet" /\ (limit \/ Len(sheets) >= sheetTotal)
           /\ AddRaw("summary", "params") \/ (options.summary # "none" /\ Fails)

Params == /\ pc = "params"
          /\ AddRaw("params", "save") \/ (options.params # "none" /\ Fails)

SaveAs == Proceeds("save", "saved")

\* An error of FinishFunc is one of the export, though the file is there.
Finish == Proceeds("saved", "finished")

\* Run closes the workbook and returns, or returns an error; it may be called again.
Return ==
  /\ pc \in {"finished", "failed"}
  /\ pc' = "idle"
  /\ UNCHANGED << options, rowKind, table, change, plan, page, inSheet, count,
                  limit, book, runs, start >>

Next == \/ Run \/ Before \/ NewSheet \/ FetchPage \/ EndSheet
        \/ Summary \/ Params \/ SaveAs \/ Finish \/ Return \/ Others

Spec == Init /\ [][Next]_vars

-----------------------------------------------------------------------------
(* The properties *)

ExportTypeOK ==
  /\ options \in Options
  /\ table \in Seq(Nat)
  /\ change \in {"none", "grown", "shifted"}
  /\ pc \in {"idle", "before", "sheet", "pages", "params", "save", "saved", "finished",
             "failed"}
  /\ total \in Nat /\ pageTotal \in Nat /\ sheetTotal \in Nat
  /\ page \in Nat /\ inSheet \in Nat /\ count \in Nat /\ limit \in BOOLEAN
  /\ columns \in {"unbuilt", "none", "some"}
  /\ sheets \in Seq(Nat) /\ written \in Seq(Nat) /\ blank \in BOOLEAN
  /\ raws \subseteq {"summary", "params"}
  /\ runs \in 0..MaxRuns /\ start \in Nat

Least(a, b) == IF a < b THEN a ELSE b

\* Whatever the sizes, an export that succeeds holds the rows of the listing in
\* their order, each once and none left out, up to LimitSize (counted over all
\* the runs of this Export), when rows have only been added at its end. Rows
\* added in front or taken out meanwhile shift the pages: then a row may be
\* missing or there twice.  What SummaryFunc and ParamsFunc give has its sheet.
ExportIsPrefix ==
  pc = "saved" /\ change # "shifted" /\ options.limit <= MaxInt32 =>
    /\ written = SubSeq(table, 1, Len(written))
    /\ Len(written) >= Least(total, options.limit - start)
    /\ raws = {raw \in {"summary", "params"} : options[raw] \in {"rows", "empty"}}

\* A sheet holds less than SheetSize and a page, the workbook no more than
\* LimitSize rows, and every row of it has its columns, but for an Export
\* without FieldFunc that lists pointers or maps: in those none are found.
SheetsBounded ==
  /\ \A n \in DOMAIN sheets : sheets[n] < options.sheet + options.page
  /\ options.limit <= MaxInt32 => Len(written) <= options.limit
  /\ blank => ~options.hasFields /\ rowKind # "struct"
=============================================================================
