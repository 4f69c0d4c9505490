------------------------------- MODULE DDMerge -------------------------------
(***************************************************************************)
(* A Derivation Dictionary over the runs that export it.  A run exports    *)
(* the presentable rows of its job, alone or merged with the dictionary of *)
(* an earlier run (existing_dd_path).  Rows are keyed by entity, column    *)
(* and effective start date; rows that differ in nothing but the date are  *)
(* made one.                                                               *)
(*                                                                         *)
(* A dictionary is the set of its rows: their order is the order of        *)
(* execution and decides nothing here.  Equal rows in other spelling count *)
(* as the same row.                                                        *)
(***************************************************************************)
EXTENDS Naturals, FiniteSets

CONSTANTS
    Columns,     \* (entity, column) pairs, by canonical_logical_name
    Contents,    \* what _row_signature compares besides them: expression,
                 \* types, option, status, explanation
    Days,        \* effective start dates
    Text,        \* Text[d]: the rank of the date as dd-mm-YYYY text
    Calendar,    \* Calendar[d]: its rank in the calendar
    MaxRows      \* bound: rows of one job

ASSUME MergeAssumption ==
    /\ Text \in [Days -> Nat]
    /\ \A d, e \in Days : Text[d] = Text[e] => d = e
    /\ Calendar \in [Days -> Nat]
    /\ \A d, e \in Days : Calendar[d] = Calendar[e] => d = e
    /\ MaxRows \in Nat

VARIABLES
    dictionary,   \* the exported rows
    job,          \* DD rows of the last run, exported or withheld
    conflicts,    \* keys for which some run exported two different rows
    promised,     \* history: rows some run presented whose keys no later run
                  \* presented or withheld, dates left as they were
    redated       \* history: those of them that are equal to another but for
                  \* a date that may be the earlier one

vars == <<dictionary, job, conflicts, promised, redated>>

RowType == [col : Columns, content : Contents, day : Days]

\* A DD row and whether is_exportable_row lets it through.
JobRow == [row : RowType, exported : BOOLEAN]

Key(r) == <<r.col, r.day>>

KeysOf(S) == {Key(r) : r \in S}

\* _row_signature: everything but the date.
SameButDate(r, t) == r.col = t.col /\ r.content = t.content

Presentable(rows) == {x.row : x \in {y \in rows : y.exported}}

WithheldKeys(rows) == KeysOf({x.row : x \in {y \in rows : ~y.exported}})

\* The rows are keyed by column alone.
MutDedupeColumn(S) ==
    {r \in S : \A t \in S : r.col = t.col => Text[r.day] <= Text[t.day]}

\* _dedupe_equivalent_rows: of rows equal but for their date the one whose
\* date is smallest as text.
Dedupe(S) ==
    {r \in S : \A t \in S : SameButDate(r, t) => Text[r.day] <= Text[t.day]}

\* New rows that are there already are skipped, and dropped with the old ones.
MutMerge(existing, new) ==
    Dedupe({r \in existing : Key(r) \notin KeysOf(new)} \cup (new \ existing))

MutMergeAll(existing, new) == Dedupe(existing \cup new)

\* merge_dd_rows: new rows replace existing ones with their key.
Merge(existing, new) ==
    Dedupe({r \in existing : Key(r) \notin KeysOf(new)} \cup new)

MutExported(existing, rows) == Merge(existing, Presentable(rows))

\* export_dd_rows with an existing dictionary: rows the job withholds take
\* their key out of it first.
Exported(existing, rows) ==
    Merge({r \in existing : Key(r) \notin WithheldKeys(rows)}, Presentable(rows))

\* Keys that several presentable rows of a job fight for.
Contested(rows) ==
    {Key(r) : r \in {s \in Presentable(rows) :
        \E t \in Presentable(rows) : Key(t) = Key(s) /\ t.content # s.content}}

-----------------------------------------------------------------------------

\* r has the earlier date in the calendar, and as text too.
Precedes(r, t) ==
    Calendar[r.day] < Calendar[t.day] /\ Text[r.day] < Text[t.day]

\* Rows that Dedupe may give the date of another.
Redatable(S) == {r \in S : \E t \in S : SameButDate(r, t) /\ t # r /\ ~Precedes(r, t)}

\* What is left of the promises of earlier runs.
Kept(S, rows) ==
    {r \in S : Key(r) \notin KeysOf(Presentable(rows)) \cup WithheldKeys(rows)}

Init == /\ dictionary = {} /\ job = {} /\ conflicts = {}
        /\ promised = {} /\ redated = {}

\* A job may derive a column twice for a day; one without DD rows exports
\* nothing.
Jobs == {rows \in SUBSET JobRow : rows # {} /\ Cardinality(rows) <= MaxRows}

\* Without existing_dd_path the dictionary starts over.
ExportAlone(rows) ==
    /\ dictionary' = Dedupe(Presentable(rows))
    /\ job' = rows
    /\ conflicts' = Contested(rows)
    /\ promised' = Presentable(rows)
    /\ redated' = Redatable(promised')

ExportInto(rows) ==
    /\ dictionary' = Exported(dictionary, rows)
    /\ job' = rows
    /\ conflicts' = conflicts \cup Contested(rows)
    /\ promised' = Kept(promised, rows) \cup Presentable(rows)
    /\ redated' = Kept(redated, rows) \cup Redatable(promised')

Next == \E rows \in Jobs : ExportAlone(rows) \/ ExportInto(rows)

Spec == Init /\ [][Next]_vars

-----------------------------------------------------------------------------
(* Properties. *)

TypeOK == /\ dictionary \subseteq RowType
          /\ job \subseteq JobRow
          /\ conflicts \subseteq Columns \X Days
          /\ promised \subseteq RowType
          /\ redated \subseteq promised

\* merge_dd_rows' docstring, "New rows always win over an existing row with the
\* same key", "Existing rows with no matching new row are preserved": after
\* any runs the dictionary is what they presented, each key as the last run
\* left it, but for rows whose equal has, or as text seems to have, the earlier
\* date.  Nothing else is lost, and nothing that was replaced or withheld is
\* there.  A row of the last run that is not there under its date is there
\* under one that is earlier in the calendar, as text or both.
DictionaryAsPromised ==
    /\ dictionary \subseteq promised
    /\ promised \ redated \subseteq dictionary
    /\ \A r \in Presentable(job) :
         \E t \in dictionary : SameButDate(r, t) /\ ~Precedes(r, t)

\* "Do not silently resurrect that old formula": what a job withholds is not
\* in the dictionary, unless the job itself presents another row for the key.
WithheldStaysOut ==
    WithheldKeys(job) \cap KeysOf(dictionary) \subseteq KeysOf(Presentable(job))

\* Moving dates never makes two formulas meet: a key has one row, unless a run
\* presented two for it.
OneRowPerKey ==
    \A r, t \in dictionary :
      Key(r) = Key(t) /\ r # t => Key(r) \in conflicts

\* Running the same job again on its own output changes nothing.
RerunIsIdle == Exported(dictionary, job) = dictionary
=============================================================================
