------------------------------- MODULE RowGate -------------------------------
(***************************************************************************)
(* From generated DD rows to exported ones: the guardrails one job's rows  *)
(* go through in node_dd_generation and node_report_and_export.  Every     *)
(* guardrail reads and changes the same rows, and the ledger of source     *)
(* writes, which decides about whole objects, is computed three times from *)
(* rows that have changed in between.                                      *)
(*                                                                         *)
(* A column stands for an (entity, column) pair after name mapping, a      *)
(* write for one ledger entry, a row for what one object derives for one   *)
(* column.  Statements of one object are told apart by their text; two     *)
(* writes with the same text count as one.                                 *)
(***************************************************************************)
EXTENDS Naturals, FiniteSets

CONSTANTS
    NumObjects,   \* SQL objects of the job, visited in the order 1..NumObjects
    Columns,      \* (entity, column) pairs
    Names,        \* column names: tables share some of them
    Writes,       \* INSERT, UPDATE, MERGE, ... statements of all objects
    Dates         \* effective start dates

ASSUME GateAssumption == NumObjects \in Nat

Objects == 1..NumObjects

VARIABLES
    source,      \* what parsing found, fixed for the job
    rows,        \* DD rows by <<object, column>>; NoRow where there is none
    stage,       \* the guardrail that runs next
    at,          \* the object its loop has reached
    evidence,    \* completeness.json, by object
    qa,          \* blockers of qa_coverage_report.md
    exported     \* the rows that reach the CSV and Excel

vars == <<source, rows, stage, at, evidence, qa, exported>>

-----------------------------------------------------------------------------
(* The parsed source: statements and their classification. *)

\* A per-row formula, run-status bookkeeping, or anything a formula cannot
\* cover: parse failures, branches, handlers, set-based and cross-row writes.
Kinds == {"formula", "status", "manual"}

SourceType ==
    [name       : [Columns -> Names],
     owner      : [Writes -> Objects],
     kind       : [Writes -> Kinds],
     columns    : [Writes -> SUBSET Columns],
     structural : SUBSET Objects,    \* failed check_structural_info
     inventory  : SUBSET Objects,    \* independent scan disagrees, or anomalies
     generates  : BOOLEAN]           \* requires_dd_generation

WritesOf(o) == {w \in Writes : source.owner[w] = o}

\* Statements of o that assign column c.
Assigning(o, c) == {w \in WritesOf(o) : c \in source.columns[w]}

-----------------------------------------------------------------------------
(* Rows. *)

Slots == Objects \X Columns

\* No text, a bare NULL, 0, 1 or literal seed, an actual formula.
Formulas == {"", "constant", "formula"}

\* Who put an error on a row: formula generation, check_dd_row, the duplicate
\* check, flag_rows_with_uncovered_writes, the completeness gate.
Errors == {"generation", "check", "duplicate", "unlinked", "completeness"}

\* Who left a note: derivation (a synthetic date, something to look at while
\* folding), check_dd_row, flag_rows_with_uncovered_writes.
Notes == {"derivation", "check", "coverage"}

RowType == [formula   : Formulas,
            dependent : BOOLEAN,          \* reads its own column or another one
                                          \* its object writes
            sources   : SUBSET Writes,    \* source_statement_sql
            date      : Dates,
            errors    : SUBSET Errors,
            notes     : SUBSET Notes,
            status    : {"ACTIVE", "PENDING_REVIEW"},
            review    : {"GENERATED", "NEEDS_REVIEW", "UNSUPPORTED"}]

NoRow == [formula |-> "no row"]

Present == {s \in Slots : rows[s] # NoRow}

RowsOf(o) == {s \in Present : s[1] = o}

\* What _derive_column can hand over for column c of object o: a formula,
\* whether grammar, entity paths, folding and compilation raised nothing, whether
\* there is something to advise, and the statements it was folded from.  An
\* empty expression is never valid; only a formula reads columns.
Derived(o, c) ==
    {x \in [formula : Formulas, valid : BOOLEAN, dependent : BOOLEAN, advised : BOOLEAN,
            sources : SUBSET Assigning(o, c), date : Dates] :
        (x.valid => x.formula # "") /\ (x.dependent => x.formula = "formula")}

\* metadata_to_dd_row, and the advisories apply_to adds to the row.
Generated(x) ==
    [formula |-> x.formula, dependent |-> x.dependent, sources |-> x.sources,
     date   |-> x.date,
     errors |-> IF x.valid THEN {} ELSE {"generation"},
     notes  |-> IF x.advised THEN {"derivation"} ELSE {},
     status |-> IF x.valid THEN "ACTIVE" ELSE "PENDING_REVIEW",
     review |-> IF x.valid THEN "GENERATED" ELSE "NEEDS_REVIEW"]

Candidates(o, c) == {Generated(x) : x \in Derived(o, c)}

-----------------------------------------------------------------------------
(* The write / coverage ledger. *)

\* A row that may vouch for a statement of its object.
Vouches(r) == /\ r # NoRow
              /\ r.formula # ""
              /\ r.errors = {}
              /\ r.review = "GENERATED"

\* One of the columns is enough.
MutCovered(w) ==
    /\ source.kind[w] = "formula"
    /\ \E c \in source.columns[w] :
         /\ Vouches(rows[<<source.owner[w], c>>])
         /\ w \in rows[<<source.owner[w], c>>].sources

\* Any valid row of the column will do, whatever it was folded from.
MutCoveredByName(w) ==
    /\ source.kind[w] = "formula"
    /\ source.columns[w] # {}
    /\ \A c \in source.columns[w] : Vouches(rows[<<source.owner[w], c>>])

\* mark_ledger_coverage: a per-row write is covered when a valid row of its
\* object was folded from it for every column it assigns.
Covered(w) ==
    /\ source.kind[w] = "formula"
    /\ source.columns[w] # {}
    /\ \A c \in source.columns[w] :
         /\ Vouches(rows[<<source.owner[w], c>>])
         /\ w \in rows[<<source.owner[w], c>>].sources

\* CoverageLedger.blockers of o's ledger over the rows as they are now.
LedgerBlockers(o) ==
    {<<"inventory", o>> : x \in source.inventory \cap {o}}
      \cup {<<"write", w>> : w \in {v \in WritesOf(o) :
                                      source.kind[v] # "status" /\ ~Covered(v)}}

StructuralBlockers(o) == {<<"structural", o>> : x \in source.structural \cap {o}}

ObjectBlockers(o) == StructuralBlockers(o) \cup LedgerBlockers(o)

RowBlockers(S) == {<<"row", s>> : s \in {t \in S : rows[t].errors # {}}}

-----------------------------------------------------------------------------
(* The nodes of the pipeline. *)

NoEvidence == [ready |-> FALSE, blockers |-> {}, written |-> FALSE]

Init ==
    /\ source \in SourceType
    /\ rows = [s \in Slots |-> NoRow]
    /\ stage = "generate"
    /\ at = 1
    /\ evidence = [o \in Objects |-> NoEvidence]
    /\ qa = {}
    /\ exported = {}

\* generate_dd_rows_for_chains: one row per column the object writes.  The
\* mutation index may see columns the ledger does not, and columns of audit
\* tables get no row.
Generate ==
    /\ stage = "generate"
    /\ source.generates
    /\ rows' \in [Slots -> RowType \cup {NoRow}]
    /\ \A s \in Slots : rows'[s] \in {NoRow} \cup Candidates(s[1], s[2])
    /\ stage' = "check"
    /\ UNCHANGED <<source, at, evidence, qa, exported>>

\* node_skip_dd_generation.
SkipGeneration ==
    /\ stage = "generate"
    /\ ~source.generates
    /\ stage' = "report"
    /\ UNCHANGED <<source, rows, at, evidence, qa, exported>>

\* check_dd_row found nothing.
\* Found something in an expression (a row without one is not checked): the
\* row is demoted.
\* Found something, and every message holds the word "confidence" or
\* "advisory", which a quoted column name is enough for: nothing is demoted.
Unchanged(r) == r
Failed(r) == [r EXCEPT !.errors = @ \cup {"check"},
                       !.status = "PENDING_REVIEW", !.review = "NEEDS_REVIEW"]
Waved(r)  == [r EXCEPT !.errors = @ \cup {"check"}, !.notes = @ \cup {"check"}]

Checked(r) == IF r = NoRow \/ r.formula = ""
                 THEN {r} ELSE {Unchanged(r), Failed(r), Waved(r)}

CheckRows ==
    /\ stage = "check"
    /\ rows' \in [Slots -> UNION {Checked(rows[s]) : s \in Slots}]
    /\ \A s \in Slots : rows'[s] \in Checked(rows[s])
    /\ stage' = "duplicates"
    /\ UNCHANGED <<source, at, evidence, qa, exported>>

\* flag_duplicate_dd_rows; review_state is left as it is.
Flagged(r) == [r EXCEPT !.errors = @ \cup {"duplicate"}, !.status = "PENDING_REVIEW"]

\* Another row for the same column and date.
Duplicated(s) == \E t \in Present \ {s} : t[2] = s[2] /\ rows[t].date = rows[s].date

FlagDuplicates ==
    /\ stage = "duplicates"
    /\ rows' = [s \in Slots |->
                  IF rows[s] # NoRow /\ Duplicated(s) THEN Flagged(rows[s]) ELSE rows[s]]
    /\ stage' = "writes"
    /\ at' = 1
    /\ UNCHANGED <<source, evidence, qa, exported>>

\* The columns of that name which statements of object o assign.
Namesakes(o, c) ==
    {d \in Columns : source.name[d] = source.name[c] /\ Assigning(o, d) # {}}

\* What row s is taken to be written by: statements that assign its column or,
\* if there is none, those of the only column of that name the object assigns.
Targets(s) ==
    IF Assigning(s[1], s[2]) # {} THEN {s[2]}
    ELSE {c \in Namesakes(s[1], s[2]) : Namesakes(s[1], s[2]) = {c}}

\* Why flag_rows_with_uncovered_writes has something to say about row s: no
\* statement of the object can be linked to it, one that is needs more than
\* a formula, or the formula reads a column the object writes.
Questionable(s) ==
    \/ Targets(s) = {}
    \/ \E c \in Targets(s), w \in Writes :
          w \in Assigning(s[1], c) /\ source.kind[w] # "formula"
    \/ rows[s].dependent

\* A row with a formula keeps it and gets a note; one without is withheld.
Advised(r)  == [r EXCEPT !.notes = @ \cup {"coverage"}]
Withheld(r) == [r EXCEPT !.errors = @ \cup {"unlinked"}, !.review = "UNSUPPORTED",
                         !.status = "PENDING_REVIEW", !.formula = ""]

\* A row that has errors is marked as withheld and keeps what it shows.
MutFlagWrites ==
    /\ stage = "writes"
    /\ at \in Objects
    /\ rows' = [s \in Slots |->
                  IF s \notin RowsOf(at) \/ ~Questionable(s) THEN rows[s]
                  ELSE IF rows[s].errors = {} THEN Advised(rows[s])
                  ELSE [Withheld(rows[s]) EXCEPT !.formula = rows[s].formula]]
    /\ at' = at + 1
    /\ UNCHANGED <<source, stage, evidence, qa, exported>>

FlagWrites ==
    /\ stage = "writes"
    /\ at \in Objects
    /\ rows' = [s \in Slots |->
                  IF s \notin RowsOf(at) \/ ~Questionable(s) THEN rows[s]
                  ELSE IF rows[s].formula # "" THEN Advised(rows[s])
                  ELSE Withheld(rows[s])]
    /\ at' = at + 1
    /\ UNCHANGED <<source, stage, evidence, qa, exported>>

WritesFlagged ==
    /\ stage = "writes"
    /\ at \notin Objects
    /\ stage' = "completeness"
    /\ at' = 1
    /\ UNCHANGED <<source, rows, evidence, qa, exported>>

\* enforce_completeness, one object at a time: what is unresolved about an
\* object withholds ACTIVE from all its rows.
Gated(r) == [r EXCEPT !.status = "PENDING_REVIEW",
                      !.review = IF @ = "UNSUPPORTED" THEN @ ELSE "NEEDS_REVIEW",
                      !.errors = @ \cup {"completeness"}]

\* Readiness without the errors of the object's rows.
MutEnforce ==
    /\ stage = "completeness"
    /\ at \in Objects
    /\ rows' = [s \in Slots |->
                  IF s \in RowsOf(at) /\ ObjectBlockers(at) # {} THEN Gated(rows[s])
                                                                 ELSE rows[s]]
    /\ evidence' = [evidence EXCEPT ![at] =
                      [ready    |-> ObjectBlockers(at) = {},
                       blockers |-> ObjectBlockers(at) \cup RowBlockers(RowsOf(at)),
                       written  |-> TRUE]]
    /\ at' = at + 1
    /\ UNCHANGED <<source, stage, qa, exported>>

Enforce ==
    /\ stage = "completeness"
    /\ at \in Objects
    /\ rows' = [s \in Slots |->
                  IF s \in RowsOf(at) /\ ObjectBlockers(at) # {} THEN Gated(rows[s])
                                                                 ELSE rows[s]]
    /\ evidence' = [evidence EXCEPT ![at] =
                      [ready    |-> /\ ObjectBlockers(at) = {}
                                    /\ \A s \in RowsOf(at) : rows[s].errors = {},
                       blockers |-> ObjectBlockers(at) \cup RowBlockers(RowsOf(at)),
                       written  |-> TRUE]]
    /\ at' = at + 1
    /\ UNCHANGED <<source, stage, qa, exported>>

Enforced ==
    /\ stage = "completeness"
    /\ at \notin Objects
    /\ stage' = "report"
    /\ UNCHANGED <<source, rows, at, evidence, qa, exported>>

\* node_report_and_export: a third ledger, over the rows as the gate left
\* them, and the rows is_exportable_row lets through.
ReviewBlockers == {<<"review", s>> : s \in {t \in Present : rows[t].review # "GENERATED"}}
NoteBlockers   == {<<"note", s>> : s \in {t \in Present : rows[t].notes # {}}}

Exportable(s) == /\ rows[s].review # "UNSUPPORTED"
                 /\ rows[s].formula = "formula"

\* Structural failures are left to the earlier nodes.
MutReport ==
    /\ stage = "report"
    /\ qa' = (UNION {LedgerBlockers(o) : o \in Objects})
               \cup RowBlockers(Present) \cup ReviewBlockers \cup NoteBlockers
    /\ exported' = {s \in Present : Exportable(s)}
    /\ stage' = "done"
    /\ UNCHANGED <<source, rows, at, evidence>>

Report ==
    /\ stage = "report"
    /\ qa' = (UNION {ObjectBlockers(o) : o \in Objects})
               \cup RowBlockers(Present) \cup ReviewBlockers \cup NoteBlockers
    /\ exported' = {s \in Present : Exportable(s)}
    /\ stage' = "done"
    /\ UNCHANGED <<source, rows, at, evidence>>

Next ==
    \/ Generate \/ SkipGeneration
    \/ CheckRows
    \/ FlagDuplicates
    \/ FlagWrites \/ WritesFlagged
    \/ Enforce \/ Enforced
    \/ Report

Spec == Init /\ [][Next]_vars

-----------------------------------------------------------------------------
(* Properties. *)

TypeOK ==
    /\ source \in SourceType
    /\ rows \in [Slots -> RowType \cup {NoRow}]
    /\ stage \in {"generate", "check", "duplicates", "writes", "completeness",
                  "report", "done"}
    /\ at \in 1..(NumObjects + 1)
    /\ evidence \in [Objects -> [ready : BOOLEAN, written : BOOLEAN,
                                 blockers : SUBSET UNION {
                                    {"inventory", "structural"} \X Objects,
                                    {"write"} \X Writes, {"row"} \X Slots}]]
    /\ qa \subseteq UNION {{"inventory", "structural"} \X Objects,
                           {"write"} \X Writes, {"row", "review", "note"} \X Slots}
    /\ exported \subseteq Slots

\* The README's promise that unresolved source coverage is gated before a row
\* is ACTIVE: past the gate, an ACTIVE row belongs to an object that passed the
\* structural check and the inventory, and every statement of that object that
\* is not bookkeeping has, for each column it assigns, an ACTIVE row without
\* errors that was folded from it.
ActiveNeedsWholeObject ==
    stage \in {"report", "done"} =>
      \A s \in Present : rows[s].status = "ACTIVE" =>
        /\ s[1] \notin source.structural \cup source.inventory
        /\ \A w \in WritesOf(s[1]) : source.kind[w] # "status" =>
             /\ source.columns[w] # {}
             /\ \A c \in source.columns[w] :
                  LET r == rows[<<s[1], c>>]
                  IN  /\ r # NoRow
                      /\ r.status = "ACTIVE" /\ r.errors = {} /\ w \in r.sources

\* completeness.json and the QA report agree although the ledger is computed
\* from different rows for each: an object is recorded ready exactly when the
\* QA report has nothing against it but notes.
ReadinessAgrees ==
    stage = "done" /\ source.generates =>
      \A o \in Objects :
        evidence[o].ready <=>
          /\ <<"structural", o>> \notin qa /\ <<"inventory", o>> \notin qa
          /\ \A w \in WritesOf(o) : <<"write", w>> \notin qa
          /\ \A s \in RowsOf(o) : <<"row", s>> \notin qa /\ <<"review", s>> \notin qa

\* No blocker is lost between the gate and the report.
BlockersReachReport ==
    stage = "done" => \A o \in Objects : evidence[o].blockers \subseteq qa

\* Nothing is left out silently: each column of a per-row write is exported
\* from a row folded from that write, or has a row that is a bare constant, or
\* the QA report names the write.
EveryWriteSurfaces ==
    stage = "done" =>
      \A w \in Writes : source.kind[w] = "formula" /\ <<"write", w>> \notin qa =>
        \A c \in source.columns[w] :
          LET s == <<source.owner[w], c>>
          IN  /\ rows[s] # NoRow
              /\ w \in rows[s].sources
              /\ s \in exported \/ rows[s].formula = "constant"

\* No guardrail undoes another one's verdict: errors stay, a pending row stays
\* pending, a row that is withheld has no formula and stays withheld without one.
VerdictsStand ==
    [][\A s \in Present :
         /\ rows[s].errors \subseteq rows'[s].errors
         /\ rows[s].status = "PENDING_REVIEW" => rows'[s].status = "PENDING_REVIEW"
         /\ rows'[s].review = "UNSUPPORTED" => rows'[s].formula = ""
         /\ rows[s].review = "UNSUPPORTED" => rows'[s].review = "UNSUPPORTED"
      ]_rows
=============================================================================
