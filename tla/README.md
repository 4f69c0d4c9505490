# SQL-to-DD report generator: a TLA+ verification project

The program (`src/app`) takes SQL procedures, derives from them one *DD row*
per entity column (an expression in a small grammar), lets reviewers approve or
edit the rows, and writes a report and CSV/Excel exports. A FastAPI process
runs the jobs in background threads, a Streamlit process submits them, polls
them and records the reviewers' decisions, and both share one SQLite file and
one output directory.

Paths below are relative to `src/app/` unless they start with `src/`.

## 1. Inventory

| Component | State | Operations | Interacts with |
|---|---|---|---|
| Job store `utils/db.py` | tables `jobs`, `dd_rows`, `review_decisions`, `audit_log` | `record_job`, `update_job_status`, `set_job_stage`, `reconcile_orphaned_jobs`, `record_dd_rows_bulk`, `record_review_decision`, reads | every other part; one connection and one commit per call |
| Job API `api/routes.py`, `main.py` | background tasks, request threads | `submit_job`, `_execute_job`, `get_job_status`, `/report`, `/csv`, `/excel`, start-up `lifespan` | job store, pipeline, output directory |
| Pipeline `orchestration/pipeline.py` | the LangGraph state of one job | eight nodes with one conditional edge | all derivation components; writes stages, rows, files, COMPLETED |
| Streamlit UI `review/streamlit_app.py`, `local_api.py`, `review_store.py` | session state, the API child process | submit, `_wait_for_job`, fetch report, download, approve / reject / edit / override, `ensure_local_api` | API over HTTP, SQLite directly |
| Row gate `guardrails/`, `derivation/dd_postprocess.py`, `parsing/coverage_ledger.py` | status, review state and errors of each DD row; the ledger of source writes | `check_dd_row`, `flag_duplicate_dd_rows`, `flag_rows_with_uncovered_writes`, `enforce_completeness`, `build_coverage_ledger` | called by the pipeline before rows are persisted |
| DD export `report/dd_export.py`, `excel_export.py` | existing and new CSV rows | order rows, dedupe equivalent rows, merge into an existing DD | pipeline, download endpoints |
| Lineage `lineage/dependency_graph.py` | table dependency graph | build, derive chains | pipeline |
| Column pool `derivation/v2/pipeline.py` | worker threads, their contexts, futures | one job per column, in parallel | all of the derivation |
| SQL text `derivation/v2/sql_text.py` | caches of scans | find statements, IF arms, handlers, resets, joins, select lists, CTEs | lineage and mutation folding |
| Mutation folding `derivation/v2/phase1_lineage.py`, `phase2_mutation_folder.py` | lineage of temps, list of passes | trace temps, collect the writes of one column in source order | formula folding |
| Formula folding `derivation/v2/phase3_ast_generator.py` | the tree under construction, clamps put off, skip notes | parse SQL expressions, fold passes into one tree | expression trees |
| Expression trees `derivation/v2/ast_optimize.py`, `ast_compiler.py` | the tree | 35 optimizer passes, length budget, pruning, printing | grammar |
| Derivation helpers `derivation/*` | metadata of columns | effective dates, period pruning, types | LLM client, grammar |
| LLM client `derivation/llm_client.py` | token usage, disabled flag | `complete` with retries, timeout and abandonment | column workers |
| SQL parsing `parsing/*` | objects, chunks, structural info | split, parse, write inventory, chunking | pipeline, ledger |
| Grammar `grammar/*` | the DD expression grammar | validate, entity paths | row gate, AST compiler |
| Reports `report/*` | markdown and sheets | generate, explain, narrate | pipeline |
| Batch `batch.py` | results per file | `run_file`, `main` | pipeline, job store |
| RAG `rag/*` | Chroma store | ingest, query | optional, off by default |
| Utilities `utils/*` | - | aliases, encoding, entity names | everywhere |

Hard behaviours: background tasks, request threads, two processes and a
restart share one status column; a crash between any two transactions; status
answers read in several transactions; downloads that write back what they read;
guardrails that run one after the other over the same rows and upgrade or
demote them; exports merged into files of an earlier run; a worker pool with a
retrying, timing-out LLM client; a fold of sequential UPDATE statements into one
expression. `PROJECT.json` lists them as hazards, each at its line.

What makes each part correct:

* **Jobs** - a COMPLETED job has its artifacts; no row is unfinished without a
  thread; every accepted job settles; only orphans are failed at start-up;
  numbers follow creation; a published report is never withdrawn.
* **UI** - an answer is consistent although it is read in pieces; polling stops
  only on a finished job and always ends.
* **Review** - the columns and `row_json` of a row agree; the last decision is
  what the row and the export show; every effect has a recorded decision.
* **Row gate** - no row whose write is uncovered, unsafe or duplicated leaves
  the gate ACTIVE and ready; every written column is explained or blocked.
* **Export** - merging loses no row and keeps one row per key and date range.
* **Lineage** - a chain comes after those it reads from, cycles are flagged.
* **Derivation** - the folded expression computes what the procedure computes:
  the scanners find every write and its position, temps are traced to what they
  hold, the parser reads SQL by SQL's precedence, the fold keeps the order of the
  statements, and no later pass changes a value.
* **LLM client** - a call ends in bounded time, attempts are bounded, tokens
  are counted once.

## 2. Modules

Read them in this order; each is parameterised by constants, and `MC*.tla`
modules give TLC small values for them.

| Module | Models | Composes |
|---|---|---|
| `JobStore` | the `jobs` row and each SQL statement on it (`utils/db.py`) | - |
| `JobContract` | *abstract*: what the job board promises its readers | - |
| `JobRunner` | submission, background task, pipeline nodes that write, start-up, crashes | `JobStore`; implements `JobContract` |
| `ApiService` | status polls of the UI, reviewed downloads, reviewers, fairness | `JobRunner` |
| `ReviewStore` | tabs, page runs, decisions, the reviewed CSV | - |
| `ReviewPages` | the same with a history of overlapping exports | `ReviewStore` |
| `RowGate` | generation result, guardrails, ledger, completeness gate, report | - |
| `DDMerge` | presentable rows merged into earlier dictionaries, run after run | - |
| `ColumnLoop` | *abstract*: one row per column, each from its own statements | - |
| `ColumnPool` | the thread pool that derives columns, and its threads' contexts | implements `ColumnLoop` |
| `FormulaFold` | the fold of one column's UPDATEs on meanings, next to their execution | - |
| `ExprRules` | a node: its meaning, and what each value-keeping pass does at it | - |
| `ExprTree` | expression trees as a whole and their value on a row | `ExprRules` |
| `AstOptimize`, `AstCompile` | the optimizer's passes, the budget, pruning, what printing changes | `ExprTree` |
| `UpdateFold` | the fold of UPDATEs and procedural IFs on trees | `AstCompile` |
| `FormulaRewrite` | one column from its statements to its printed formula, pass by pass | `UpdateFold` |
| `SqlText` | scanning text as tokens: depth, keywords, CASE bodies, splits | - |
| `ExprParse` | `parse_sql_expression_to_ast`, every shape in the order it is tried | `ExprTree`, `SqlText` |
| `PhraseReader` | the parser reading one phrase | `ExprParse` |
| `SqlGrammar` | *reference*: phrases with the tree SQL gives them | `ExprTree` |
| `SqlScan` | the scanners of statements, arms, handlers, resets, select lists, CTEs | `SqlText` |
| `TempLineage` | where the columns of temps and CTEs come from | `SqlScan` |
| `MutationFold` | from a procedure's text to the passes over one column | `TempLineage`, `ExprParse`, `UpdateFold` |
| `SqlProgram` | *reference*: procedures with what they do to a row | `ExprTree` |
| `ProgramFold` | the two next to each other | `MutationFold`, `SqlProgram` |
| `PassEquations`, `PassSamples` | *for the proofs*: the passes as functions that satisfy an equation, and trees on which the operators do | `ExprRules`; `AstOptimize` |
| `*Proofs` | the theorems about the module they are named after | |

The data flow of the derivation is `SqlScan` -> `TempLineage` -> `MutationFold` ->
`ExprParse` -> `UpdateFold` -> `AstOptimize` -> `AstCompile`; `ColumnPool` runs it
for every column, `RowGate` judges what comes out.

Operators named `Mut...` are deliberately wrong forms of the definition that
follows them; no specification uses them. Replacing the definition by one shows
that a property can fail (`PROJECT.json`, `mutants`).

### JobStore, JobRunner

`table[j]` is the row of job `j`; a row of status `absent` is not there.
`report` and `excel` say whether a path is stored, `error` where the message
came from. `rows[j]` counts the job's DD rows, `disk[j]` holds its artifacts.
`submit[j]` and `task[j]` are the program points of the two threads: the request
thread in `submit_job` (`SubmitNumber` reads `MAX(run_number)`, `SubmitInsert` is
`record_job`, `SubmitQueue` is `add_task` and the response) and the background
task in `_execute_job` (`MarkRunning`, `MarkStarting`, one `RunNode` per node with
no durable effect but its stage, `EnterGenerate` ... `CompleteNode` for those
that have one, `WrapUp`, `CloseTask`). A step is one transaction or one group of
files, so the threads of several jobs interleave between any two. `Raise` is an
exception in a node, `TaskDies` a database error where no handler is, `Crash`
kills the process, `ApiStart` and `ExtraApiStart` run `lifespan`, the second one
beside a process that is alive. `seen` and `earlier` are history.

### ApiService

Adds `poll[j]`, the UI that waits for job `j` and reads the three parts of an
answer in three steps, and `download[h]`, a request thread that reads the
status, exports, and writes the status back. Everything of `JobRunner` goes on
around them. `ReviewerDecides` is the effect of a review on the counts. `restored`
is history: the jobs whose row a write-back took from a final status back to an
unfinished one, until they show a final status again.

### ReviewStore

`dd[r]` holds both copies of a row's fields, the columns and `row_json`; `log` is
`review_decisions`. A session runs the page's script from the top for every
click: `BeginRun` (rows read, CSV asked for), the answer (`Answer`, `AskFails`,
`AskTimesOut`, then `FetchLocally`), `Decide` for the click, `FinishRun`;
`Interrupt` is a rerun by another click. `writer[t]` is a thread that exports
(`ReadRows`, `OpenFile` truncates, `CloseFile`), an API thread or the session
itself. A file's content carries the length of the log when its rows were read,
so a sheet's age is a number. A page fetched while another export has the file open
may hold parts of two contents (`Mixed`). `ReviewPages` adds `disturbed[s]`: another thread
exported while this tab waited for its own export.

### RowGate

`source` is what parsing found: the statements (ledger entries) of each object,
their class and the columns they assign, and which objects failed the
structural check or the inventory, and the name of each column, since tables share
names (`Namesakes`, `Targets`). `rows` is a function from (object, column); of a
formula it keeps whether there is one and whether it is a constant.
`Generate` chooses any row that generation can give, then `CheckRows`,
`FlagDuplicates`, `FlagWrites`, `Enforce` (object by object, `at`) and `Report` run
in the order of the code, each with all it changes. The ledger is recomputed
from the current rows wherever the code does (`Covered`, `LedgerBlockers`).

### DDMerge

One action per job: `ExportAlone` and `ExportInto` an existing dictionary. A row is
a column, a content (all that `_row_signature` compares) and a day. `Text[d]`
is the rank of day `d` as `dd-mm-YYYY` text, which is what the code compares,
`Calendar[d]` its rank in the calendar. `promised` and `redated` are history: the
rows the runs presented, each key as the last run left it, and those of them
that may lose their date to an equal row.

### ColumnLoop, ColumnPool

`plan[j]` is the shape of column `j`: whether it has statements to fold, which
parts skip one, where its derivation raises. `Take` is a pool thread fetching a
job, `RunJob` is `_run_column_job`, `Collect` is the loop over the futures.
`context[t]` is the thread's `_FOLD_SKIP_NOTES`.

### FormulaFold

`tree` is `ast` of `build_ast_from_mutations`, `selfChain` and `litChain` are the
two chains with their bases. A step folds one statement by the first rule that
applies, in the order of the code: `Skip`, `Reset` (no WHERE), `CollapseSelf`
(class A and B), `CollapseLiteral`, `Narrow`, `Independent`, `Layer` (the general
rule). A guard is the set of its conjuncts, which test another column
(`Preds`) or compare the column itself with a value; `ISEMPTY` is the comparison
with `Null`. Of a tree the model keeps what the rules look at (kind, depth,
whether THEN is the literal NULL, the condition's conjuncts) and its value on
every row. `run` is the column after executing the same statements, `matched` the
rows they matched. `faithful` says that every rule so far had what it needs to be
exact: reads replaced by the tree, flat chains over the bare column, narrowing
guards that do not read the column. The module is what the theorems are about;
`UpdateFold` has the same rules on trees, for the passes that follow.

### ExprRules, ExprTree, AstOptimize, AstCompile, UpdateFold, FormulaRewrite

A node is the code's dictionary: a kind, a label, a number and children. `Value`
is its meaning on a row, with SQL's NULL (`NullValue`, a constant that is no
number). `AstOptimize` has one operator per function of the optimizer,
`OptimizePasses` their order. For the passes the theorems are about, `ExprRules` says
what the function does at one node, its recursive calls being operator parameters
(`DistributeAt(Pass(_), Hoist(_), n)`); `AstOptimize` ties them to the operator itself
(`Distribute(n) == DistributeAt(Distribute, Hoist, n)`). `UpdateFold` builds the
tree (`FoldUpdate`, with increments, caps, floors and the clamps that are put off,
`FoldBranches` for procedural IFs) and has the reference, `Executed`. In
`FormulaRewrite` every statement and every pass is a step, in the order of
`build_ast_from_mutations`: fold, clamps, order of the arms, optimize, budget,
prune, optimize, budget, then the compiler's own optimization and printing. An
arm of a procedural IF is a call of the same function, so `caller` keeps the fold
that waits. Printed text is modelled by the tree it denotes, its length by the
number of nodes.

### SqlText, ExprParse, PhraseReader, SqlGrammar

A text is a sequence of tokens, a qualified column three of them. The parser is
the code's list of shapes, tried in its order on text cut at keywords. Names that
end in a keyword are a constant (`Endings`), because the code looks for keywords
inside names. `SqlGrammar` builds the phrase and its tree together, from
precedence levels, and never looks at the parser.

### SqlScan, TempLineage, MutationFold, SqlProgram, ProgramFold

`program` is the text of a procedure and its effect; `source` what the scanners
find, by position; `lineage` where the columns of its temps come from, filled by
`TraceCreate`, `TraceSelectInto`, `TraceInsert`, `TraceCte`, `TraceUpdates` and
`TraceUpstream`; `passes` the writes of column `Target` of table `Entity` that
`CollectUpdates`, `CollectInserts`, `CollectSelectIntos` and `CollectMerges` find,
sorted, cut at resets and pruned by `Finish`; `updates` what `HandOver` gives to
the fold, with the texts parsed and the IF arms grouped. A step is one scan or
phase of the code. `SqlProgram` gives each statement its text and its effect on a
row of the table, its partner and the temps filled from them.

## 3. Runs and bounds

| Run | Question | Instance |
|---|---|---|
| `runner_safety` | Do status, artifacts and numbers agree whatever fails or restarts? | 2 jobs, 1 row, 1 crash, 1 extra start, 1 database error |
| `service_board` | Do answers, downloads that write back, and the UI keep to the contract; does every unfinished row have a thread; does a job settle, does its UI learn how? | 1 job, 1 download thread, 1 crash, 1 extra start |
| `review_tabs` | Do row, JSON and log agree; is a row decided once; is a sheet ever wrong; what may a page offer? | 1 row, 2 tabs, 1 API thread, timeouts |
| `gate_jobs` | Does a procedure's worst statement decide about all its rows, in every report? | 1 object, 2 statements, 2 columns; or 2 objects, 1 statement, 1 column, 2 dates; the columns with one name or two |
| `merge_runs` | Is a dictionary what its runs presented, stable, without collisions, and where is a row lost? | 3 rows per run, 3 dates, 2 contents, unbounded runs |
| `pool_rows` | Does the pool return what a loop would? | 3 columns of every shape, 2 threads |
| `fold_exact` | Is the folded meaning what the statements do? | 3 statements, 2 values, 2 predicates, 12 guards |
| `formula_rewrite` | Is the *printed* formula what the statements do, and which pass changes a value? | 2,120 columns of up to 3 statements, 64 rows, 2 length limits |
| `parse_phrases` | Does the parser read SQL by SQL's precedence? | 2,381 phrases |
| `parse_case_end` | (violated) Does a CASE end at its END? | phrases with a column named `monthend` |
| `program_fold` | Are the passes found in a text what the procedure does? | 3,909 procedures, 72 rows |
| `program_else` | (violated) Does an ELSE arm's UPDATE stay guarded? | procedures whose IF arm leaves the column alone |

Why these are enough. *Jobs*: a conflict on the status column needs two writers
of one row (task and start-up, task and download) or two submissions, and there
are two of each; a second crash or start meets the same states as the first,
since reconciliation leaves no row unfinished. One DD row already distinguishes
no rows, a pending one and a decided one. *Review*: a decision concerns one row
and its conflicts two tabs; that a page covers all rows is the length of the log
when they were read, one number for any number of rows. *Gate*: the object is the unit of the gate, the column the unit of
duplication: two statements over two columns give every way of covering, and
two objects over one column every way of duplicating. *Merge*: 15-01, 01-03 and
20-03 are ordered differently by day and by text; the dictionary itself is not
bounded, and with one column and two contents its states are finite. *Pool*: to
inherit a note a thread needs two columns, to do so out of order two threads
need three. *Fold*: a chain or a narrowing needs two statements and a third to
meet what they left. The depth limit of values is reached in the third, that of
guards would be in the fourth, which only the theorems cover. What the proofs
show holds for all values. *Rewrite*: the passes look at two arms and what they
share, so two and three statements with equal, contrary and overlapping guards
make each of them fire; rows over NULL, -1, 0 and 1 distinguish all values they
write; the limit 12 makes the budget cut, 250 does not. *Phrases*: a wrong cut
needs one construct inside another, and every pair is there, conditions three
deep for NOT, AND and OR. *Programs*: a position can only be wrong relative to a
neighbour, so all pairs of writes, a write before and after (and between two
around) every IF and TRY, resets between writes, and a temp with up to two
UPDATEs of its own; 72 rows are all values of the column, flag, parameter,
partner and failure. `MCMutationFold` leaves out the procedures for which the
code is known to differ, they are the disagreements of section 4. The gate's two shapes of a job are written in
`MCRowGate`; together in one job they would be too many states.

Deadlock is not checked where a run ends by itself (jobs done and bounds used
up, gate and pool finished). All bounds are the constants named `Max...`, guards
of the actions they limit.

**Fairness** (`ApiService!FairSpec`, `ColumnPool!FairSpec`). A thread that can take
its next step takes it: threads are scheduled by the operating system, every node
and derivation terminates, SQLite's lock waits are bounded by 30 s. The UI's loop
goes on while its page is open, and a request is served while the API is up.
Nothing makes requests arrive, nodes raise, or the process die or come back; the
liveness properties of the service are therefore about runs without reviewed
downloads (`NoDownloads`: one may write a stale status over the outcome).
`UiLearnsOutcome` is about those in which, besides, the process stays up from some
point on and no second API starts beside it (its FAILED is undone when the task
goes on to COMPLETED), and its liveness half about a UI that does not give up.

## 4. What the runs show

* *Jobs.* COMPLETED implies report, sheets and rows on disk, at every moment and
  after any crash (`CompletedMeansArtifacts`); an unfinished row has a thread as
  long as the process lives, unless a database error hit a spot without handler or
  a download wrote an unfinished status back over a final one
  (`UnfinishedHasOwner`); a start-up fails only jobs without a task unless it
  happens beside a running process (`RestartFailsOrphans`). `BoardKept` is the
  refinement: whatever interleaves, including stale write-backs, the status shown
  is one that the job has been through, and COMPLETED comes after RUNNING together
  with the report.
* *UI.* Three reads in three transactions still give a consistent answer when the
  first says COMPLETED (`CompletedAnswerIsFinal`); undisturbed jobs settle
  (`SettlesUndisturbed`), and a UI that keeps waiting stops, at a status that stays
  true: FAILED is still FAILED, COMPLETED has its artifacts (`UiLearnsOutcome`).
* *Review.* Columns, `row_json` and log agree and nobody decides twice. What a page
  offers is whole and current unless another export overlapped; then it may be
  old, but never wrong (`SheetsShowDecisions`).
* *Gate.* ACTIVE needs the whole procedure; every unexplained statement is in the
  QA report; the three ledgers agree; errors and demotions stand, and a withheld row
  stays withheld and empty (`VerdictsStand`).
* *Merge.* The dictionary is what its runs presented, each key as the last run left
  it, but for rows that are equal to another whose date is, or as text seems, the
  earlier one (`DictionaryAsPromised`). A rerun into its own output changes nothing,
  no two rows share a key, a withheld row does not come back with an old formula.
* *Pool.* The pool implements the loop, except for the notes a column with
  nothing to fold inherits, and those come from one earlier column.
* *Fold.* The formula is exactly what executing the statements leaves while none
  reads the column (`PlainPassesExact`), and also with reads as long as nothing was
  approximated (`FaithfulFoldsExact`).
* *Rewrite.* From the statements to the printed text, columns that are assigned
  (`AssignmentsAreExact`) and columns that are summed, capped or floored
  (`TotalsAreExact`) come out exact, through 35 passes run three times. Twelve
  passes, pruning and the compiler never change a value (`PassesKeepValue`); what
  is printed was in normal form before (`CompilerPrintsWhatItGets`), has no
  conditional inside a comparison (`AlwaysPrints`), and keeps the limit that was
  enforced two optimizations earlier (`Fits`). The cache keyed by `id()` of trees
  that are freed does no harm (`NothingToFlatten`).
* *Parser.* Every phrase without a BETWEEN or IN buried in an operand gets its
  tree (`ReadsAsSql`); the others get theirs or are refused (`NeverMisread`).
* *Programs.* Statements found by scans that know nothing of each other are put in
  the right order, guard, join and arm (`PassesAreTheProgram`); a column only
  handlers write has the handler's value (`HandlerAlone`); a temp's lineage,
  checkpoints of its UPDATEs included, is what the temp holds
  (`TempsKnowTheirHistory`).

### Disagreements found

With a run, described under `findings`: `parse_case_end` (a CASE ends inside a name
that ends in END) and `program_else` (an ELSE arm alone loses its guard).

Met while modelling, without a run of their own. Those marked (P) were reproduced
by calling the functions of the repository.

*Jobs, review, gate, export*

* `utils/db.py:152` - reconciliation fails *every* PENDING/RUNNING row, not only
  those "from a previous process" (`db.py:133`): a second API process, which
  `local_api.py:77` starts when `/health` takes more than 1.5 s, fails live jobs.
  `RestartFailsOrphans` excludes such starts.
* `utils/db.py:167` - overlapping submissions read the same `MAX(run_number)`.
* `api/routes.py:161` - a download of a running job may put PENDING back over
  RUNNING, or RUNNING over COMPLETED. Written after the task has closed it stays: a
  finished job is shown unfinished and no thread works on it until the next start-up
  fails it. `UnfinishedHasOwner` excepts these rows (`restored`).
* `orchestration/pipeline.py:238` - whether a failed check demotes a row is
  decided by the words "confidence" and "advisory" in its message, which quotes
  the formula: names that contain them wave the row through (`RowGate!Waved`).
* `guardrails/dd_row_coverage.py:48` and `completeness.py:39,55` - advisories
  and errors of one row gate all rows of its object, wider than
  `completeness.py:23` and `docs/LARGE_SQL_IMPLEMENTATION.md:69` say.
* `api/routes.py:158` - all reviewed downloads of a job write one file and send
  what it then holds: with two tabs a page can offer a CSV without a decision
  recorded before it was built (`src/README.md:109` promises the latest values).
* `report/dd_export.py:321` - merging also makes one of equal rows of columns
  that the job does not touch.
* `report/dd_export.py:261` - which of equal rows is the earliest is decided on the
  dates' text, so 01-03 comes before 15-01. Where text and calendar disagree the
  later date is kept: a new row of 15-01 vanishes into an old one of 01-03, although
  "new rows always win" and the others are "preserved unchanged" (the docstring at
  line 315, `src/README.md:406`). `DictionaryAsPromised` leaves out the dates of such
  rows only (`redated`).
* `derivation/v2/phase3_ast_generator.py:24` - skip notes are read from the thread's
  context and not cleared: a row with nothing to fold tells of another column, and
  of which one depends on scheduling (`NotesAreInherited` says how far it goes).

*Fold and optimizer*

* `phase3_ast_generator.py:759` - a statement that does not read the column goes
  below those that do, although "later guarded passes layer on top".
* `phase3_ast_generator.py:849` - narrowing keeps shared conjuncts as they were
  first tested, also when the first statement made them false.
* `phase3_ast_generator.py:697` - an OR of raw guards is called exact; over a base
  other than the bare column the guards test a stale value.
* `phase3_ast_generator.py:957,969,1141` - after a literal reset, an IF with THEN
  NULL, or two or three nested IFs, reads of the column read the input column.
* `phase3_ast_generator.py:1822` - a statement left out inside a procedural IF
  leaves no note (line 281 writes one elsewhere).
* `ast_optimize.py:1546,1574` - arms merged from several UPDATEs carry no position
  and are sorted behind the others: `SET S=0 WHERE A<0; SET S=1 WHERE A<0; SET S=1
  WHERE A=1` (P). Equal values are therefore outside `Assignments`.
* `ast_optimize.py` - a NULL that is assigned is taken for a missing ELSE: `SET S =
  NULL` after the same guard is lost (P). A floor that is put off moves over later
  assignments (P). Shared parts of a tree are replaced by the column, which holds
  the value after the update (P). `_factor_or_tree` stops after 32 levels.

*Parser* (`phase3_ast_generator.py`, `sql_text.py`)

* Arithmetic in the SELECT list of a scalar subquery is lost without a message (P):
  `(SELECT SUM(b)/2 FROM u)` is the sum, `(SELECT COUNT(*)+1 FROM u)` the count;
  `(SELECT b+1 FROM u)` becomes a column named "b + 1", `(SELECT AVG(b) FROM u)` one
  named "AVG(b)", `(SELECT MAX(x) FROM u)` a maximum of the default entity's `x`.
* Bare outer columns inside EXISTS get the inner table's name; a bare column in an
  IN list becomes a string; `GETMINIMUMDATE(...) - 2` is not a date shift (P).
* Refused, with a message (P): IN or BETWEEN inside an operand, `NOT a = 1`, `a NOT
  BETWEEN`, `a % b`, EXISTS followed by another condition, ROW_NUMBER inside
  anything, STRING_AGG with ',' as separator.

*Scanners and mutation folding* (`sql_text.py`, `phase2_mutation_folder.py`)

* `sql_text.py:1466` - a semicolon right after a word is taken for part of it (P).
* `sql_text.py:736` - an arm without BEGIN takes the UPDATE after it along, contrary
  to line 739; nested IFs lose the inner conditions; a lone ELSEIF loses the NOT of
  the arms before it; an ELSEIF's repetition of an UPDATE is pruned even when
  another UPDATE came between (P).
* `sql_text.py:1219` - a MERGE without alias is dropped, contrary to its docstring
  (line 1223); one that begins with WHEN NOT MATCHED is skipped; the condition in
  `WHEN MATCHED AND` and the IF around a MERGE are lost (P).
* `phase2_mutation_folder.py:175` - an INNER JOIN's ON term about the outer table
  alone makes the key go, contrary to the comment there; `effective_condition` (276)
  drops a term whose text occurs anywhere in WHERE (P).
* A column that INSERT ... SELECT computes with a subquery is corrupted
  (`t1.SELECT MAX(t1.c) t1.FROM t1.Other`); the second branch of an INSERT with UNION
  ALL is unguarded; a SELECT INTO that is copied back is folded as a write of its
  own; a WITH after an UPDATE without a boundary becomes part of the UPDATE (P).
* `phase2_mutation_folder.py:1151` - an alias is stripped from an expression that
  has none: `c + k` leaves `c +` (P).

*Lineage of temps* (`phase1_lineage.py`)

* Line 306: a temp filled from a temp is looked up by the root's column name. `SELECT
  A.x AS a, A.y AS x INTO #t1 FROM T A; SELECT B.a AS b INTO #t2 FROM #t1 B` traces
  `#t2.b` to `T.y` (P); renamings in a circle go on until the eighth pass. An UPDATE
  of `#t1` after the copy changes what `#t2` is traced to (P).
* Line 346: a bare column in a temp's UPDATE stays bare in its checkpoint; a CTE
  over a temp has its UPDATEs forgotten; a computed column of a CTE is a reference
  that nothing resolves, and its WHERE is dropped (P).

## 5. Proofs

`tlapm` checks every proof; the theorems a reader should know are under
`theorems` in `PROJECT.json`. They hold for any jobs, handlers, rows, sessions,
objects, statements, columns, dates and thread counts, under the named
assumptions of the modules (`BoundsAssumption`, `ReviewAssumption`,
`GateAssumption`, `MergeAssumption`, `PoolAssumption`, `ValuesAssumption`,
`GuardsAssumption`, `BoundAssumption`), which only give constants
their types and say that sessions are not handlers, that neither is named like the
"none" of the model, and that different dates have different texts and places in
the calendar.

* `JobRunnerProofs`: `RunnerInv = TypeOK /\ FilesInOrder /\ Completion`. That
  COMPLETED implies artifacts is not inductive: one must know which files exist
  at each program point of the task (`FilesInOrder`), and that a completed row's
  task is past its exports or gone (`Completion`).
* `ApiServiceProofs`: the same with downloads. A write-back can restore
  COMPLETED, so `ServiceInv` adds that a download carries a status the job has
  been through (`CarriesHistory`). `AnswersAreFinal`: once a poll has read
  COMPLETED the rows are fixed, so what it reads later belongs to it (`Reading`).
  Second half, the refinement of the board, `BoardKept`. `BoardInv` says of each
  job what it has been through when its threads get somewhere (`Life`), that threads
  live only in a living process (`LivingThreads`), and whom a number that is drawn but
  not yet stored follows (`Numbered`). A stale write-back is a step of the board,
  which may show again what was shown before. `UnfinishedHasOwner` has an inductive
  form of its own: a job is `restored` or its thread is where the row says it is
  (`Accounted`, `Owned`). It is proved for the whole service, downloads included.
* `ReviewStoreProofs`: `ReviewInv = TypeOK /\ RowShowsItsLog /\ Settled /\ FreshClick
  /\ DecidesOnce`. That nobody decides twice needs that decided rows never pend
  again (`Settled`) and that a click in flight is on a row that its session saw
  pending (`FreshClick`).
  `SheetsShowDecisions` follows a sheet from the SELECT to the page: it remembers
  how many decisions it was read after (`SheetOK`). For `PageIsCurrent` and
  `PageIsWhole` a session nobody disturbs is alone with the file (`Alone`), which
  needs that no handler serves two sessions (`ServingInv`).
* `RowGateProofs`: control (`ControlOK`), what holds of rows, evidence and
  exports by stage, the strictness of each guardrail on one row, and that the
  ledger of an object depends only on its own rows. For `ReadinessAgrees` the
  recorded verdict is compared with the rows the gate leaves (`Judged`): a clear
  object is not edited, and blockers of another one stay.
* `DDMergeProofs`: the dictionary is an export of its last job (`IsExport`).
  `Dedupe` keeps, for each row, an equal one of least text (`LeastNumber`, from
  well-foundedness of the naturals), so a second export drops nothing. For
  `DictionaryAsPromised` the invariant is `Promises`: a promised row is missing only
  if it may be redated, and a row without an equal one that could redate it survives
  any export (`FirmRowsStay`).
* `ColumnPoolProofs`: `PoolInv` adds that contexts are older than what a thread
  works on and that futures hold their own column's row; `PoolImplementsLoop` is
  the refinement of `ColumnLoop` under the mapping of `Loop`.
* `FormulaFoldProofs`: that the formula equals the run is not inductive, since a
  chain is folded anew from its base when it grows. `FoldInv` adds that the tree
  is what its chain folds to, that the passes of a chain agree with the run
  wherever nothing was approximated, and that rows outside `matched` are in no
  pass. One lemma per rule, under them the facts about first hits of a cascade.

* `ExprRulesProofs`: the optimizer's passes keep the value of every tree on every row.
  A RECURSIVE operator is out of the prover's reach, so a pass is here any function on
  a set of trees that satisfies the operator's equation (`PassEquations`; the set holds
  the subtrees of its trees and what the pass makes of them, as the set of all trees
  does). `ByRank` is the induction over trees, by a rank that is smaller below a node:
  the depth where a pass follows the tree, a bound on the work where it runs again on
  what it has made (`ShrinksBy`, `IsHoist`), which is why those passes end.
  `Congruence` and `BottomUp` reduce a pass to its rule at a node, `Reapplication` one
  that applies a rule until it fits no more. The passes over lists of conjuncts and
  disjuncts follow a list from its end (`ByEnd`): a flattened condition holds where
  every conjunct, or some disjunct, holds, whatever their order and repetition
  (`FlattenAndHolds`, `SameBagSameGuard`), and `DropShadowedKeepsValue` carries along
  the chain that no disjunct seen so far holds. `FactorGuards` sees a disjunction as a
  set of terms that are sets of conjuncts: what is common to some terms is taken out of
  them (`TakingSplits`), and terms that differ in one equality are grouped
  (`GroupingHolds`); `IsFactorOr` counts how often the rule still runs on what it has
  made, and by that rank `FactorOrKeepsValue` is proved. An ELSEIF chain is a list of
  arms and says the value of the first arm that holds (`Says`); `ChainPassKeepsValue`
  reduces a pass that rebuilds chains to the list it makes of the arms, which for
  `MergeSameThen` and `DropSameGuard` grows arm by arm. What is needed of the row, and
  only for the passes that need it: `GivenWhere`, as `IF(x < 0, 0, x)` and `MAX(x, 0)` differ
  when x is NULL, and so do a joined NULL and its default; `GivenGuards`, as `x == x`
  and `COALESCE(x, 1) == 1` differ from TRUE and from `x == 1` when x is NULL;
  `HasConditions`, conditions are true or false, as an `OR` with FALSE becomes its
  other operand; `GivenJoins` and `GivenPreference`, as two passes change which UPDATE
  wins: an arm joined to an earlier one of its value overtakes the arms in between,
  and a THEN replaces one of the same guard that was NULL or read no process date. The
  theorems say that nothing else in these passes changes a value: it is enough that an
  overtaken or replaced arm that holds has the same value. The two passes that reorder
  a chain are meant to change values, so `ReorderingKeepsReading` says what they make
  of it: `IsReading` gives a chain the value of the arm that, of those that hold, the
  order puts first, however many hold and whatever they give, and that is the value of
  the tree sorted by that order (`IsArmSort`). `GivenOrder` is needed because the
  passes look into what they have made: the order must leave sorted chains as they are.
  `GivenPlaceholders` is needed
  by `UnwrapGuards` and `PruneTree`, which take `IF(G) THEN NULL ELSE x` inside `IF(G)`
  for x: no NULL they drop was an assignment of NULL. That the operators of `AstOptimize` do satisfy the equations is what
  TLC evaluates in `OperatorsSatisfyTheEquations` (`PassSamples`, with `program_fold`):
  trees closed under subtrees and passes, on every row of two columns, with a
  weight as the rank; the same trees satisfy all hypotheses of `HygieneKeepsValue`.
  `ChainOperatorsSatisfyTheEquations` does the same for the passes over chains, with
  trees and rows on which all hypotheses of the chain theorems hold, and
  `PruningSatisfiesTheEquations` for unwrapping and pruning.

Type invariants are proved where there are theorems, so the runs check what they
do not follow from.

Every invariant and action property of the modules with theorems is proved. Only
model-checked: liveness (`SettlesUndisturbed`, `UiLearnsOutcome`,
`EveryColumnReturns`), out of the prover's reach, and all properties of
`FormulaRewrite`, `PhraseReader` and `ProgramFold`: trees and texts are recursive
data, and their operators are RECURSIVE. `FormulaFold` exists beside `UpdateFold` and
`PassEquations` beside `AstOptimize` for that reason: of `PassesKeepValue`,
`ExprRulesProofs` states the part about `StripCoalesce`, `Distribute`,
`CollapseDegenerate`, `FoldBooleans`, `JoinZeroDefaults`, `NegativeClamps`,
`CollapseCap`, `DedupeGuards`, dropping shadowed disjuncts and the merging of
neighbouring arms, the factoring of guards, the passes that lay out, reorder and thin
out a chain, `UnwrapGuards` and pruning, for all trees. Sharing repeated subtrees,
shortening by other means and what printing changes are only model-checked.

## 6. Not modelled

* `audit_log` (written, never read by the program), the schema migration, sending
  a file (one step), the Excel download (the CSV's code with another file).
* Rules of the fold and the optimizer for columns of particular names, a cap
  together with a floor, what `_dedupe_gte_conjunct_list` does to conjuncts over the
  `DPD_` columns (`ast_optimize.py:540`), date arithmetic, quoting and spelling: they concern
  single columns or the wording of a formula.
* GROUP BY, derived tables, dimension tables and names that differ only in schema
  or spelling, in `MutationFold`; execution steps, dependency references, workflow
  gates and comments in the scanners.
* The dependency graph `lineage/`, the LLM client, RAG, `parsing/` (sqlglot's trees),
  reports, batch and scripts: `PROJECT.json` says of each why. They decide about no
  formula, or only through inputs that `RowGate` chooses freely.

### What is left

In the order of importance:

1. `LLMClient` - candidates, retries, abandoned threads, the token counter.
2. `WriteLedger` - statement classes, inventory as bags, control context.
3. Execution steps and dependency references of a procedure, next to its passes.
4. `Lineage` - components, topological order, cycles at low confidence.
5. `SmartChunks`, `ColumnTypes` (types of copied columns), `Versioning`.
