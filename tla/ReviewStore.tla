----------------------------- MODULE ReviewStore -----------------------------
(***************************************************************************)
(* Human review of one job's DD rows, and the reviewed CSV that goes with  *)
(* it.  A browser tab is a Streamlit session: every click runs the page's  *)
(* script from the top.  One run reads the rows, fetches the reviewed CSV  *)
(* (the API exports the table into the job's dd_export_reviewed.csv and    *)
(* answers with that file; when it cannot, the session exports into the    *)
(* same file itself), and only then reaches the button that was clicked.   *)
(*                                                                         *)
(* The Excel download is the same code with another file.  What both write *)
(* to `jobs.status` is in ApiService.                                      *)
(***************************************************************************)
EXTENDS Naturals, Sequences, FiniteSets

CONSTANTS
    Rows,         \* ids of the job's dd_rows
    Sessions,     \* browser tabs
    Handlers,     \* API threads that can serve a CSV request
    MayTimeOut    \* may a request outlive the 60 seconds its session waits?

ASSUME ReviewAssumption ==
    /\ Sessions \cap Handlers = {}
    /\ "none" \notin Sessions \cup Handlers
    /\ MayTimeOut \in BOOLEAN

VARIABLES
    dd,         \* dd_rows: per row its two columns and its row_json
    log,        \* review_decisions, in the order of their ids
    file,       \* what dd_export_reviewed.csv holds
    writer,     \* per thread that exports: how far it is
    session     \* per session: its script run and what the page shows

vars == <<dd, log, file, writer, session>>

-----------------------------------------------------------------------------
(* A DD row and a decision about it. *)

Actions  == {"APPROVE", "REJECT", "EDIT", "OVERRIDE"}
Status   == {"ACTIVE", "INACTIVE", "PENDING_REVIEW"}
States   == {"GENERATED", "NEEDS_REVIEW", "APPROVED", "UNSUPPORTED"}

\* Expressions: the derived one, a reviewer's, a bare 0, no text.
Exprs    == {"derived", "edited", "0", ""}
Typed    == {"edited", "0", ""}

RowType  == [status : Status, expr : Exprs,
             json : [status : Status, state : States, expr : Exprs]]

MakeRow(status, state, expr) ==
    [status |-> status, expr |-> expr,
     json |-> [status |-> status, state |-> state, expr |-> expr]]

\* What the pipeline persists: a clean row, a row with an error, a duplicate
\* (its review_state is left alone), a row withheld for lack of an expression.
Persisted ==
    {MakeRow("ACTIVE", "GENERATED", "derived"),
     MakeRow("PENDING_REVIEW", "NEEDS_REVIEW", "derived"),
     MakeRow("PENDING_REVIEW", "GENERATED", "derived"),
     MakeRow("PENDING_REVIEW", "UNSUPPORTED", "")}

Pending == {r \in Rows : dd[r].status = "PENDING_REVIEW"}

NoClick == [row |-> "none", action |-> "none", text |-> ""]
Click   == [row : Rows, action : {"EDIT"}, text : Typed]
              \cup [row : Rows, action : Actions \ {"EDIT"}, text : {""}]

MutDecided(row, action, text) ==
    LET accepted == action # "REJECT"
        status   == IF accepted THEN "ACTIVE" ELSE "INACTIVE"
    IN  [row EXCEPT !.status = status,
                    !.expr   = IF action = "EDIT" /\ text # "" THEN text ELSE @,
                    !.json.status = status,
                    !.json.state  = IF accepted THEN "APPROVED" ELSE "NEEDS_REVIEW"]

\* record_review_decision: an edit without text keeps the expression.
Decided(row, action, text) ==
    LET accepted == action # "REJECT"
        status   == IF accepted THEN "ACTIVE" ELSE "INACTIVE"
        edits    == action = "EDIT" /\ text # ""
    IN  [row EXCEPT !.status = status,
                    !.expr   = IF edits THEN text ELSE @,
                    !.json   = [status |-> status,
                                state  |-> IF accepted THEN "APPROVED" ELSE "NEEDS_REVIEW",
                                expr   |-> IF edits THEN text ELSE @.expr]]

-----------------------------------------------------------------------------
(* The reviewed CSV. *)

\* The stored columns win over row_json (_row_dict_to_dd_row), except that an
\* empty expression does not; the review state is in row_json only.
Rebuilt(row) ==
    [status |-> row.status, state |-> row.json.state,
     expr   |-> IF row.expr # "" THEN row.expr ELSE row.json.expr]

MutExportable(line) == line.state # "UNSUPPORTED" /\ line.status # "INACTIVE"
                       /\ line.expr \notin {"", "0"}

\* is_exportable_row: withheld rows and bare or missing expressions stay out,
\* rejected rows stay in.
Exportable(line) == line.state # "UNSUPPORTED" /\ line.expr \notin {"", "0"}

\* What the file says of each exportable row: the status and the expression
\* of its line.  _dedupe_equivalent_rows puts rows of one column on one line if
\* these and the rest but the date agree; the line then speaks for each of them,
\* and which date it has is in DDMerge.
Lines(table) ==
    LET kept == {r \in Rows : Exportable(Rebuilt(table[r]))} IN
    [r \in kept |-> [status |-> Rebuilt(table[r]).status, expr |-> Rebuilt(table[r]).expr]]

LineSets == UNION {[kept -> [status : Status, expr : Exprs]] : kept \in SUBSET Rows}

\* A whole file: its lines, and how many decisions the table they were read
\* from had (a ghost: the file does not say it).
Sheet  == [kind : {"whole"}, at : Nat, lines : LineSets]
Blank(kind) == [kind |-> kind, at |-> 0, lines |-> <<>>]
Absent == Blank("absent")
Empty  == Blank("empty")
Mixed  == Blank("mixed")     \* two writers' bytes, or a part of one's

Threads == Handlers \cup Sessions
NoExport == [pc |-> "idle", sheet |-> Absent]

Content    == Sheet \cup {Absent, Empty, Mixed}
Decision   == [by : Sessions, row : Rows, action : Actions, text : Typed]
WriterType == [pc : {"idle", "asked", "read", "open", "done"}, sheet : Content]
SessionType ==
    [pc : {"shown", "asking", "local", "act", "rerun"}, buttons : SUBSET Rows, view : SUBSET Rows,
     click : Click \cup {NoClick}, handler : Handlers \cup {"none"},
     asked : Nat, page : Content]

TypeOK ==
    /\ dd \in [Rows -> RowType]
    /\ log \in Seq(Decision)
    /\ file \in Content
    /\ writer \in [Threads -> WriterType]
    /\ session \in [Sessions -> SessionType]
    /\ \A s \in Sessions : session[s].pc = "asking" => session[s].handler \in Handlers

Init ==
    /\ dd \in [Rows -> Persisted]
    /\ log = <<>>
    /\ file = Absent
    /\ writer = [t \in Threads |-> NoExport]
    /\ session = [s \in Sessions |->
          [pc |-> "rerun", buttons |-> {}, view |-> {}, click |-> NoClick, handler |-> "none",
           asked |-> 0, page |-> Absent]]

-----------------------------------------------------------------------------
(* One export: the rows are read in one SELECT, the file is opened (which  *)
(* truncates it), written and closed.  Nothing keeps two threads from      *)
(* doing so at the same time.                                              *)

MutReadRows(t) ==
    /\ writer[t].pc = "asked"
    /\ writer' = [writer EXCEPT ![t] =
          IF file.kind = "whole"
          THEN [pc |-> "done", sheet |-> file]
          ELSE [pc |-> "read", sheet |-> [kind |-> "whole", at |-> Len(log), lines |-> Lines(dd)]]]
    /\ UNCHANGED <<dd, log, file, session>>

ReadRows(t) ==
    /\ writer[t].pc = "asked"
    /\ writer' = [writer EXCEPT ![t] =
          [pc |-> "read", sheet |-> [kind |-> "whole", at |-> Len(log), lines |-> Lines(dd)]]]
    /\ UNCHANGED <<dd, log, file, session>>

OthersWriting(t) == \E u \in Threads \ {t} : writer[u].pc = "open"

OpenFile(t) ==
    /\ writer[t].pc = "read"
    /\ file' = IF OthersWriting(t) THEN Mixed ELSE Empty
    /\ writer' = [writer EXCEPT ![t].pc = "open"]
    /\ UNCHANGED <<dd, log, session>>

\* After somebody else's bytes the result may be either.
CloseFile(t) ==
    /\ writer[t].pc = "open"
    /\ file' \in IF file = Empty THEN {writer[t].sheet} ELSE {writer[t].sheet, Mixed}
    /\ writer' = [writer EXCEPT ![t].pc = "done"]
    /\ UNCHANGED <<dd, log, session>>

\* A handler nobody waits for any more answers into a closed connection.
AnswerNobody(h) ==
    /\ writer[h].pc = "done"
    /\ \A s \in Sessions : session[s].handler # h
    /\ writer' = [writer EXCEPT ![h] = NoExport]
    /\ UNCHANGED <<dd, log, file, session>>

-----------------------------------------------------------------------------
(* A script run. *)

MutSeen(s, click) == click

\* A button that the re-read rows do not bring back is not there to be clicked.
Seen(s, click) == IF click.row \in Pending THEN click ELSE NoClick

\* A click, a page load or st.rerun starts the script: it reads the rows and
\* asks the API for the reviewed CSV.  The buttons of the last run that drew
\* them all stay on the screen, so a click can also arrive before st.rerun
\* has drawn the page again.
BeginRun(s, click, h) ==
    /\ session[s].pc \in {"shown", "rerun"}
    /\ click = NoClick \/ click.row \in session[s].buttons
    /\ writer[h].pc = "idle"
    /\ writer' = [writer EXCEPT ![h].pc = "asked"]
    /\ session' = [session EXCEPT ![s] =
          [@ EXCEPT !.pc = "asking", !.view = Pending, !.click = Seen(s, click),
                    !.handler = h, !.asked = Len(log), !.page = Absent]]
    /\ UNCHANGED <<dd, log, file>>

\* FileResponse and read_bytes read the file as it is by then, piece by piece:
\* while another export has it open they may get parts of two contents.
FetchFrom(s, t) ==
    /\ writer[t].pc = "done"
    /\ writer' = [writer EXCEPT ![t] = NoExport]
    /\ \E read \in {file} \cup (IF OthersWriting(t) THEN {Mixed} ELSE {}) :
          session' = [session EXCEPT ![s] =
              [@ EXCEPT !.pc = "act", !.handler = "none", !.page = read]]
    /\ UNCHANGED <<dd, log, file>>

Answer(s) == session[s].pc = "asking" /\ FetchFrom(s, session[s].handler)

MutAskFails(s) ==
    /\ session[s].pc = "asking"
    /\ IF file = Absent
       THEN /\ writer' = [writer EXCEPT ![session[s].handler] = NoExport, ![s].pc = "asked"]
            /\ session' = [session EXCEPT ![s].pc = "local", ![s].handler = "none"]
       ELSE /\ writer' = [writer EXCEPT ![session[s].handler] = NoExport]
            /\ session' = [session EXCEPT ![s].pc = "act", ![s].handler = "none",
                                          ![s].page = file]
    /\ UNCHANGED <<dd, log, file>>

\* The API is not reachable or answers an error: whatever its thread was
\* doing is over, and the session exports locally.
AskFails(s) ==
    /\ session[s].pc = "asking"
    /\ writer' = [writer EXCEPT ![session[s].handler] = NoExport, ![s].pc = "asked"]
    /\ session' = [session EXCEPT ![s] = [@ EXCEPT !.pc = "local", !.handler = "none"]]
    /\ UNCHANGED <<dd, log, file>>

\* No answer in time: the session exports locally, the API's thread goes on.
AskTimesOut(s) ==
    /\ MayTimeOut
    /\ session[s].pc = "asking"
    /\ writer' = [writer EXCEPT ![s].pc = "asked"]
    /\ session' = [session EXCEPT ![s] = [@ EXCEPT !.pc = "local", !.handler = "none"]]
    /\ UNCHANGED <<dd, log, file>>

FetchLocally(s) == session[s].pc = "local" /\ FetchFrom(s, s)

\* The clicked button: one transaction, then st.rerun.
Decide(s) ==
    /\ session[s].pc = "act"
    /\ session[s].click # NoClick
    /\ LET c == session[s].click IN
         /\ dd'  = [dd EXCEPT ![c.row] = Decided(@, c.action, c.text)]
         /\ log' = Append(log, [by |-> s, row |-> c.row, action |-> c.action, text |-> c.text])
    /\ session' = [session EXCEPT ![s] = [@ EXCEPT !.pc = "rerun", !.click = NoClick]]
    /\ UNCHANGED <<file, writer>>

\* A run without a click draws every button.
FinishRun(s) ==
    /\ session[s].pc = "act"
    /\ session[s].click = NoClick
    /\ session' = [session EXCEPT ![s] = [@ EXCEPT !.pc = "shown", !.buttons = session[s].view]]
    /\ UNCHANGED <<dd, log, file, writer>>

\* The next click interrupts a run before it reaches its own button.
Interrupt(s) ==
    /\ session[s].pc = "act"
    /\ session' = [session EXCEPT ![s] = [@ EXCEPT !.pc = "shown", !.click = NoClick]]
    /\ UNCHANGED <<dd, log, file, writer>>

Export(t)   == ReadRows(t) \/ OpenFile(t) \/ CloseFile(t)
RunStarts(s) == \E h \in Handlers, click \in Click \cup {NoClick} : BeginRun(s, click, h)
RunGoesOn(s) == \/ Answer(s) \/ AskFails(s) \/ AskTimesOut(s) \/ FetchLocally(s)
                \/ Decide(s) \/ FinishRun(s) \/ Interrupt(s)

Next ==
    \/ \E t \in Threads  : Export(t)
    \/ \E h \in Handlers : AnswerNobody(h)
    \/ \E s \in Sessions : RunStarts(s) \/ RunGoesOn(s)

Spec == Init /\ [][Next]_vars

-----------------------------------------------------------------------------
(* Properties. *)

Decisions(r, n)  == {i \in 1..n : log[i].row = r}
LastOn(r, n, i)  == i \in Decisions(r, n) /\ \A k \in Decisions(r, n) : k <= i

\* The two columns of a row, its row_json and its last decision tell the same
\* story: db.py:316 "Keep row_json metadata in sync for reviewed exports".
RowShowsItsLog ==
    \A r \in Rows :
        /\ dd[r].status = dd[r].json.status /\ dd[r].expr = dd[r].json.expr
        /\ dd[r].json.state = "APPROVED" => dd[r].status = "ACTIVE"
        /\ \A i \in 1..Len(log) : LastOn(r, Len(log), i) =>
              /\ dd[r].status = IF log[i].action = "REJECT" THEN "INACTIVE" ELSE "ACTIVE"
              /\ log[i].action = "EDIT" /\ log[i].text # "" => dd[r].expr = log[i].text

\* A reviewer decides a row once: the second click of a double click, or a
\* click on a button that is still on the screen, finds the row decided.
DecidesOnce ==
    \A i, k \in 1..Len(log) :
        i # k => log[i].by # log[k].by \/ log[i].row # log[k].row

\* Every sheet that is whole shows each row as the last of the decisions it
\* was exported after left it: a rejected row is there as INACTIVE, an edited
\* one with the reviewer's text, unless that is nothing to present.
ShowsDecisions(sheet) ==
    \A r \in Rows, i \in 1..Len(log) : LastOn(r, sheet.at, i) =>
        LET d == log[i] IN
        /\ r \in DOMAIN sheet.lines =>
              sheet.lines[r].status = IF d.action = "REJECT" THEN "INACTIVE" ELSE "ACTIVE"
        /\ d.action = "EDIT" /\ d.text # "" =>
              IF d.text = "edited" THEN r \in DOMAIN sheet.lines /\ sheet.lines[r].expr = "edited"
                                   ELSE r \notin DOMAIN sheet.lines
        /\ d.action = "REJECT" /\ dd[r].expr = "derived" => r \in DOMAIN sheet.lines

SheetsShowDecisions ==
    \A sheet \in {file} \cup {session[s].page : s \in Sessions} :
        sheet.kind = "whole" => ShowsDecisions(sheet)
=============================================================================
