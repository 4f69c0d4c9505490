-------------------------- MODULE ReviewStoreProofs --------------------------
(***************************************************************************)
(* Theorems about ReviewStore and ReviewPages, for any number of rows,     *)
(* browser tabs and API threads, with or without requests that time out.   *)
(*                                                                         *)
(* ReviewInv is inductive.  RowShowsItsLog needs nothing but the types;    *)
(* DecidesOnce needs to know why a second decision cannot happen:          *)
(* a decided row is never pending again (Settled), and a click that a run  *)
(* carries is on a row its own session has not decided (FreshClick), since *)
(* the row was pending when the run read it and the session does nothing   *)
(* else in between.                                                        *)
(*                                                                         *)
(* A sheet shows its decisions because it says how many there were when it *)
(* was read (SheetsOK).  A page is current because a session that nobody   *)
(* disturbs is alone with its file (Alone) and no handler serves two       *)
(* sessions (ServingInv).                                                  *)
(***************************************************************************)
EXTENDS ReviewPages, TLAPS

Settled == \A i \in 1..Len(log) : dd[log[i].row].status # "PENDING_REVIEW"

FreshClick ==
    \A s \in Sessions : session[s].click # NoClick =>
        \A i \in 1..Len(log) : ~(log[i].by = s /\ log[i].row = session[s].click.row)

ReviewInv == TypeOK /\ RowShowsItsLog /\ Settled /\ FreshClick /\ DecidesOnce

-----------------------------------------------------------------------------
(* Types. *)

\* A decision leaves a row a row.
LEMMA DecidedType ==
    ASSUME NEW row \in RowType, NEW action \in Actions, NEW text \in Typed
    PROVE  Decided(row, action, text) \in RowType
BY DEF Decided, RowType, Actions, Typed, Status, States, Exprs

\* What a decision leaves in the columns and in row_json.
Shows(row, action, text) ==
    /\ row.status = IF action = "REJECT" THEN "INACTIVE" ELSE "ACTIVE"
    /\ row.json.status = row.status
    /\ row.json.state = IF action = "REJECT" THEN "NEEDS_REVIEW" ELSE "APPROVED"
    /\ row.expr = row.json.expr
    /\ action = "EDIT" /\ text # "" => row.expr = text

LEMMA DecidedFields ==
    ASSUME NEW row \in RowType, row.expr = row.json.expr,
           NEW action \in Actions, NEW text \in Typed
    PROVE  Shows(Decided(row, action, text), action, text)
<1> DEFINE status == IF action # "REJECT" THEN "ACTIVE" ELSE "INACTIVE"
           state  == IF action # "REJECT" THEN "APPROVED" ELSE "NEEDS_REVIEW"
           expr   == IF action = "EDIT" /\ text # "" THEN text ELSE row.expr
           json   == [status |-> status, state |-> state, expr |-> expr]
           d      == [row EXCEPT !.status = status, !.expr = expr, !.json = json]
<1>1. Decided(row, action, text) = d
  BY DEF Decided
<1>2. json.status = status /\ json.state = state /\ json.expr = expr
  OBVIOUS
<1> HIDE DEF json
<1>3. d.status = status /\ d.expr = expr /\ d.json = json
  BY DEF RowType
<1> HIDE DEF d
<1> QED BY <1>1, <1>2, <1>3 DEF Shows

\* What an export reads from a table of rows is a whole sheet's lines.
LEMMA LinesType ==
    ASSUME dd \in [Rows -> RowType]
    PROVE  Lines(dd) \in LineSets
<1> DEFINE kept == {r \in Rows : Exportable(Rebuilt(dd[r]))}
<1>1. \A r \in Rows : /\ Rebuilt(dd[r]).status \in Status
                      /\ Rebuilt(dd[r]).expr \in Exprs
  BY DEF Rebuilt, RowType
<1>2. Lines(dd) = [r \in kept |-> [status |-> Rebuilt(dd[r]).status, expr |-> Rebuilt(dd[r]).expr]]
  BY DEF Lines
<1>3. Lines(dd) \in [kept -> [status : Status, expr : Exprs]]
  BY <1>1, <1>2
<1>4. kept \in SUBSET Rows
  OBVIOUS
<1> QED BY <1>3, <1>4 DEF LineSets

\* The type invariant holds initially.
LEMMA InitType == Init => TypeOK
<1> SUFFICES ASSUME Init PROVE TypeOK
  OBVIOUS
<1>1. Persisted \subseteq RowType
  BY DEF Persisted, MakeRow, RowType, Status, States, Exprs
<1>2. dd \in [Rows -> RowType]
  BY <1>1 DEF Init
<1>3. Absent \in Content
  BY DEF Content
<1>4. writer \in [Threads -> WriterType]
  BY <1>3 DEF Init, NoExport, WriterType
<1>5. session \in [Sessions -> SessionType]
  BY <1>3 DEF Init, SessionType
<1>6. log \in Seq(Decision)
  BY DEF Init
<1>7. \A s \in Sessions : session[s].pc # "asking"
  BY DEF Init
<1>8. file \in Content
  BY <1>3 DEF Init
<1> QED BY <1>2, <1>4, <1>5, <1>6, <1>7, <1>8 DEF TypeOK

\* Every step of an export keeps the types.
LEMMA ExportType ==
    ASSUME TypeOK, NEW t \in Threads, Export(t)
    PROVE  TypeOK'
<1>1. CASE ReadRows(t)
  <2>1. [kind |-> "whole", at |-> Len(log), lines |-> Lines(dd)] \in Content
    BY LinesType DEF TypeOK, Sheet, Content
  <2>2. writer' \in [Threads -> WriterType]
    BY <1>1, <2>1 DEF ReadRows, TypeOK, WriterType
  <2> QED BY <1>1, <2>2 DEF ReadRows, TypeOK
<1>2. CASE OpenFile(t)
  <2>1. file' \in Content
    BY <1>2 DEF OpenFile, Content
  <2>2. writer' \in [Threads -> WriterType]
    BY <1>2 DEF OpenFile, TypeOK, WriterType
  <2> QED BY <1>2, <2>1, <2>2 DEF OpenFile, TypeOK
<1>3. CASE CloseFile(t)
  <2>1. writer[t].sheet \in Content /\ Mixed \in Content
    BY DEF TypeOK, WriterType, Content
  <2>2. file' \in Content
    BY <1>3, <2>1 DEF CloseFile
  <2>3. writer' \in [Threads -> WriterType]
    BY <1>3 DEF CloseFile, TypeOK, WriterType
  <2> QED BY <1>3, <2>2, <2>3 DEF CloseFile, TypeOK
<1> QED BY <1>1, <1>2, <1>3 DEF Export

\* So does a session that takes its page from a finished export.
LEMMA FetchType ==
    ASSUME TypeOK, NEW s \in Sessions, NEW t \in Threads, FetchFrom(s, t)
    PROVE  TypeOK'
<1>1. NoExport \in WriterType
  BY DEF NoExport, WriterType, Content
<1>2. writer' \in [Threads -> WriterType]
  BY <1>1 DEF TypeOK, FetchFrom
<1>3. \A read \in {file, Mixed} :
         [session[s] EXCEPT !.pc = "act", !.handler = "none", !.page = read] \in SessionType
  BY DEF TypeOK, SessionType, Content
<1>4. session' \in [Sessions -> SessionType]
  BY <1>3 DEF TypeOK, FetchFrom
<1>5. \A u \in Sessions : session'[u].pc = "asking" => session'[u].handler \in Handlers
  BY DEF TypeOK, FetchFrom, SessionType
<1> QED BY <1>2, <1>4, <1>5 DEF TypeOK, FetchFrom

LEMMA BeginType ==
    ASSUME TypeOK, NEW s \in Sessions, NEW h \in Handlers,
           NEW click \in Click \cup {NoClick}, BeginRun(s, click, h)
    PROVE  TypeOK'
<1> DEFINE run == [session[s] EXCEPT !.pc = "asking", !.view = Pending,
                      !.click = Seen(s, click), !.handler = h, !.asked = Len(log),
                      !.page = Absent]
<1>1. Seen(s, click) \in Click \cup {NoClick}
  BY DEF Seen
<1>2. Pending \in SUBSET Rows /\ Absent \in Content /\ Len(log) \in Nat
  BY DEF Pending, Content, TypeOK
<1>3. run \in SessionType /\ run.handler \in Handlers
  BY <1>1, <1>2 DEF SessionType, TypeOK
<1>4. session' = [session EXCEPT ![s] = run]
  BY DEF BeginRun
<1> HIDE DEF run
<1>5. session' \in [Sessions -> SessionType]
  BY <1>3, <1>4 DEF TypeOK
<1>6. \A u \in Sessions : session'[u].pc = "asking" => session'[u].handler \in Handlers
  BY <1>3, <1>4 DEF TypeOK
<1>7. writer' \in [Threads -> WriterType]
  BY DEF TypeOK, BeginRun, WriterType, Threads
<1> QED BY <1>5, <1>6, <1>7 DEF TypeOK, BeginRun

LEMMA AskType ==
    ASSUME TypeOK, NEW s \in Sessions, AskFails(s) \/ AskTimesOut(s)
    PROVE  TypeOK'
<1>1. NoExport \in WriterType
  BY DEF NoExport, WriterType, Content
<1>2. session' = [session EXCEPT ![s] = [@ EXCEPT !.pc = "local", !.handler = "none"]]
  BY DEF AskFails, AskTimesOut
<1>3. session' \in [Sessions -> SessionType]
  <2>1. [session[s] EXCEPT !.pc = "local", !.handler = "none"] \in SessionType
    BY DEF TypeOK, SessionType
  <2> QED BY <1>2, <2>1 DEF TypeOK
<1>4. \A u \in Sessions : session'[u].pc = "asking" => session'[u].handler \in Handlers
  BY <1>2 DEF TypeOK, SessionType
<1>5. writer' \in [Threads -> WriterType]
  <2>1. \A w \in [Threads -> WriterType] :
           [w EXCEPT ![s].pc = "asked"] \in [Threads -> WriterType]
    BY DEF WriterType
  <2>2. CASE AskFails(s)
    <3>1. [writer EXCEPT ![session[s].handler] = NoExport] \in [Threads -> WriterType]
      BY <1>1 DEF TypeOK
    <3>2. writer' = [[writer EXCEPT ![session[s].handler] = NoExport] EXCEPT ![s].pc = "asked"]
      BY <2>2 DEF AskFails
    <3> QED BY <2>1, <3>1, <3>2
  <2>3. CASE AskTimesOut(s)
    BY <2>1, <2>3 DEF TypeOK, AskTimesOut
  <2> QED BY <2>2, <2>3
<1> QED BY <1>3, <1>4, <1>5 DEF TypeOK, AskFails, AskTimesOut

\* A decision is about a row, and leaves everything of its type.
LEMMA DecideType ==
    ASSUME TypeOK, NEW s \in Sessions, Decide(s)
    PROVE  /\ TypeOK'
           /\ session[s].click.row \in Rows
           /\ session[s].click.action \in Actions
           /\ session[s].click.text \in Typed
<1> DEFINE c == session[s].click
           d == [by |-> s, row |-> c.row, action |-> c.action, text |-> c.text]
<1>1. c \in Click
  BY DEF TypeOK, Decide, SessionType
<1>2. c.row \in Rows /\ c.action \in Actions /\ c.text \in Typed
  BY <1>1 DEF Click, Actions, Typed
<1>3. log' = Append(log, d) /\ dd' = [dd EXCEPT ![c.row] = Decided(@, c.action, c.text)]
  BY DEF Decide
<1>4. d \in Decision
  BY <1>2 DEF Decision
<1>5. log' \in Seq(Decision)
  BY <1>3, <1>4 DEF TypeOK
<1>6. Decided(dd[c.row], c.action, c.text) \in RowType
  BY <1>2, DecidedType DEF TypeOK
<1>7. dd' \in [Rows -> RowType]
  BY <1>3, <1>6 DEF TypeOK
<1>8. NoClick \in Click \cup {NoClick}
  OBVIOUS
<1>9. [session[s] EXCEPT !.pc = "rerun", !.click = NoClick] \in SessionType
  BY <1>8 DEF TypeOK, SessionType
<1>10. session' \in [Sessions -> SessionType]
  BY <1>9 DEF Decide, TypeOK
<1>11. \A u \in Sessions : session'[u].pc = "asking" => session'[u].handler \in Handlers
  BY DEF Decide, TypeOK, SessionType
<1> QED BY <1>2, <1>5, <1>7, <1>10, <1>11 DEF Decide, TypeOK

\* Every step keeps the types.
LEMMA NextType ==
    ASSUME TypeOK, [Next]_vars
    PROVE  TypeOK'
<1>1. CASE \E t \in Threads : Export(t)
  BY <1>1, ExportType
<1>2. CASE \E h \in Handlers : AnswerNobody(h)
  <2>1. NoExport \in WriterType
    BY DEF NoExport, WriterType, Content
  <2> QED BY <1>2, <2>1 DEF AnswerNobody, TypeOK
<1>3. ASSUME NEW s \in Sessions, RunStarts(s) PROVE TypeOK'
  BY <1>3, BeginType DEF RunStarts
<1>4. ASSUME NEW s \in Sessions, RunGoesOn(s) PROVE TypeOK'
  <2>1. CASE Answer(s)
    <3>1. session[s].handler \in Threads
      BY <2>1 DEF Answer, TypeOK, Threads
    <3> QED BY <2>1, <3>1, FetchType DEF Answer
  <2>2. CASE FetchLocally(s)
    BY <2>2, FetchType DEF FetchLocally, Threads
  <2>3. CASE AskFails(s) \/ AskTimesOut(s)
    BY <2>3, AskType
  <2>4. CASE Decide(s)
    BY <2>4, DecideType
  <2>5. CASE FinishRun(s) \/ Interrupt(s)
    <3>1. /\ [session[s] EXCEPT !.pc = "shown", !.buttons = session[s].view] \in SessionType
          /\ [session[s] EXCEPT !.pc = "shown", !.click = NoClick] \in SessionType
      BY DEF TypeOK, SessionType
    <3>2. session' \in [Sessions -> SessionType]
      BY <2>5, <3>1 DEF FinishRun, Interrupt, TypeOK
    <3>3. \A u \in Sessions : session'[u].pc = "asking" => session'[u].handler \in Handlers
      BY <2>5 DEF FinishRun, Interrupt, TypeOK, SessionType
    <3> QED BY <2>5, <3>2, <3>3 DEF FinishRun, Interrupt, TypeOK
  <2> QED BY <1>4, <2>1, <2>2, <2>3, <2>4, <2>5 DEF RunGoesOn
<1>5. CASE UNCHANGED vars
  BY <1>5 DEF vars, TypeOK
<1> QED BY <1>1, <1>2, <1>3, <1>4, <1>5 DEF Next

-----------------------------------------------------------------------------
(* The invariant. *)

\* What a decision appends, and what it does to its row and to no other.
LEMMA DecideEffect ==
    ASSUME TypeOK, NEW s \in Sessions, Decide(s)
    PROVE  LET c == session[s].click IN
           /\ Len(log') = Len(log) + 1
           /\ \A i \in 1..Len(log) : log'[i] = log[i]
           /\ log'[Len(log) + 1] =
                 [by |-> s, row |-> c.row, action |-> c.action, text |-> c.text]
           /\ dd'[c.row] = Decided(dd[c.row], c.action, c.text)
           /\ \A r \in Rows \ {c.row} : dd'[r] = dd[r]
<1> DEFINE c == session[s].click
           d == [by |-> s, row |-> c.row, action |-> c.action, text |-> c.text]
<1>1. log' = Append(log, d) /\ dd' = [dd EXCEPT ![c.row] = Decided(@, c.action, c.text)]
  BY DEF Decide
<1>2. c.row \in Rows
  BY DecideType
<1>3. log \in Seq(Decision) /\ dd \in [Rows -> RowType]
  BY DEF TypeOK
<1> HIDE DEF d
<1>4. Len(log') = Len(log) + 1 /\ log'[Len(log) + 1] = d
      /\ \A i \in 1..Len(log) : log'[i] = log[i]
  BY <1>1, <1>3
<1>5. dd'[c.row] = Decided(dd[c.row], c.action, c.text)
      /\ \A r \in Rows \ {c.row} : dd'[r] = dd[r]
  BY <1>1, <1>2, <1>3
<1> QED BY <1>4, <1>5 DEF d

\* The row just decided shows the decision, every other row what it showed.
LEMMA DecideShown ==
    ASSUME TypeOK, RowShowsItsLog, NEW s \in Sessions, Decide(s)
    PROVE  RowShowsItsLog'
<1> DEFINE c == session[s].click
           n == Len(log)
           Last(r, i) == log'[i].row = r /\ \A k \in 1..(n + 1) : log'[k].row = r => k <= i
<1>0. /\ n \in Nat
      /\ c.row \in Rows
      /\ c.action \in Actions
      /\ c.text \in Typed
  BY DecideType DEF TypeOK
<1>1. /\ Len(log') = n + 1
      /\ \A i \in 1..n : log'[i] = log[i]
      /\ log'[n + 1] = [by |-> s, row |-> c.row, action |-> c.action, text |-> c.text]
      /\ dd'[c.row] = Decided(dd[c.row], c.action, c.text)
      /\ \A r \in Rows \ {c.row} : dd'[r] = dd[r]
  BY DecideEffect
<1> HIDE DEF c
<1>2. ASSUME NEW r \in Rows
      PROVE  /\ dd'[r].status = dd'[r].json.status /\ dd'[r].expr = dd'[r].json.expr
             /\ dd'[r].json.state = "APPROVED" => dd'[r].status = "ACTIVE"
             /\ \A i \in 1..(n + 1) : Last(r, i) =>
                  /\ dd'[r].status = IF log'[i].action = "REJECT" THEN "INACTIVE" ELSE "ACTIVE"
                  /\ log'[i].action = "EDIT" /\ log'[i].text # "" => dd'[r].expr = log'[i].text
  <2>1. CASE r # c.row
    <3>1. \A i \in 1..(n + 1) : Last(r, i) => i \in 1..n /\ LastOn(r, n, i)
      BY <1>0, <1>1, <2>1 DEF LastOn, Decisions
    <3>2. dd'[r] = dd[r]
      BY <1>1, <2>1
    <3> HIDE DEF Last
    <3>3. \A i \in 1..(n + 1) : Last(r, i) =>
             /\ dd'[r].status = IF log'[i].action = "REJECT" THEN "INACTIVE" ELSE "ACTIVE"
             /\ log'[i].action = "EDIT" /\ log'[i].text # "" => dd'[r].expr = log'[i].text
      BY <1>1, <3>1, <3>2 DEF RowShowsItsLog
    <3> QED BY <3>2, <3>3 DEF RowShowsItsLog
  <2>2. CASE r = c.row
    <3>1. \A i \in 1..(n + 1) : Last(r, i) => i = n + 1
      BY <1>0, <1>1, <2>2
    <3>2. dd[r] \in RowType /\ dd[r].expr = dd[r].json.expr
      BY DEF TypeOK, RowShowsItsLog
    <3>3. dd'[r] = Decided(dd[r], c.action, c.text)
      BY <1>1, <2>2
    <3>4. Shows(dd'[r], c.action, c.text)
      BY <1>0, <3>2, <3>3, DecidedFields
    <3>5. log'[n + 1].action = c.action /\ log'[n + 1].text = c.text
      BY <1>1
    <3> HIDE DEF Last
    <3> QED BY <3>1, <3>4, <3>5 DEF Shows
  <2> QED BY <2>1, <2>2
<1>3. \A r \in Rows, i \in 1..(n + 1) : LastOn(r, Len(log), i)' => Last(r, i)
  BY <1>1 DEF LastOn, Decisions
<1> HIDE DEF Last
<1> QED BY <1>1, <1>2, <1>3 DEF RowShowsItsLog

\* A decision settles its row, is the first of its session on it, and takes
\* the session's click away.
LEMMA DecideOnce ==
    ASSUME TypeOK, Settled, FreshClick, DecidesOnce, NEW s \in Sessions, Decide(s)
    PROVE  Settled' /\ FreshClick' /\ DecidesOnce'
<1> DEFINE c == session[s].click
           n == Len(log)
<1>0. /\ n \in Nat
      /\ c.row \in Rows
      /\ c # NoClick
  <2>1. n \in Nat
    BY DEF TypeOK
  <2>2. c # NoClick
    BY DEF Decide
  <2> QED BY <2>1, <2>2, DecideType
<1>1. /\ Len(log') = n + 1
      /\ \A i \in 1..n : log'[i] = log[i]
      /\ log'[n + 1].by = s /\ log'[n + 1].row = c.row
      /\ dd'[c.row] = Decided(dd[c.row], c.action, c.text)
      /\ \A r \in Rows \ {c.row} : dd'[r] = dd[r]
  <2>1. log'[n + 1] = [by |-> s, row |-> c.row, action |-> c.action, text |-> c.text]
    BY DecideEffect
  <2>2. log'[n + 1].by = s /\ log'[n + 1].row = c.row
    BY <2>1
  <2> QED BY <2>2, DecideEffect
<1>2. \A i \in 1..n : ~(log[i].by = s /\ log[i].row = c.row)
  BY <1>0 DEF FreshClick
<1>3. \A i \in 1..n : log[i].row \in Rows
  <2>1. \A i \in 1..n : log[i] \in Decision
    BY DEF TypeOK
  <2> QED BY <2>1 DEF Decision
<1>4. Settled'
  <2>1. dd'[c.row].status # "PENDING_REVIEW"
    BY <1>0, <1>1 DEF TypeOK, RowType, Decided
  <2>2. \A i \in 1..(n + 1) : dd'[log'[i].row].status # "PENDING_REVIEW"
    <3> TAKE i \in 1..(n + 1)
    <3>1. CASE i = n + 1
      BY <1>1, <2>1, <3>1
    <3>2. CASE i \in 1..n
      BY <1>1, <1>3, <2>1, <3>2 DEF Settled
    <3> QED BY <1>0, <3>1, <3>2
  <2> QED BY <1>1, <2>2 DEF Settled
<1>5. FreshClick'
  <2>1. session'[s].click = NoClick
    BY DEF Decide, TypeOK, SessionType
  <2>2. \A u \in Sessions \ {s} : session'[u].click = session[u].click
    BY DEF Decide, TypeOK
  <2>3. ASSUME NEW u \in Sessions, session'[u].click # NoClick, NEW i \in 1..(n + 1)
        PROVE  ~(log'[i].by = u /\ log'[i].row = session'[u].click.row)
    <3>1. u # s /\ session'[u].click = session[u].click
      BY <2>1, <2>2, <2>3
    <3>2. CASE i = n + 1
      BY <1>1, <3>1, <3>2
    <3>3. CASE i \in 1..n
      BY <1>1, <2>3, <3>1, <3>3 DEF FreshClick
    <3> QED BY <1>0, <3>2, <3>3
  <2> QED BY <1>1, <2>3 DEF FreshClick
<1>6. DecidesOnce'
  <2>1. \A i, k \in 1..(n + 1) :
           i # k => log'[i].by # log'[k].by \/ log'[i].row # log'[k].row
    <3> TAKE i, k \in 1..(n + 1)
    <3>1. CASE i \in 1..n /\ k \in 1..n
      BY <1>1, <3>1 DEF DecidesOnce
    <3>2. CASE i = n + 1 /\ k \in 1..n
      BY <1>1, <1>2, <3>2
    <3>3. CASE k = n + 1 /\ i \in 1..n
      BY <1>1, <1>2, <3>3
    <3> QED BY <1>0, <3>1, <3>2, <3>3
  <2> QED BY <1>1, <2>1 DEF DecidesOnce
<1> QED BY <1>4, <1>5, <1>6

\* A run that starts carries a click only on a row that was pending, hence
\* not decided by anybody.
LEMMA BeginFresh ==
    ASSUME TypeOK, Settled, FreshClick, NEW s \in Sessions, NEW h \in Handlers,
           NEW click \in Click \cup {NoClick}, BeginRun(s, click, h)
    PROVE  FreshClick'
<1>1. \A u \in Sessions \ {s} : session'[u] = session[u]
  BY DEF BeginRun, TypeOK
<1>2. session'[s].click = Seen(s, click) /\ log' = log
  BY DEF BeginRun, TypeOK, SessionType
<1>3. ASSUME session'[s].click # NoClick
      PROVE  dd[session'[s].click.row].status = "PENDING_REVIEW"
  BY <1>2, <1>3 DEF Seen, Pending
<1>4. ASSUME NEW u \in Sessions, session'[u].click # NoClick, NEW i \in 1..Len(log)
      PROVE  ~(log[i].by = u /\ log[i].row = session'[u].click.row)
  <2>1. CASE u = s
    BY <1>3, <1>4, <2>1 DEF Settled
  <2>2. CASE u # s
    BY <1>1, <1>4, <2>2 DEF FreshClick
  <2> QED BY <2>1, <2>2
<1> QED BY <1>2, <1>4 DEF FreshClick

\* Other steps change neither the table nor the log; a click stays or goes.
LEMMA QuietStep ==
    ASSUME RowShowsItsLog, Settled, FreshClick, DecidesOnce,
           UNCHANGED <<dd, log>>,
           \A s \in Sessions : session'[s].click \in {session[s].click, NoClick}
    PROVE  RowShowsItsLog' /\ Settled' /\ FreshClick' /\ DecidesOnce'
<1>1. RowShowsItsLog' /\ Settled' /\ DecidesOnce'
  BY DEF RowShowsItsLog, LastOn, Decisions, Settled, DecidesOnce
<1>2. FreshClick'
  BY DEF FreshClick
<1> QED BY <1>1, <1>2

-----------------------------------------------------------------------------
(* Theorems. *)

LEMMA InvInit == Init => ReviewInv
<1> SUFFICES ASSUME Init PROVE ReviewInv
  OBVIOUS
<1>1. TypeOK
  BY InitType
<1>2. Len(log) = 0 /\ \A s \in Sessions : session[s].click = NoClick
  BY DEF Init
<1>3. \A r \in Rows : dd[r].status = dd[r].json.status /\ dd[r].expr = dd[r].json.expr
                      /\ dd[r].json.state # "APPROVED"
  <2>1. \A row \in Persisted : row.status = row.json.status /\ row.expr = row.json.expr
                               /\ row.json.state # "APPROVED"
    <3> TAKE row \in Persisted
    <3>1. CASE row = MakeRow("ACTIVE", "GENERATED", "derived")
      BY <3>1 DEF MakeRow
    <3>2. CASE row = MakeRow("PENDING_REVIEW", "NEEDS_REVIEW", "derived")
      BY <3>2 DEF MakeRow
    <3>3. CASE row = MakeRow("PENDING_REVIEW", "GENERATED", "derived")
      BY <3>3 DEF MakeRow
    <3>4. CASE row = MakeRow("PENDING_REVIEW", "UNSUPPORTED", "")
      BY <3>4 DEF MakeRow
    <3> QED BY <3>1, <3>2, <3>3, <3>4 DEF Persisted
  <2> QED BY <2>1 DEF Init
<1> QED BY <1>1, <1>2, <1>3 DEF ReviewInv, RowShowsItsLog, Settled, FreshClick, DecidesOnce

LEMMA InvNext == ReviewInv /\ [Next]_vars => ReviewInv'
<1> SUFFICES ASSUME ReviewInv, [Next]_vars PROVE ReviewInv'
  OBVIOUS
<1> USE DEF ReviewInv
<1>0. TypeOK'
  BY NextType
<1>1. ASSUME NEW t \in Threads, Export(t) PROVE ReviewInv'
  BY <1>0, <1>1, QuietStep DEF Export, ReadRows, OpenFile, CloseFile
<1>2. ASSUME NEW h \in Handlers, AnswerNobody(h) PROVE ReviewInv'
  BY <1>0, <1>2, QuietStep DEF AnswerNobody
<1>3. ASSUME NEW s \in Sessions, RunStarts(s) PROVE ReviewInv'
  <2>1. PICK h \in Handlers, click \in Click \cup {NoClick} : BeginRun(s, click, h)
    BY <1>3 DEF RunStarts
  <2>2. UNCHANGED <<dd, log>>
    BY <2>1 DEF BeginRun
  <2>3. RowShowsItsLog' /\ Settled' /\ DecidesOnce'
    BY <2>2 DEF RowShowsItsLog, LastOn, Decisions, Settled, DecidesOnce
  <2> QED BY <1>0, <2>1, <2>3, BeginFresh
<1>4. ASSUME NEW s \in Sessions, RunGoesOn(s) PROVE ReviewInv'
  <2>1. CASE Decide(s)
    BY <1>0, <2>1, DecideShown, DecideOnce
  <2>2. CASE Answer(s) \/ FetchLocally(s)
    <3>1. UNCHANGED <<dd, log>>
      BY <2>2 DEF Answer, FetchLocally, FetchFrom
    <3>2. \A u \in Sessions : session'[u].click = session[u].click
      <4>1. PICK read : session' = [session EXCEPT ![s] =
                [@ EXCEPT !.pc = "act", !.handler = "none", !.page = read]]
        BY <2>2 DEF Answer, FetchLocally, FetchFrom
      <4> QED BY <4>1 DEF TypeOK, SessionType
    <3> QED BY <1>0, <3>1, <3>2, QuietStep
  <2>3. CASE AskFails(s) \/ AskTimesOut(s)
    <3>1. \A u \in Sessions : session'[u].click = session[u].click
      <4>1. session' = [session EXCEPT ![s] = [@ EXCEPT !.pc = "local", !.handler = "none"]]
        BY <2>3 DEF AskFails, AskTimesOut
      <4> QED BY <4>1 DEF TypeOK, SessionType
    <3> QED BY <1>0, <2>3, <3>1, QuietStep DEF AskFails, AskTimesOut
  <2>4. CASE FinishRun(s) \/ Interrupt(s)
    <3>1. \A u \in Sessions : session'[u].click \in {session[u].click, NoClick}
      <4>1. CASE FinishRun(s)
        BY <4>1 DEF FinishRun, TypeOK, SessionType
      <4>2. CASE Interrupt(s)
        BY <4>2 DEF Interrupt, TypeOK, SessionType
      <4> QED BY <2>4, <4>1, <4>2
    <3> QED BY <1>0, <2>4, <3>1, QuietStep DEF FinishRun, Interrupt
  <2> QED BY <1>4, <2>1, <2>2, <2>3, <2>4 DEF RunGoesOn
<1>5. CASE UNCHANGED vars
  BY <1>0, <1>5, QuietStep DEF vars
<1> QED BY <1>1, <1>2, <1>3, <1>4, <1>5 DEF Next

\* The invariant of review: types, the log and the rows agree, no reviewer
\* decides twice.
THEOREM ReviewInvariant == Spec => []ReviewInv
<1>1. Init => ReviewInv
  BY InvInit
<1>2. ReviewInv /\ [Next]_vars => ReviewInv'
  BY InvNext
<1> QED BY <1>1, <1>2, PTL DEF Spec

\* The columns of a row, its row_json and its last decision agree, whatever
\* the reviewers do at the same time.
THEOREM ReviewLogIsShown == Spec => []RowShowsItsLog
<1>1. ReviewInv => RowShowsItsLog
  BY DEF ReviewInv
<1> QED BY <1>1, ReviewInvariant, PTL

\* No browser tab decides a row twice, however often its buttons are clicked.
THEOREM ReviewersDecideOnce == Spec => []DecidesOnce
<1>1. ReviewInv => DecidesOnce
  BY DEF ReviewInv
<1> QED BY <1>1, ReviewInvariant, PTL

-----------------------------------------------------------------------------
(* Sheets. *)

\* A row that was decided is not withheld any more.
Accepted == \A i \in 1..Len(log) : dd[log[i].row].json.state # "UNSUPPORTED"

\* A whole sheet is older than the log and shows what the log said by then.
SheetOK(x) == x.kind = "whole" => x.at \in 0..Len(log) /\ ShowsDecisions(x)

\* What sheet x says of row r after decision d; was: is the row's expression
\* the derived one?
Tells(x, r, d, was) ==
    /\ r \in DOMAIN x.lines =>
          x.lines[r].status = IF d.action = "REJECT" THEN "INACTIVE" ELSE "ACTIVE"
    /\ d.action = "EDIT" /\ d.text # "" =>
          IF d.text = "edited" THEN r \in DOMAIN x.lines /\ x.lines[r].expr = "edited"
                               ELSE r \notin DOMAIN x.lines
    /\ d.action = "REJECT" /\ was => r \in DOMAIN x.lines

ShowsAll(x, n, entry, table) ==
    \A r \in Rows, i \in 1..n :
        entry[i].row = r /\ i \in 1..x.at /\ (\A k \in 1..x.at : entry[k].row = r => k <= i)
          => Tells(x, r, entry[i], table[r].expr = "derived")

LEMMA ShowsIsShowsAll ==
    /\ \A x : ShowsDecisions(x) <=> ShowsAll(x, Len(log), log, dd)
    /\ \A x : ShowsDecisions(x)' <=> ShowsAll(x, Len(log'), log', dd')
<1>1. \A x, r, i : LastOn(r, x.at, i) <=>
        log[i].row = r /\ i \in 1..x.at /\ \A k \in 1..x.at : log[k].row = r => k <= i
  BY DEF LastOn, Decisions
<1>2. \A x, r, i : LastOn(r, x.at, i)' <=>
        log'[i].row = r /\ i \in 1..x.at /\ \A k \in 1..x.at : log'[k].row = r => k <= i
  BY DEF LastOn, Decisions
<1>3. \A x : ShowsDecisions(x) <=>
        \A r \in Rows, i \in 1..Len(log) :
          LastOn(r, x.at, i) => Tells(x, r, log[i], dd[r].expr = "derived")
  BY Zenon DEF ShowsDecisions, Tells
<1>4. \A x : ShowsDecisions(x)' <=>
        \A r \in Rows, i \in 1..Len(log') :
          LastOn(r, x.at, i)' => Tells(x, r, log'[i], dd'[r].expr = "derived")
  BY Zenon DEF ShowsDecisions, Tells
<1>5. \A x : ShowsDecisions(x) <=> ShowsAll(x, Len(log), log, dd)
  BY <1>1, <1>3, Zenon DEF ShowsAll
<1>6. \A x : ShowsDecisions(x)' <=> ShowsAll(x, Len(log'), log', dd')
  BY <1>2, <1>4, Zenon DEF ShowsAll
<1> QED BY <1>5, <1>6

\* What the file, the pages and the threads hold.
SheetsOK == /\ SheetOK(file)
            /\ \A s \in Sessions : SheetOK(session[s].page)
            /\ \A t \in Threads : SheetOK(writer[t].sheet)

\* What is exported now shows every decision.
LEMMA FreshSheet ==
    ASSUME TypeOK, RowShowsItsLog, Accepted
    PROVE  SheetOK([kind |-> "whole", at |-> Len(log), lines |-> Lines(dd)])
<1> DEFINE x == [kind |-> "whole", at |-> Len(log), lines |-> Lines(dd)]
<1>1. Len(log) \in Nat /\ \A i \in 1..Len(log) : log[i] \in Decision
  BY DEF TypeOK
<1>2. \A r \in Rows : /\ r \in DOMAIN x.lines <=> Exportable(Rebuilt(dd[r]))
                      /\ r \in DOMAIN x.lines => /\ x.lines[r].status = dd[r].status
                                                 /\ x.lines[r].expr = Rebuilt(dd[r]).expr
  BY DEF Lines, Rebuilt
<1>3. \A r \in Rows : dd[r].expr = dd[r].json.expr
  BY DEF RowShowsItsLog
<1>4. \A r \in Rows : Rebuilt(dd[r]).expr = dd[r].expr /\ Rebuilt(dd[r]).state = dd[r].json.state
  BY <1>3 DEF Rebuilt
<1>5. ASSUME NEW r \in Rows, NEW i \in 1..Len(log), LastOn(r, Len(log), i)
      PROVE  LET d == log[i] IN
        /\ r \in DOMAIN x.lines =>
              x.lines[r].status = IF d.action = "REJECT" THEN "INACTIVE" ELSE "ACTIVE"
        /\ d.action = "EDIT" /\ d.text # "" =>
              IF d.text = "edited" THEN r \in DOMAIN x.lines /\ x.lines[r].expr = "edited"
                                   ELSE r \notin DOMAIN x.lines
        /\ d.action = "REJECT" /\ dd[r].expr = "derived" => r \in DOMAIN x.lines
  <2>1. /\ dd[r].status = IF log[i].action = "REJECT" THEN "INACTIVE" ELSE "ACTIVE"
        /\ log[i].action = "EDIT" /\ log[i].text # "" => dd[r].expr = log[i].text
    BY <1>5 DEF RowShowsItsLog
  <2>2. dd[r].json.state # "UNSUPPORTED" /\ log[i].text \in Typed
    BY <1>1, <1>5 DEF Accepted, LastOn, Decisions, Decision
  <2>3. r \in DOMAIN x.lines <=> dd[r].expr \notin {"", "0"}
    BY <1>2, <1>4, <2>2 DEF Exportable
  <2> HIDE DEF x
  <2> QED BY <1>2, <1>4, <2>1, <2>2, <2>3 DEF Typed
<1>6. ShowsDecisions(x)
  <2>1. x.at = Len(log)
    OBVIOUS
  <2> HIDE DEF x
  <2> QED BY <1>5, <2>1 DEF ShowsDecisions
<1> QED BY <1>1, <1>6 DEF SheetOK

\* A decision says nothing about the sheets that were exported before.
LEMMA DecideKeepsSheets ==
    ASSUME TypeOK, NEW s \in Sessions, Decide(s), NEW x, SheetOK(x)
    PROVE  SheetOK(x)'
<1> SUFFICES ASSUME x.kind = "whole" PROVE x.at \in 0..Len(log') /\ ShowsDecisions(x)'
  BY DEF SheetOK
<1> DEFINE c == session[s].click
<1>1. /\ Len(log) \in Nat
      /\ c.row \in Rows
      /\ c.action \in Actions
      /\ c.text \in Typed
  BY DecideType DEF TypeOK
<1>2. /\ Len(log') = Len(log) + 1
      /\ \A i \in 1..Len(log) : log'[i] = log[i]
      /\ dd'[c.row] = Decided(dd[c.row], c.action, c.text)
      /\ \A r \in Rows \ {c.row} : dd'[r] = dd[r]
  BY DecideEffect
<1>3. x.at \in 0..Len(log) /\ ShowsDecisions(x)
  BY DEF SheetOK
<1>4. \A r \in Rows : dd'[r].expr = "derived" => dd[r].expr = "derived"
  <2>1. dd[c.row] \in RowType
    BY <1>1 DEF TypeOK
  <2>2. dd'[c.row].expr \in {c.text, dd[c.row].expr}
    BY <1>2, <2>1 DEF Decided, RowType
  <2> QED BY <1>1, <1>2, <2>2 DEF Typed
<1>5. x.at \in 0..Len(log')
  BY <1>1, <1>2, <1>3
<1>6. \A k \in 1..x.at : k \in 1..Len(log) /\ log'[k] = log[k]
  BY <1>1, <1>2, <1>3
<1> HIDE DEF c
<1>7. ASSUME ShowsAll(x, Len(log), log, dd), NEW r \in Rows, NEW i \in 1..Len(log'),
             log'[i].row = r, i \in 1..x.at, \A k \in 1..x.at : log'[k].row = r => k <= i
      PROVE  Tells(x, r, log'[i], dd'[r].expr = "derived")
  <2>1. i \in 1..Len(log) /\ log'[i] = log[i]
    BY <1>6, <1>7
  <2>2. Tells(x, r, log[i], dd[r].expr = "derived")
    BY <1>6, <1>7, <2>1 DEF ShowsAll
  <2> QED BY <1>4, <2>1, <2>2 DEF Tells
<1>8. ShowsAll(x, Len(log), log, dd) => ShowsAll(x, Len(log'), log', dd')
  BY <1>7 DEF ShowsAll
<1> QED BY <1>3, <1>5, <1>8, ShowsIsShowsAll

\* Decisions only accept or reject.
LEMMA DecideAccepts ==
    ASSUME TypeOK, RowShowsItsLog, Accepted, NEW s \in Sessions, Decide(s)
    PROVE  Accepted'
<1> DEFINE c == session[s].click
           n == Len(log)
<1>0. /\ n \in Nat
      /\ c.row \in Rows
      /\ \A i \in 1..n : log[i].row \in Rows
  <2>1. n \in Nat /\ \A i \in 1..n : log[i] \in Decision
    BY DEF TypeOK
  <2> QED BY <2>1, DecideType DEF Decision
<1>1. /\ Len(log') = n + 1
      /\ \A i \in 1..n : log'[i] = log[i]
      /\ log'[n + 1].row = c.row
      /\ dd'[c.row] = Decided(dd[c.row], c.action, c.text)
      /\ \A r \in Rows \ {c.row} : dd'[r] = dd[r]
  <2>1. log'[n + 1] = [by |-> s, row |-> c.row, action |-> c.action, text |-> c.text]
    BY DecideEffect
  <2>2. log'[n + 1].row = c.row
    BY <2>1
  <2> QED BY <2>2, DecideEffect
<1>2. dd'[c.row].json.state # "UNSUPPORTED"
  <2>1. dd[c.row] \in RowType /\ dd[c.row].expr = dd[c.row].json.expr
    BY <1>0 DEF TypeOK, RowShowsItsLog
  <2>2. Shows(dd'[c.row], c.action, c.text)
    BY <1>1, <2>1, DecideType, DecidedFields
  <2> QED BY <2>2 DEF Shows
<1>3. ASSUME NEW i \in 1..(n + 1)
      PROVE  dd'[log'[i].row].json.state # "UNSUPPORTED"
  <2>1. CASE i = n + 1
    BY <1>1, <1>2, <2>1
  <2>2. CASE i \in 1..n
    BY <1>0, <1>1, <1>2, <2>2 DEF Accepted
  <2> QED BY <1>0, <2>1, <2>2
<1> QED BY <1>1, <1>3 DEF Accepted

\* A step that leaves table and log alone moves sheets around, or reads one.
LEMMA SheetsMove ==
    ASSUME SheetsOK, UNCHANGED <<dd, log>>, NEW fresh, SheetOK(fresh),
           file' \in {file, fresh, Absent, Empty, Mixed} \cup {writer[t].sheet : t \in Threads},
           \A t \in Threads : writer'[t].sheet \in {writer[t].sheet, fresh, Absent},
           \A s \in Sessions : session'[s].page \in {session[s].page, file, Absent, Mixed}
    PROVE  SheetsOK'
<1>1. log' = log /\ dd' = dd
  OBVIOUS
<1>2. SheetOK(Absent) /\ SheetOK(Empty) /\ SheetOK(Mixed)
  BY DEF SheetOK, Absent, Empty, Mixed, Blank
<1>3. SheetOK(file') /\ (\A t \in Threads : SheetOK(writer'[t].sheet))
      /\ (\A s \in Sessions : SheetOK(session'[s].page))
  BY <1>2 DEF SheetsOK
<1> HIDE DEF SheetsOK
<1>4. SheetOK(file)' /\ (\A t \in Threads : SheetOK(writer[t].sheet)')
      /\ (\A s \in Sessions : SheetOK(session[s].page)')
  BY <1>1, <1>3, ShowsIsShowsAll DEF SheetOK
<1> QED BY <1>4 DEF SheetsOK

LEMMA InitSheets == Init => Accepted /\ SheetsOK
<1> SUFFICES ASSUME Init PROVE Accepted /\ SheetsOK
  OBVIOUS
<1>1. SheetOK(Absent)
  BY DEF SheetOK, Absent, Blank
<1>2. file = Absent /\ (\A t \in Threads : writer[t].sheet = Absent)
      /\ (\A s \in Sessions : session[s].page = Absent)
  BY DEF Init, NoExport
<1>3. Accepted
  BY DEF Init, Accepted
<1> QED BY <1>1, <1>2, <1>3 DEF SheetsOK

LEMMA NextSheets ==
    ASSUME ReviewInv, Accepted, SheetsOK, [Next]_vars
    PROVE  Accepted' /\ SheetsOK'
<1> DEFINE fresh == [kind |-> "whole", at |-> Len(log), lines |-> Lines(dd)]
<1>0. TypeOK /\ RowShowsItsLog /\ SheetOK(fresh)
  BY FreshSheet DEF ReviewInv
<1> HIDE DEF fresh
<1>1. ASSUME UNCHANGED <<dd, log>> PROVE Accepted'
  BY <1>1 DEF Accepted
<1>2. ASSUME NEW t \in Threads, Export(t) PROVE Accepted' /\ SheetsOK'
  <2>1. UNCHANGED <<dd, log, session>>
    BY <1>2 DEF Export, ReadRows, OpenFile, CloseFile
  <2>2. \A u \in Threads : writer'[u].sheet \in {writer[u].sheet, fresh}
    BY <1>0, <1>2 DEF Export, ReadRows, OpenFile, CloseFile, TypeOK, WriterType, fresh
  <2>3. file' \in {file, Empty, Mixed, writer[t].sheet}
    BY <1>2 DEF Export, ReadRows, OpenFile, CloseFile
  <2> QED BY <1>0, <1>1, <2>1, <2>2, <2>3, SheetsMove
<1>3. ASSUME UNCHANGED <<dd, log, file>>,
             \A u \in Threads : writer'[u].sheet \in {writer[u].sheet, Absent},
             \A u \in Sessions : session'[u].page \in {session[u].page, file, Absent, Mixed}
      PROVE  Accepted' /\ SheetsOK'
  BY <1>0, <1>1, <1>3, SheetsMove
<1>4. NoExport.sheet = Absent
  BY DEF NoExport
<1>5. ASSUME NEW h \in Handlers, AnswerNobody(h) PROVE Accepted' /\ SheetsOK'
  BY <1>0, <1>3, <1>4, <1>5 DEF AnswerNobody, TypeOK
<1>6. ASSUME NEW s \in Sessions, RunStarts(s) PROVE Accepted' /\ SheetsOK'
  BY <1>0, <1>3, <1>6 DEF RunStarts, BeginRun, TypeOK, WriterType, SessionType
<1>7. ASSUME NEW s \in Sessions, RunGoesOn(s) PROVE Accepted' /\ SheetsOK'
  <2>1. CASE Answer(s) \/ FetchLocally(s)
    <3>1. PICK t : FetchFrom(s, t)
      BY <2>1 DEF Answer, FetchLocally
    <3>2. \A u \in Threads : writer'[u].sheet \in {writer[u].sheet, Absent}
      BY <1>0, <1>4, <3>1 DEF FetchFrom, TypeOK
    <3>3. \A u \in Sessions : session'[u].page \in {session[u].page, file, Mixed}
      BY <1>0, <3>1 DEF FetchFrom, TypeOK, SessionType
    <3> QED BY <1>3, <3>1, <3>2, <3>3 DEF FetchFrom
  <2>2. CASE AskFails(s) \/ AskTimesOut(s)
    <3>1. session' = [session EXCEPT ![s] = [@ EXCEPT !.pc = "local", !.handler = "none"]]
      BY <2>2 DEF AskFails, AskTimesOut
    <3>2. \A u \in Sessions : session'[u].page = session[u].page
      BY <1>0, <3>1 DEF TypeOK, SessionType
    <3>3. \A u \in Threads : writer'[u].sheet \in {writer[u].sheet, Absent}
      <4>1. CASE AskFails(s)
        <5> DEFINE w == [writer EXCEPT ![session[s].handler] = NoExport]
        <5>1. \A u \in Threads : w[u] \in {writer[u], NoExport}
          BY <1>0 DEF TypeOK
        <5>2. writer' = [w EXCEPT ![s].pc = "asked"] /\ DOMAIN w = Threads
          BY <1>0, <4>1 DEF AskFails, TypeOK
        <5>3. \A u \in Threads : w[u] \in WriterType
          BY <1>0, <5>1 DEF TypeOK, NoExport, WriterType, Content
        <5> HIDE DEF w
        <5>4. \A u \in Threads : writer'[u].sheet = w[u].sheet
          BY <5>2, <5>3 DEF WriterType
        <5> QED BY <1>4, <5>1, <5>4
      <4>2. CASE AskTimesOut(s)
        BY <1>0, <4>2 DEF AskTimesOut, TypeOK, WriterType
      <4> QED BY <2>2, <4>1, <4>2
    <3> QED BY <1>3, <2>2, <3>2, <3>3 DEF AskFails, AskTimesOut
  <2>4. CASE FinishRun(s) \/ Interrupt(s)
    <3>1. \A u \in Sessions : session'[u].page = session[u].page
      <4>1. CASE FinishRun(s)
        BY <1>0, <4>1 DEF FinishRun, TypeOK, SessionType
      <4>2. CASE Interrupt(s)
        BY <1>0, <4>2 DEF Interrupt, TypeOK, SessionType
      <4> QED BY <2>4, <4>1, <4>2
    <3> QED BY <1>3, <2>4, <3>1 DEF FinishRun, Interrupt
  <2>5. CASE Decide(s)
    <3>1. Accepted'
      BY <1>0, <2>5, DecideAccepts
    <3>2. \A x : SheetOK(x) => SheetOK(x)'
      BY <1>0, <2>5, DecideKeepsSheets
    <3>3. file' = file /\ writer' = writer
          /\ \A u \in Sessions : session'[u].page = session[u].page
      BY <1>0, <2>5 DEF Decide, TypeOK, SessionType
    <3>4. SheetOK(file)' /\ (\A t \in Threads : SheetOK(writer[t].sheet)')
          /\ (\A u \in Sessions : SheetOK(session[u].page)')
      BY <3>2, <3>3, ShowsIsShowsAll DEF SheetsOK, SheetOK
    <3> QED BY <3>1, <3>4 DEF SheetsOK
  <2> QED BY <1>7, <2>1, <2>2, <2>4, <2>5 DEF RunGoesOn
<1>8. CASE UNCHANGED vars
  BY <1>3, <1>8 DEF vars
<1> QED BY <1>2, <1>5, <1>6, <1>7, <1>8 DEF Next

LEMMA SheetsInvariant == Spec => [](ReviewInv /\ Accepted /\ SheetsOK)
BY InvInit, InvNext, InitSheets, NextSheets, PTL DEF Spec

\* Every whole file and every page shows, of each row, the last of the
\* decisions it was exported after, whoever else decides or exports meanwhile.
THEOREM SheetsShow == Spec => []SheetsShowDecisions
<1>1. SheetsOK => SheetsShowDecisions
  BY DEF SheetsOK, SheetOK, SheetsShowDecisions
<1> QED BY <1>1, SheetsInvariant, PTL

-----------------------------------------------------------------------------
(* Pages. *)

\* The thread that exports for session s.
Own(s) == IF session[s].pc = "asking" THEN session[s].handler ELSE s

\* A session's request is served as long as it waits; the session exports
\* itself exactly while it waits for that.
Served(s) ==
    /\ session[s].pc = "asking" => writer[session[s].handler].pc # "idle"
    /\ session[s].pc = "local" <=> writer[s].pc # "idle"
    /\ session[s].pc = "local" => session[s].handler = "none"
    /\ Waiting(s) => session[s].page = Absent
    /\ session[s].asked <= Len(log)

\* No handler serves two sessions.
Apart == \A s, u \in Sessions :
            s # u /\ session[s].pc = "asking" /\ session[u].pc = "asking"
              => session[s].handler # session[u].handler

\* No thread but the session's own has read the rows and not closed the file.
Quiet(s) == \A t \in Threads \ {Own(s)} : writer[t].pc \notin {"read", "open"}

\* Nobody else is at the file, what the thread carries has every decision the
\* run began after, and what it has written is still there.
Alone(s) ==
    LET w == writer[Own(s)] IN
    /\ Quiet(s)
    /\ w.pc \in {"read", "open", "done"} =>
         w.sheet.kind = "whole" /\ w.sheet.at >= session[s].asked
    /\ w.pc = "open" => file = Empty
    /\ w.pc = "done" => file = w.sheet

GoodPage(s) == \/ session[s].page.kind = "absent"
               \/ session[s].page.kind = "whole" /\ session[s].page.at >= session[s].asked

Undisturbed(s) == ~disturbed[s] => GoodPage(s) /\ (Waiting(s) => Alone(s))

ServingInv == Apart /\ \A s \in Sessions : Served(s)

LEMMA OwnThreads ==
    ASSUME TypeOK, NEW s \in Sessions
    PROVE  /\ s \in Threads /\ s \notin Handlers
           /\ session[s].pc = "asking" => session[s].handler \in Handlers
           /\ Own(s) \in Threads
BY ReviewAssumption DEF TypeOK, Threads, Own

\* How the steps that take a session on change threads and sessions.
LEMMA ServingKept ==
    ASSUME TypeOK, TypeOK', ServingInv, [Next]_vars
    PROVE  ServingInv'
<1>0. \A s \in Sessions : Served(s)
  BY DEF ServingInv
<1> USE DEF TypeOK, Threads
<1>1. ASSUME NEW t \in Threads, Export(t) PROVE ServingInv'
  <2>1. session' = session /\ log' = log
    BY <1>1 DEF Export, ReadRows, OpenFile, CloseFile
  <2>2. \A u \in Threads : writer'[u].pc = "idle" <=> writer[u].pc = "idle"
    BY <1>1 DEF Export, ReadRows, OpenFile, CloseFile, WriterType
  <2> QED BY <2>1, <2>2, <1>0, OwnThreads DEF ServingInv, Served, Apart, Waiting
<1>2. ASSUME NEW h \in Handlers, AnswerNobody(h) PROVE ServingInv'
  <2>1. session' = session /\ log' = log /\ \A u \in Threads \ {h} : writer'[u] = writer[u]
    BY <1>2 DEF AnswerNobody
  <2>2. \A s \in Sessions : s # h /\ session[s].handler # h
    BY <1>2, OwnThreads DEF AnswerNobody
  <2> QED BY <2>1, <2>2, <1>0, OwnThreads DEF ServingInv, Served, Apart, Waiting
<1>3. ASSUME NEW s \in Sessions, NEW h \in Handlers, NEW click, BeginRun(s, click, h)
      PROVE  ServingInv'
  <2>1. /\ session[s].pc \in {"shown", "rerun"} /\ writer[h].pc = "idle" /\ log' = log
        /\ \A u \in Sessions \ {s} : session'[u] = session[u]
        /\ \A u \in Threads \ {h} : writer'[u] = writer[u]
        /\ writer'[h].pc = "asked"
    BY <1>3 DEF BeginRun, WriterType
  <2>2. session'[s].pc = "asking" /\ session'[s].handler = h /\ session'[s].page = Absent
        /\ session'[s].asked = Len(log)
    BY <1>3 DEF BeginRun, SessionType
  <2>3. Len(log) \in Nat /\ h \notin Sessions
    BY ReviewAssumption
  <2>4. \A u \in Sessions \ {s} : session[u].pc = "asking" => session[u].handler # h
    BY <2>1, <1>0 DEF Served
  <2>5. ASSUME NEW u \in Sessions PROVE Served(u)'
    <3>1. CASE u = s
      BY <3>1, <2>1, <2>2, <2>3, <1>0 DEF Served, Waiting
    <3>2. CASE u # s
      BY <3>2, <2>1, <2>3, <2>4, <1>0, OwnThreads DEF Served, Waiting
    <3> QED BY <3>1, <3>2
  <2>6. Apart'
    BY <2>1, <2>2, <2>4 DEF ServingInv, Apart
  <2> QED BY <2>5, <2>6 DEF ServingInv
<1>4. ASSUME NEW s \in Sessions, FetchFrom(s, Own(s)), Waiting(s) PROVE ServingInv'
  <2>1. /\ log' = log /\ session'[s].pc = "act" /\ session'[s].asked = session[s].asked
        /\ \A u \in Sessions \ {s} : session'[u] = session[u]
        /\ \A u \in Threads \ {Own(s)} : writer'[u] = writer[u]
        /\ writer'[Own(s)].pc = "idle"
    BY <1>4, OwnThreads DEF FetchFrom, SessionType, NoExport
  <2>2. ASSUME NEW u \in Sessions, u # s
        PROVE u # Own(s) /\ (session[u].pc = "asking" => session[u].handler # Own(s))
    BY <2>2, <1>4, OwnThreads DEF Own, ServingInv, Apart
  <2>3. ASSUME NEW u \in Sessions PROVE Served(u)'
    <3>1. CASE u = s
      <4>1. writer'[s].pc = "idle"
        BY <2>1, <1>0, <1>4, OwnThreads DEF Served, Own, Waiting
      <4> QED BY <3>1, <4>1, <2>1, <1>0 DEF Served, Waiting
    <3>2. CASE u # s
      BY <3>2, <2>1, <2>2, <1>0, OwnThreads DEF Served, Waiting
    <3> QED BY <3>1, <3>2
  <2>4. Apart'
    BY <2>1 DEF ServingInv, Apart
  <2> QED BY <2>3, <2>4 DEF ServingInv
<1>5. ASSUME NEW s \in Sessions, AskFails(s) \/ AskTimesOut(s) PROVE ServingInv'
  <2>0. session' = [session EXCEPT ![s] = [@ EXCEPT !.pc = "local", !.handler = "none"]]
        /\ log' = log /\ session[s].pc = "asking"
    BY <1>5 DEF AskFails, AskTimesOut
  <2>1. /\ session'[s].pc = "local" /\ session'[s].handler = "none"
        /\ session'[s].page = session[s].page /\ session'[s].asked = session[s].asked
        /\ \A u \in Sessions \ {s} : session'[u] = session[u]
    BY <2>0 DEF SessionType
  <2>2. /\ writer'[s].pc # "idle"
        /\ \A u \in Threads \ {s, session[s].handler} : writer'[u] = writer[u]
    BY <1>5, OwnThreads DEF AskFails, AskTimesOut, WriterType
  <2>3. ASSUME NEW u \in Sessions, u # s
        PROVE  /\ u # session[s].handler
               /\ session[u].pc = "asking" =>
                    session[u].handler # session[s].handler /\ session[u].handler # s
    BY <2>3, <2>0, OwnThreads DEF ServingInv, Apart
  <2>4. ASSUME NEW u \in Sessions PROVE Served(u)'
    <3>1. CASE u = s
      BY <3>1, <2>0, <2>1, <2>2, <1>0 DEF Served, Waiting
    <3>2. CASE u # s
      BY <3>2, <2>0, <2>1, <2>2, <2>3, <1>0, OwnThreads DEF Served, Waiting
    <3> QED BY <3>1, <3>2
  <2>5. Apart'
    BY <2>1 DEF ServingInv, Apart
  <2> QED BY <2>4, <2>5 DEF ServingInv
<1>6. ASSUME NEW s \in Sessions, Decide(s) \/ FinishRun(s) \/ Interrupt(s) PROVE ServingInv'
  <2>1. /\ session[s].pc = "act" /\ session'[s].pc \in {"rerun", "shown"}
        /\ session'[s].asked = session[s].asked
    <3>1. CASE Decide(s)
      BY <3>1 DEF Decide, SessionType
    <3>2. CASE FinishRun(s)
      BY <3>2 DEF FinishRun, SessionType
    <3>3. CASE Interrupt(s)
      BY <3>3 DEF Interrupt, SessionType
    <3> QED BY <1>6, <3>1, <3>2, <3>3
  <2>2. writer' = writer /\ \A u \in Sessions \ {s} : session'[u] = session[u]
    BY <1>6 DEF Decide, FinishRun, Interrupt
  <2>3. Len(log') >= Len(log) /\ Len(log) \in Nat /\ Len(log') \in Nat
    <3>0. Len(log) \in Nat /\ Len(log') \in Nat
      OBVIOUS
    <3>1. CASE Decide(s)
      <4>1. Len(log') = Len(log) + 1
        BY <3>1, DecideEffect
      <4> QED BY <3>0, <4>1
    <3>2. CASE FinishRun(s) \/ Interrupt(s)
      BY <3>0, <3>2 DEF FinishRun, Interrupt
    <3> QED BY <1>6, <3>0, <3>1, <3>2
  <2>4. \A u \in Sessions : session[u].asked \in Nat
    BY DEF SessionType
  <2>5. ASSUME NEW u \in Sessions PROVE Served(u)'
    <3>1. CASE u = s
      BY <3>1, <2>1, <2>2, <2>3, <2>4, <1>0 DEF Served, Waiting
    <3>2. CASE u # s
      BY <3>2, <2>2, <2>3, <2>4, <1>0 DEF Served, Waiting
    <3> QED BY <3>1, <3>2
  <2>6. Apart'
    BY <2>1, <2>2 DEF ServingInv, Apart
  <2> QED BY <2>5, <2>6 DEF ServingInv
<1>7. ASSUME UNCHANGED vars PROVE ServingInv'
  BY <1>7, <1>0 DEF vars, ServingInv, Served, Apart, Waiting
<1>8. \A s \in Sessions : (Answer(s) \/ FetchLocally(s)) => FetchFrom(s, Own(s)) /\ Waiting(s)
  BY DEF Answer, FetchLocally, Own, Waiting
<1> QED BY <1>1, <1>2, <1>3, <1>4, <1>5, <1>6, <1>7, <1>8 DEF Next, RunStarts, RunGoesOn

LEMMA QuietIsNoOther ==
    ASSUME NEW s \in Sessions
    PROVE  (Served(s) /\ Waiting(s) /\ ~OtherExport(s) => Quiet(s))'
<1>1. "none" \notin Threads
  BY ReviewAssumption DEF Threads
<1> QED BY <1>1 DEF Quiet, OtherExport, Own, Waiting, Served

\* A session stays alone until somebody else exports.
LEMMA AloneKept ==
    ASSUME TypeOK, TypeOK', ServingInv, [Next]_vars, NEW s \in Sessions,
           Waiting(s), Waiting(s)', Alone(s), Quiet(s)'
    PROVE  Alone(s)'
<1>0. Served(s) /\ Len(log) \in Nat /\ Own(s) \in Threads
  BY OwnThreads DEF ServingInv, TypeOK
<1> USE DEF TypeOK, Threads
<1>a. ASSUME session'[s].pc = session[s].pc, session'[s].handler = session[s].handler,
             session'[s].asked = session[s].asked,
             writer'[Own(s)] = writer[Own(s)], file' = file
      PROVE  Alone(s)'
  <2>1. Own(s)' = Own(s)
    BY <1>a DEF Own
  <2> QED BY <1>a, <2>1 DEF Alone, Quiet
<1>1. ASSUME NEW t \in Threads, Export(t) PROVE Alone(s)'
  <2>1. session' = session /\ Own(s)' = Own(s)
    BY <1>1 DEF Export, ReadRows, OpenFile, CloseFile, Own
  <2>2. CASE t # Own(s)
    <3>1. writer[t].pc \notin {"read", "open"} /\ writer'[t].pc \notin {"read", "open"}
      BY <2>1, <2>2 DEF Alone, Quiet
    <3> QED BY <1>1, <3>1 DEF Export, ReadRows, OpenFile, CloseFile, WriterType
  <2>3. CASE t = Own(s) /\ ReadRows(t)
    <3>1. writer'[t].pc = "read" /\ writer'[t].sheet.kind = "whole"
          /\ writer'[t].sheet.at = Len(log)
      BY <2>3 DEF ReadRows, WriterType
    <3>2. session[s].asked <= Len(log) /\ session[s].asked \in Nat
      BY <1>0 DEF Served, SessionType
    <3> QED BY <1>0, <2>1, <2>3, <3>1, <3>2 DEF Alone, Quiet
  <2>4. CASE t = Own(s) /\ OpenFile(t)
    <3>1. ~OthersWriting(t)
      BY <2>4 DEF Alone, Quiet, OthersWriting
    <3>2. writer'[t].pc = "open" /\ writer'[t].sheet = writer[t].sheet /\ writer[t].pc = "read"
          /\ file' = Empty
      BY <2>4, <3>1 DEF OpenFile, WriterType
    <3> QED BY <2>1, <2>4, <3>2 DEF Alone, Quiet
  <2>5. CASE t = Own(s) /\ CloseFile(t)
    <3>1. writer'[t].pc = "done" /\ writer'[t].sheet = writer[t].sheet /\ writer[t].pc = "open"
      BY <2>5 DEF CloseFile, WriterType
    <3>2. file' = writer[t].sheet
      BY <2>5, <3>1 DEF CloseFile, Alone, Quiet
    <3> QED BY <2>1, <2>5, <3>1, <3>2 DEF Alone, Quiet
  <2> QED BY <1>1, <2>2, <2>3, <2>4, <2>5 DEF Export
<1>2. ASSUME NEW h \in Handlers, AnswerNobody(h) PROVE Alone(s)'
  <2>1. Own(s) # h
    BY <1>2, OwnThreads DEF AnswerNobody, Own
  <2> QED BY <1>a, <1>2, <2>1, <1>0 DEF AnswerNobody
<1>3. ASSUME NEW u \in Sessions, NEW h \in Handlers, NEW click, BeginRun(u, click, h)
      PROVE  Alone(s)'
  <2>1. u # s
    BY <1>3 DEF BeginRun, Waiting
  <2>2. Own(s) # h
    BY <1>0, <1>3, OwnThreads DEF BeginRun, Own, Served, Waiting
  <2> QED BY <1>a, <1>3, <2>1, <2>2, <1>0 DEF BeginRun
<1>4. ASSUME NEW u \in Sessions, FetchFrom(u, Own(u)), Waiting(u) PROVE Alone(s)'
  <2>1. u # s
    BY <1>4 DEF FetchFrom, Waiting, SessionType
  <2>2. Own(s) # Own(u)
    BY <1>4, <2>1, OwnThreads DEF Own, Waiting, ServingInv, Apart
  <2> QED BY <1>a, <1>4, <2>1, <2>2, <1>0 DEF FetchFrom
<1>5. ASSUME NEW u \in Sessions, AskFails(u) \/ AskTimesOut(u) PROVE Alone(s)'
  <2>1. session' = [session EXCEPT ![u] = [@ EXCEPT !.pc = "local", !.handler = "none"]]
        /\ file' = file /\ session[u].pc = "asking"
    BY <1>5 DEF AskFails, AskTimesOut
  <2>2. CASE u = s
    <3>1. Own(s)' = s
      BY <2>1, <2>2 DEF Own, SessionType
    <3>2. writer'[s].pc = "asked"
      BY <1>5, <2>2, OwnThreads DEF AskFails, AskTimesOut, WriterType
    <3> QED BY <3>1, <3>2 DEF Alone, Quiet
  <2>3. CASE u # s
    <3>1. Own(s) # u /\ Own(s) # session[u].handler
      BY <2>1, <2>3, OwnThreads DEF Own, Waiting, ServingInv, Apart
    <3>2. writer'[Own(s)] = writer[Own(s)]
      BY <1>0, <1>5, <3>1 DEF AskFails, AskTimesOut
    <3> QED BY <1>a, <2>1, <2>3, <3>2
  <2> QED BY <2>2, <2>3
<1>6. ASSUME NEW u \in Sessions, Decide(u) \/ FinishRun(u) \/ Interrupt(u) PROVE Alone(s)'
  <2>1. u # s
    BY <1>6 DEF Decide, FinishRun, Interrupt, Waiting
  <2>2. session'[s] = session[s] /\ writer' = writer /\ file' = file
    BY <1>6, <2>1 DEF Decide, FinishRun, Interrupt
  <2> QED BY <1>a, <2>2
<1>7. CASE UNCHANGED vars
  BY <1>a, <1>7 DEF vars
<1>8. \A u \in Sessions : (Answer(u) \/ FetchLocally(u)) => FetchFrom(u, Own(u)) /\ Waiting(u)
  BY DEF Answer, FetchLocally, Own, Waiting
<1> QED BY <1>1, <1>2, <1>3, <1>4, <1>5, <1>6, <1>7, <1>8 DEF Next, RunStarts, RunGoesOn

\* A run begins without a sheet.
LEMMA AloneBegins ==
    ASSUME TypeOK, TypeOK', [Next]_vars, NEW s \in Sessions,
           ~Waiting(s), Waiting(s)', Quiet(s)'
    PROVE  Alone(s)'
<1> USE DEF TypeOK, Threads, Waiting
<1>1. ASSUME NEW u \in Sessions, NEW h \in Handlers, NEW click, BeginRun(u, click, h)
      PROVE  Alone(s)'
  <2>1. u = s
    BY <1>1 DEF BeginRun
  <2>2. Own(s)' = h
    BY <1>1, <2>1 DEF BeginRun, Own, SessionType
  <2>3. writer'[h].pc = "asked"
    BY <1>1 DEF BeginRun, WriterType
  <2> QED BY <2>2, <2>3 DEF Alone, Quiet
<1>2. ASSUME NEW u \in Sessions, RunGoesOn(u) PROVE session'[s].pc = session[s].pc \/ ~Waiting(s)'
  <2>1. \A v \in Sessions \ {u} : session'[v] = session[v]
    BY <1>2 DEF RunGoesOn, Answer, FetchLocally, FetchFrom, AskFails, AskTimesOut, Decide,
                FinishRun, Interrupt
  <2>2. CASE u = s
    <3>1. CASE AskFails(s) \/ AskTimesOut(s) \/ Answer(s) \/ FetchLocally(s)
      BY <3>1 DEF Answer, FetchLocally, AskFails, AskTimesOut
    <3>2. CASE Decide(s)
      BY <3>2 DEF Decide, SessionType
    <3>3. CASE FinishRun(s)
      BY <3>3 DEF FinishRun, SessionType
    <3>4. CASE Interrupt(s)
      BY <3>4 DEF Interrupt, SessionType
    <3> QED BY <1>2, <2>2, <3>1, <3>2, <3>3, <3>4 DEF RunGoesOn
  <2> QED BY <2>1, <2>2
<1>3. ASSUME session' = session PROVE FALSE
  BY <1>3
<1>4. CASE \E t \in Threads : Export(t)
  BY <1>3, <1>4 DEF Export, ReadRows, OpenFile, CloseFile
<1>5. CASE \E h \in Handlers : AnswerNobody(h)
  BY <1>3, <1>5 DEF AnswerNobody
<1>6. CASE UNCHANGED vars
  BY <1>3, <1>6 DEF vars
<1> QED BY <1>1, <1>2, <1>4, <1>5, <1>6 DEF Next, RunStarts

\* A page is taken from the file that the session's own export left.
LEMMA PageKept ==
    ASSUME TypeOK, [Next]_vars, NEW s \in Sessions,
           GoodPage(s), Waiting(s) => Alone(s)
    PROVE  GoodPage(s)'
<1> USE DEF TypeOK, Threads
<1>0. Absent.kind = "absent"
  BY DEF Absent, Blank
<1>a. ASSUME session'[s].page = session[s].page, session'[s].asked = session[s].asked
      PROVE  GoodPage(s)'
  BY <1>a DEF GoodPage
<1>1. ASSUME NEW u \in Sessions, NEW h \in Handlers, NEW click, BeginRun(u, click, h)
      PROVE  GoodPage(s)'
  <2>1. CASE u = s
    BY <1>0, <1>1, <2>1 DEF BeginRun, GoodPage, SessionType
  <2>2. CASE u # s
    BY <1>a, <1>1, <2>2 DEF BeginRun
  <2> QED BY <2>1, <2>2
<1>2. ASSUME NEW u \in Sessions, FetchFrom(u, Own(u)), Waiting(u) PROVE GoodPage(s)'
  <2>1. CASE u = s
    <3>1. session'[s].page = file /\ session'[s].asked = session[s].asked
      <4>1. ~OthersWriting(Own(s))
        BY <1>2, <2>1 DEF OthersWriting, Alone, Quiet
      <4> QED
        BY <1>2, <2>1, <4>1 DEF FetchFrom, SessionType
    <3>2. file.kind = "whole" /\ file.at >= session[s].asked
      BY <1>2, <2>1 DEF FetchFrom, Alone, Quiet
    <3> QED BY <3>1, <3>2 DEF GoodPage
  <2>2. CASE u # s
    BY <1>a, <1>2, <2>2 DEF FetchFrom
  <2> QED BY <2>1, <2>2
<1>3. ASSUME NEW u \in Sessions, AskFails(u) \/ AskTimesOut(u) PROVE GoodPage(s)'
  <2>1. session' = [session EXCEPT ![u] = [@ EXCEPT !.pc = "local", !.handler = "none"]]
    BY <1>3 DEF AskFails, AskTimesOut
  <2> QED BY <1>a, <2>1 DEF SessionType
<1>4. ASSUME NEW u \in Sessions, Decide(u) PROVE GoodPage(s)'
  BY <1>a, <1>4 DEF Decide, SessionType
<1>5. ASSUME NEW u \in Sessions, FinishRun(u) PROVE GoodPage(s)'
  BY <1>a, <1>5 DEF FinishRun, SessionType
<1>6. ASSUME NEW u \in Sessions, Interrupt(u) PROVE GoodPage(s)'
  BY <1>a, <1>6 DEF Interrupt, SessionType
<1>7. CASE \E t \in Threads : Export(t)
  BY <1>a, <1>7 DEF Export, ReadRows, OpenFile, CloseFile
<1>8. CASE \E h \in Handlers : AnswerNobody(h)
  BY <1>a, <1>8 DEF AnswerNobody
<1>9. CASE UNCHANGED vars
  BY <1>a, <1>9 DEF vars
<1>10. \A u \in Sessions : (Answer(u) \/ FetchLocally(u)) => FetchFrom(u, Own(u)) /\ Waiting(u)
  BY DEF Answer, FetchLocally, Own, Waiting
<1> QED BY <1>1, <1>2, <1>3, <1>4, <1>5, <1>6, <1>7, <1>8, <1>9, <1>10
        DEF Next, RunStarts, RunGoesOn

PagesInv == ServingInv /\ \A s \in Sessions : Undisturbed(s)

LEMMA InitPages == PagesInit => PagesInv
<1> SUFFICES ASSUME PagesInit PROVE PagesInv
  OBVIOUS
<1> USE DEF PagesInit, Init, Waiting
<1>1. Len(log) = 0 /\ NoExport.pc = "idle" /\ Absent.kind = "absent"
  BY DEF NoExport, Absent, Blank
<1>2. \A s \in Sessions : session[s].pc = "rerun" /\ session[s].asked = 0
                          /\ session[s].page = Absent /\ writer[s] = NoExport
  BY DEF Threads
<1> QED BY <1>1, <1>2 DEF PagesInv, ServingInv, Apart, Served, Undisturbed, GoodPage

LEMMA NextPages ==
    ASSUME ReviewInv, PagesInv, [PagesNext]_<<vars, disturbed>>
    PROVE  PagesInv'
<1>0. TypeOK /\ TypeOK' /\ ServingInv /\ [Next]_vars
  BY NextType DEF ReviewInv, PagesInv, PagesNext, vars
<1>1. ServingInv'
  BY <1>0, ServingKept
<1>2. ASSUME NEW s \in Sessions PROVE Undisturbed(s)'
  <2>1. CASE PagesNext
    <3>1. disturbed'[s] <=> IF Waiting(s)' THEN (Waiting(s) /\ disturbed[s]) \/ OtherExport(s)'
                                          ELSE disturbed[s]
      BY <2>1, Zenon DEF PagesNext
    <3> SUFFICES ASSUME ~disturbed'[s] PROVE GoodPage(s)' /\ (Waiting(s)' => Alone(s)')
      BY DEF Undisturbed
    <3>2. /\ Waiting(s)' => ~OtherExport(s)'
          /\ Waiting(s) \/ ~Waiting(s)' => ~disturbed[s]
      BY <3>1
    <3>3. CASE Waiting(s)'
      <4>1. Served(s)' /\ Quiet(s)'
        BY <1>1, <3>2, <3>3, QuietIsNoOther DEF ServingInv
      <4>2. GoodPage(s)'
        BY <3>3, <4>1 DEF Served, GoodPage, Absent, Blank
      <4>3. CASE Waiting(s)
        <5>1. Alone(s)
          BY <3>2, <4>3 DEF PagesInv, Undisturbed
        <5> QED BY <1>0, <3>3, <4>1, <4>2, <4>3, <5>1, AloneKept
      <4>4. CASE ~Waiting(s)
        BY <1>0, <3>3, <4>1, <4>2, <4>4, AloneBegins
      <4> QED BY <4>3, <4>4
    <3>4. CASE ~Waiting(s)'
      <4>1. GoodPage(s) /\ (Waiting(s) => Alone(s))
        BY <3>2, <3>4 DEF PagesInv, Undisturbed
      <4> QED BY <1>0, <3>4, <4>1, PageKept
    <3> QED BY <3>3, <3>4
  <2>2. CASE UNCHANGED <<vars, disturbed>>
    <3>1. Undisturbed(s)
      BY DEF PagesInv
    <3> QED BY <2>2, <3>1
            DEF vars, Undisturbed, GoodPage, Waiting, Alone, Quiet, Own
  <2> QED BY <2>1, <2>2
<1> QED BY <1>1, <1>2 DEF PagesInv

LEMMA PagesInvariant == PagesSpec => [](ReviewInv /\ PagesInv)
<1>1. PagesInit => ReviewInv /\ PagesInv
  BY InvInit, InitPages DEF PagesInit
<1>2. ReviewInv /\ PagesInv /\ [PagesNext]_<<vars, disturbed>> => (ReviewInv /\ PagesInv)'
  <2>1. [PagesNext]_<<vars, disturbed>> => [Next]_vars
    BY DEF PagesNext, vars
  <2> QED BY <2>1, InvNext, NextPages
<1> QED BY <1>1, <1>2, PTL DEF PagesSpec

\* For any number of tabs and API threads, with timeouts and failures: a page
\* offers a CSV with every decision that was recorded when its run began,
\* unless somebody else was exporting while it waited.
THEOREM PagesAreCurrent == PagesSpec => []PageIsCurrent
<1>1. PagesInv => PageIsCurrent
  BY DEF PagesInv, Undisturbed, GoodPage, PageIsCurrent
<1> QED BY <1>1, PagesInvariant, PTL

\* Under the same condition nothing half written is offered.
THEOREM PagesAreWhole == PagesSpec => []PageIsWhole
<1>1. PagesInv => PageIsWhole
  BY DEF PagesInv, Undisturbed, GoodPage, PageIsWhole
<1> QED BY <1>1, PagesInvariant, PTL
=============================================================================
