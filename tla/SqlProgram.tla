----------------------------- MODULE SqlProgram -----------------------------
(***************************************************************************)
(* Procedures by what SQL says they do, the reference for MutationFold: a   *)
(* statement has its text and its effect on one row of T, the row of U     *)
(* that joins it and the rows of the temps that were filled from them.     *)
(* A row is a function of names such as "c", "U.c" and "t1.v"; a value     *)
(* that is not there is NULL, and "here" is 1 while T has the row.         *)
(***************************************************************************)
EXTENDS ExprTree

(* kind "step": under the guard the sets (a function of names to trees)    *)
(* happen at once; "if": the first arm that holds; "try": the handler      *)
(* stands for the body in a run that fails.                                *)
Step(text, guard, sets) == [kind |-> "step", text |-> text, guard |-> guard, sets |-> sets]

RECURSIVE Ran(_, _)
Ran(row, st) ==
    CASE st.kind = "step" ->
            IF Holds(st.guard, row)
            THEN [x \in DOMAIN row |-> IF x \in DOMAIN st.sets THEN Value(st.sets[x], row) ELSE row[x]]
            ELSE row
      [] st.kind = "if" ->
            LET taken == SelectSeq(st.arms, LAMBDA arm : Holds(arm.cond, row))
            IN  IF taken = <<>> THEN row ELSE FoldLeft(Ran, row, taken[1].body)
      [] st.kind = "try" -> FoldLeft(Ran, row, IF row["fails"] = 1 THEN st.handler ELSE st.body)

Program(statements) ==
    [text |-> FlattenSeq([i \in DOMAIN statements |-> statements[i].text]), statements |-> statements]

After(prog, row) == FoldLeft(Ran, row, prog.statements)

-----------------------------------------------------------------------------
(* UPDATEs and MERGEs of T; a guard as the text of its WHERE and its tree.  *)

Here == Op("==", Col("here"), Lit(1))
HasPartner == Fn("ISNOTEMPTY", <<Col("U.k")>>)
InTemp(temp) == Fn("ISNOTEMPTY", <<Col(temp \o ".k")>>)
And(g, h) == Op("AND", g, h)

Where(text) == IF text = <<>> THEN <<>> ELSE <<"WHERE">> \o text

(* UPDATE T SET s = value WHERE guard, and with the alias A of T.          *)
Write(value, tree, where, guard) ==
    Step(<<"UPDATE", "T", "SET", "s", "=">> \o value \o Where(where), And(Here, guard), "s" :> tree)

OnKey(a, b) == <<"ON", a, ".", "k", "=", b, ".", "k">>
Joining(how, table, alias, extra) == how \o <<table, alias>> \o OnKey("A", alias) \o extra

WriteFrom(assigned, value, tree, join, where, guard) ==
    Step(<<"UPDATE", "A", "SET">> \o assigned \o <<"=">> \o value \o <<"FROM", "T", "A">> \o join \o Where(where),
         And(Here, guard), "s" :> tree)

Merge(value, tree) ==
    Step(<<"MERGE", "T", "A", "USING", "U", "B", "ON", "(", "A", ".", "k", "=", "B", ".", "k", ")", "WHEN", "MATCHED",
           "THEN", "UPDATE", "SET", "A", ".", "s", "=">> \o value \o <<";">>,
         And(Here, HasPartner), "s" :> tree)

-----------------------------------------------------------------------------
(* Rows that go and come.                                                  *)

Reset(text) == Step(text, Bool(TRUE), "here" :> Lit(0))
Insert(value, tree, where, guard) ==
    Step(<<"INSERT", "INTO", "T", "(", "k", ",", "c", ",", "s", ")", "SELECT", "B", ".", "k", ",", "B", ".", "c", ",">>
         \o value \o <<"FROM", "U", "B">> \o Where(where),
         And(HasPartner, guard), ("here" :> Lit(1)) @@ ("c" :> Col("U.c")) @@ ("s" :> tree))

-----------------------------------------------------------------------------
(* Temps.  Filled from T, from U or from a temp; k is the key.             *)

Fill(temp, name, into, source, alias, column, where, guard, from) ==
    Step(<<"SELECT", alias, ".", "k", ",", alias, ".", column, "AS", into, "INTO", temp, "FROM", source, alias>>
         \o Where(where),
         guard, ((name \o ".k") :> Col(from \o "k")) @@ ((name \o "." \o into) :> Col(from \o column)))

UpdateTemp(temp, name, column, value, tree, where, guard) ==
    Step(<<"UPDATE", "D", "SET", "D", ".", column, "=">> \o value \o <<"FROM", temp, "D">> \o Where(where),
         And(InTemp(name), guard), (name \o "." \o column) :> tree)

-----------------------------------------------------------------------------
(* Control.                                                                *)

Taken(cond, text, body) == [cond |-> cond, text |-> text, body |-> body]

Block(body) == <<"BEGIN">> \o FlattenSeq([i \in DOMAIN body |-> body[i].text]) \o <<"END">>

Choice(arms) ==
    [kind |-> "if", arms |-> arms,
     text |-> FlattenSeq([k \in DOMAIN arms |->
         (IF k = 1 THEN <<"IF">> ELSE IF arms[k].text = <<>> THEN <<"ELSE">> ELSE <<"ELSE", "IF">>)
         \o arms[k].text \o Block(arms[k].body)])]

Try(body, handler) ==
    [kind |-> "try", body |-> body, handler |-> handler,
     text |-> <<"BEGIN", "TRY">> \o FlattenSeq([i \in DOMAIN body |-> body[i].text]) \o <<"END", "TRY", "BEGIN", "CATCH">>
              \o FlattenSeq([i \in DOMAIN handler |-> handler[i].text]) \o <<"END", "CATCH">>]
=============================================================================
