------------------------------ MODULE SqlText ------------------------------
(***************************************************************************)
(* derivation/v2/sql_text.py: the scanners that find their way in SQL text *)
(* by counting parentheses and looking for keywords.  A text is a sequence *)
(* of tokens; a qualified column is three of them, a quoted string one.    *)
(***************************************************************************)
EXTENDS Integers, FiniteSets, SequencesExt

CONSTANT Names      \* the column names that occur

From(s, i) == SubSeq(s, i, Len(s))
Upto(s, i) == SubSeq(s, 1, i)

-----------------------------------------------------------------------------
(* Parentheses, and cutting a text.                                        *)

Opening == {"(", "["}
ClosingMarks == {")", "]"}

(* The depth after every token; the scanner of lists never goes below 0.   *)
Levels(s, lowest) ==
    LET CountOf(toks, i) == Cardinality({j \in 1..i : s[j] \in toks})
        Net(i) == CountOf(Opening, i) - CountOf(ClosingMarks, i)
        Below(i) == Max({0} \cup {lowest - Net(j) : j \in {k \in 1..i : s[k] \in ClosingMarks}})
    IN  [i \in DOMAIN s |-> Net(i) + Below(i)]

Balanced(s) == LET d == Levels(s, -Len(s))
               IN  /\ \A i \in DOMAIN s : d[i] >= 0
                   /\ s # <<>> => Last(d) = 0

(* The positions of these tokens outside parentheses.                      *)
Positions(s, Test(_)) == SelectSeq([i \in DOMAIN s |-> i], Test)
Outer(s, toks) == LET d == Levels(s, -Len(s)) IN Positions(s, LAMBDA i : s[i] \in toks /\ d[i] = 0)
FirstIn(positions, else) == IF positions = <<>> THEN else ELSE Head(positions)

Pieces(s, cuts) ==
    LET at == <<0>> \o cuts \o <<Len(s) + 1>>
    IN  [i \in 1..(Len(at) - 1) |-> SubSeq(s, at[i] + 1, at[i + 1] - 1)]

SplitTop(s, sep) ==
    LET d == Levels(s, 0)
        parts == Pieces(s, Positions(s, LAMBDA i : s[i] = sep /\ d[i] = 0))
    IN  IF Len(parts) = 1 THEN parts ELSE SelectSeq(parts, LAMBDA p : p # <<>>)

Inner(s) == SubSeq(s, 2, Len(s) - 1)
IsWrapped(s) == Len(s) >= 2 /\ s[1] = "(" /\ Last(s) = ")" /\ Balanced(Inner(s))

RECURSIVE Unwrap(_)
Unwrap(s) == IF IsWrapped(s) THEN Unwrap(Inner(s)) ELSE s

(* f(args), the closing parenthesis of the call being the last token.      *)
IsCall(s, names) == /\ Len(s) >= 3 /\ s[1] \in names /\ s[2] = "(" /\ Last(s) = ")"
                    /\ Balanced(SubSeq(s, 3, Len(s) - 1))
Args(s) == SplitTop(SubSeq(s, 3, Len(s) - 1), ",")

-----------------------------------------------------------------------------
(* SELECT ... FROM ... WHERE ..., the parts of a subquery.                 *)

FirstOf(s, toks) == FirstIn(Positions(s, LAMBDA i : s[i] \in toks), Len(s) + 1)
FirstOuter(s, tok) == FirstIn(Outer(s, {tok}), Len(s) + 1)

IsSelect(s) == s # <<>> /\ s[1] = "SELECT"
SelectItem(s) == SubSeq(s, 2, FirstOuter(s, "FROM") - 1)
FromRest(s) == From(s, FirstOuter(s, "FROM"))

(* What the WHERE keeps: no GROUP BY, ORDER BY or HAVING.                  *)
RowFilter(s) == LET pred == From(s, FirstOuter(s, "WHERE") + 1)
                IN  Upto(pred, FirstOf(pred, {"GROUP", "ORDER", "HAVING"}) - 1)

Aggregates == {"COUNT", "SUM", "AVG", "MIN", "MAX"}

(* A HAVING without an aggregate is a filter on rows too.                  *)
Having(s) == LET pred == From(s, FirstOf(s, {"HAVING"}) + 1)
                 cond == Upto(pred, FirstOf(pred, {"ORDER", "UNION"}) - 1)
             IN  IF \E i \in 1..(Len(cond) - 1) : cond[i] \in Aggregates /\ cond[i + 1] = "("
                 THEN <<>> ELSE cond

(* The tables after every FROM and JOIN, with alias, join type and the ON  *)
(* condition, which ends at the next join or clause and hides what it has. *)
JoinWords == {"JOIN", "INNER", "LEFT", "RIGHT", "FULL", "CROSS"}
ClauseWords == {"WHERE", "GROUP", "ORDER", "OPTION"}
NotAlias == JoinWords \cup ClauseWords \cup {"ON", "OUTER", "APPLY", "SET", "FROM", "WITH", "UNION", "(", ")", ",", ";", "="}

FromTables(rest) ==
    LET heads == Positions(rest, LAMBDA i : i > 1 /\ rest[i - 1] \in {"FROM", "JOIN"})
        Table(i) ==
            LET named == IF i < Len(rest) /\ rest[i + 1] = "AS" THEN i + 2 ELSE i + 1
                aliased == named <= Len(rest) /\ rest[named] \notin NotAlias
                next == IF aliased THEN named + 1 ELSE i + 1
                on == From(rest, next + 1)
                word == IF i > 3 /\ rest[i - 2] = "OUTER" THEN i - 3 ELSE i - 2
            IN  [table |-> rest[i], alias |-> IF aliased THEN rest[named] ELSE rest[i],
                 type |-> IF word > 0 /\ rest[word] \in JoinWords THEN rest[word] ELSE rest[i - 1],
                 on |-> IF next <= Len(rest) /\ rest[next] = "ON"
                        THEN Upto(on, FirstOf(on, JoinWords \cup ClauseWords) - 1) ELSE <<>>,
                 at |-> i, past |-> next]
        Hidden(i) == \E j \in Range(heads) : Table(j).past < i /\ i <= Table(j).past + Len(Table(j).on)
    IN  SelectSeq([k \in DOMAIN heads |-> Table(heads[k])], LAMBDA t : ~Hidden(t.at))

(* alias.c becomes table.c; then every bare name belongs to the first table. *)
Qualified(s, tables) ==
    LET TableOf(q) == LET hits == SelectSeq(tables, LAMBDA t : q \in {t.alias, t.table})
                      IN  IF hits = <<>> THEN q ELSE Last(hits).table
        IsBare(i) == /\ s[i] \in Names
                     /\ ~(i > 1 /\ s[i - 1] = ".")
                     /\ ~(i < Len(s) /\ s[i + 1] \in {".", "("})
    IN  FlattenSeq([i \in DOMAIN s |->
            IF i < Len(s) /\ s[i + 1] = "." THEN <<TableOf(s[i])>>
            ELSE IF IsBare(i) THEN <<tables[1].table, ".", s[i]>>
            ELSE <<s[i]>>])

(* EXISTS (SELECT ...): its filter on the joined row, <<>> when there is none. *)
ExistsPredicate(s) ==
    LET tables == FromTables(FromRest(s))
        pred == RowFilter(s)
        having == Having(s)
    IN  IF pred = <<>> THEN <<>>
        ELSE IF having = <<>> THEN Qualified(pred, tables)
        ELSE <<"(">> \o Qualified(pred, tables) \o <<")", "AND", "(">> \o Qualified(having, tables) \o <<")">>

(* lhs IN (SELECT c ...): c = lhs and the filter.                          *)
InPredicate(lhs, s) ==
    LET tables == FromTables(FromRest(s))
        pred == RowFilter(s)
        having == Having(s)
        item == SelectSeq(SelectItem(s), LAMBDA tok : tok \notin {"DISTINCT"})
        column == IF Len(item) = 3 THEN item ELSE <<tables[1].table, ".">> \o item
    IN  column \o <<"=">> \o lhs
        \o (IF pred = <<>> THEN <<>> ELSE <<"AND", "(">> \o Qualified(pred, tables) \o <<")">>)
        \o (IF having = <<>> THEN <<>> ELSE <<"AND", "(">> \o having \o <<")">>)
=============================================================================
