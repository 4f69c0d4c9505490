----------------------------- MODULE SqlGrammar -----------------------------
(***************************************************************************)
(* Phrases of SQL by its own grammar, the reference for the parser: a      *)
(* phrase has its text, the tree it means and how tightly it binds: 1 OR,  *)
(* 2 AND, 3 NOT, 4 tests, 5 + and -, 6 * and /, 7 signs, 8 calls and       *)
(* atoms, 9 CASE.  Parentheses stand only where SQL needs them.            *)
(***************************************************************************)
EXTENDS ExprTree

(* kind: "test", "number", "date", "text" or "value"; buried: a BETWEEN or   *)
(* IN inside an operand, a ROW_NUMBER inside anything, an EXISTS with more  *)
(* conditions after it.                                                    *)
Phrase(level, kind, text, tree, parts) ==
    [level |-> level, kind |-> kind, text |-> text, tree |-> tree,
     tests |-> \/ level = 4 /\ (Contains(text, "IN") \/ Contains(text, "BETWEEN"))
               \/ \E p \in Range(parts) : p.tests,
     buried |-> \/ level \in 1..2 /\ text[1] = "EXISTS"
                \/ \E p \in Range(parts) : p.buried \/ (level \in 4..8 /\ p.tests) \/ p.text[1] = "ROW_NUMBER"]

Within(p, level) == IF p.level >= level THEN p.text ELSE <<"(">> \o p.text \o <<")">>
Listed(parts) == FlattenSeq([i \in DOMAIN parts |-> (IF i = 1 THEN <<>> ELSE <<",">>) \o parts[i].text])

Atom(kind, text, tree) == Phrase(8, kind, text, tree, <<>>)
Number(tok, x) == Atom("number", <<tok>>, Lit(x))
Text(tok, x) == Atom("text", <<tok>>, Str(x))
Column(kind, c) == Atom(kind, <<c>>, Col(c))

-----------------------------------------------------------------------------
(* Conditions.                                                             *)

Either(l, r) == Phrase(1, "test", l.text \o <<"OR">> \o Within(r, 2), Op("OR", l.tree, r.tree), <<l, r>>)
Both(l, r) == Phrase(2, "test", Within(l, 2) \o <<"AND">> \o Within(r, 3), Op("AND", l.tree, r.tree), <<l, r>>)
Not(p) == Phrase(3, "test", <<"NOT", "(">> \o p.text \o <<")">>, Fn("NOT", <<p.tree>>), <<p>>)

Compared(tok, o, l, r) ==
    Phrase(4, "test", Within(l, 5) \o <<tok>> \o Within(r, 5), Op(o, l.tree, r.tree), <<l, r>>)
Equal(l, r) == Compared("=", "==", l, r)
Unequal(l, r) == Compared("<>", "!=", l, r)

Between(x, lo, hi) ==
    Phrase(4, "test", Within(x, 5) \o <<"BETWEEN">> \o Within(lo, 5) \o <<"AND">> \o Within(hi, 5),
           Op("AND", Op(">=", x.tree, lo.tree), Op("<=", x.tree, hi.tree)), <<x, lo, hi>>)
OneOf(x, values) ==
    Phrase(4, "test", Within(x, 5) \o <<"IN", "(">> \o Listed(values) \o <<")">>,
           Node("in", "IN", 0, <<x.tree>> \o [i \in DOMAIN values |-> values[i].tree]), <<x>> \o values)
NoneOf(x, values) ==
    Phrase(4, "test", Within(x, 5) \o <<"NOT", "IN", "(">> \o Listed(values) \o <<")">>,
           Node("in", "NOTIN", 0, <<x.tree>> \o [i \in DOMAIN values |-> values[i].tree]), <<x>> \o values)
IsEmpty(x) == Phrase(4, "test", Within(x, 5) \o <<"IS", "NULL">>, Fn("ISEMPTY", <<x.tree>>), <<x>>)
IsFilled(x) == Phrase(4, "test", Within(x, 5) \o <<"IS", "NOT", "NULL">>, Fn("ISNOTEMPTY", <<x.tree>>), <<x>>)
Like(x, pattern, o) ==
    Phrase(4, "test", Within(x, 5) \o <<"LIKE", pattern>>, Node("in", o, 0, <<x.tree, Str("x")>>), <<x>>)
Unlike(x) == Phrase(4, "test", Within(x, 5) \o <<"NOT", "LIKE", "'x'">>, Op("!=", x.tree, Str("x")), <<x>>)
LikeColumn(x, y) ==
    Phrase(4, "test", Within(x, 5) \o <<"NOT", "LIKE", "'%'", "+">> \o Within(y, 6) \o <<"+", "'%'">>,
           Node("in", "DOESNOTCONTAINS", 0, <<x.tree, y.tree>>), <<x, y>>)

(* On the row of u, called v, that the subquery finds; column b is u's.     *)
Joined == Atom("value", <<"b">>, Col("u.b"))
JoinedAlias == Atom("value", <<"v", ".", "b">>, Col("u.b"))
Exists(p) == Phrase(4, "test", <<"EXISTS", "(", "SELECT", "1", "FROM", "u", "v", "WHERE">> \o p.text \o <<")">>,
                    p.tree, <<>>)
InSelect(x, p) ==
    Phrase(4, "test", Within(x, 5) \o <<"IN", "(", "SELECT", "b", "FROM", "u", "v", "WHERE">> \o p.text \o <<")">>,
           Op("AND", Op("==", Col("u.b"), x.tree), p.tree), <<x, p>>)
NotInSelect(x, p) ==
    Phrase(4, "test", Within(x, 5) \o <<"NOT", "IN", "(", "SELECT", "b", "FROM", "u", "v", "WHERE">> \o p.text \o <<")">>,
           Fn("NOT", <<Op("AND", Op("==", Col("u.b"), x.tree), p.tree)>>), <<x, p>>)
First(x, keys, descending) ==
    Phrase(4, "test", <<"ROW_NUMBER", "(", ")", "OVER", "(", "PARTITION", "BY">> \o Listed(keys) \o <<"ORDER", "BY">>
                      \o x.text \o (IF descending THEN <<"DESC">> ELSE <<>>) \o <<")", "=", "1">>,
           Op("==", x.tree, Fn(IF descending THEN "MAX" ELSE "MIN",
                               <<x.tree, Fn("LIST", [i \in DOMAIN keys |-> Str(keys[i].tree.v)])>>)), <<>>)

-----------------------------------------------------------------------------
(* Values.  + joins texts and shifts dates.                                *)

SafeText(n) == IF n.k = "str" THEN n ELSE Fn("COALESCE", <<n, Str("")>>)
Joins(p) == IF IsFn(p.tree, "CONCAT") THEN p.tree.a ELSE <<SafeText(p.tree)>>

Sum(l, r) ==
    LET kinds == {l.kind, r.kind}
    IN  Phrase(5, IF "text" \in kinds THEN "text" ELSE IF "date" \in kinds THEN "date" ELSE "number",
               Within(l, 5) \o <<"+">> \o Within(r, 6),
               IF "text" \in kinds THEN Fn("CONCAT", Joins(l) \o Joins(r))
               ELSE IF l.kind = "date" THEN Fn("ADDDAY", <<l.tree, r.tree>>)
               ELSE IF r.kind = "date" THEN Fn("ADDDAY", <<r.tree, l.tree>>)
               ELSE Op("+", l.tree, r.tree), <<l, r>>)
Difference(l, r) ==
    Phrase(5, IF l.kind = "date" /\ r.kind = "number" THEN "date" ELSE "number",
           Within(l, 5) \o <<"-">> \o Within(r, 6),
           IF l.kind = "date" /\ r.kind = "number" THEN Fn("ADDDAY", <<l.tree, Op("*", Lit(-1), r.tree)>>)
           ELSE Op("-", l.tree, r.tree), <<l, r>>)
Product(l, r) == Phrase(6, "number", Within(l, 6) \o <<"*">> \o Within(r, 7), Op("*", l.tree, r.tree), <<l, r>>)
Quotient(l, r) == Phrase(6, "number", Within(l, 6) \o <<"/">> \o Within(r, 7), Op("/", l.tree, r.tree), <<l, r>>)
Negative(p) == Phrase(7, "number", <<"-">> \o Within(p, 8),
                      IF p.tree.k = "lit" THEN Lit(-p.tree.n) ELSE Op("*", Lit(-1), p.tree), <<p>>)

Case(c, t, e) == Phrase(9, "value", <<"CASE", "WHEN">> \o c.text \o <<"THEN">> \o t.text
                                    \o <<"ELSE">> \o e.text \o <<"END">>,
                        If(c.tree, t.tree, e.tree), <<c, t, e>>)
Cases(c, t, d, u) == Phrase(9, "value", <<"CASE", "WHEN">> \o c.text \o <<"THEN">> \o t.text
                                        \o <<"WHEN">> \o d.text \o <<"THEN">> \o u.text \o <<"END">>,
                            If(c.tree, t.tree, If(d.tree, u.tree, Null)), <<c, t, d, u>>)
CaseOf(x, v, t, e) == Phrase(9, "value", <<"CASE">> \o x.text \o <<"WHEN">> \o v.text \o <<"THEN">> \o t.text
                                         \o <<"ELSE">> \o e.text \o <<"END">>,
                             If(Op("==", x.tree, v.tree), t.tree, e.tree), <<x, v, t, e>>)

Call(kind, f, args, tree) == Phrase(8, kind, <<f, "(">> \o Listed(args) \o <<")">>, tree, args)
IsNullOr(x, y) == Call(x.kind, "ISNULL", <<x, y>>, Fn("COALESCE", <<x.tree, y.tree>>))
NullIf(x, y) == Call("value", "NULLIF", <<x, y>>, If(Op("==", x.tree, y.tree), Null, x.tree))
Choose(x, y, z) == Call("value", "CHOOSE", <<x, y, z>>,
                        If(Op("==", x.tree, Lit(1)), y.tree, If(Op("==", x.tree, Lit(2)), z.tree, Null)))
Greatest(x, y) == Call("number", "GREATEST", <<x, y>>, Fn("MAX", <<x.tree, y.tree>>))
RightOf(x, n) == Call("value", "RIGHT", <<x, n>>,
                      Fn("SUBSTR", <<x.tree, Op("+", Op("-", Fn("LEN", <<x.tree>>), n.tree), Lit(1)), n.tree>>))
Trimmed(x) == Call("value", "LTRIM", <<x>>, Fn("TRIM", <<x.tree>>))
DaysLater(unit, factor, n, x) ==
    Phrase(8, "date", <<"DATEADD", "(", unit, ",">> \o n.text \o <<",">> \o x.text \o <<")">>,
           Fn("ADDDAY", <<x.tree, IF factor = 1 THEN n.tree ELSE Op("*", n.tree, Lit(factor))>>), <<n, x>>)
MonthEnd(x, n) == Call("date", "EOMONTH", <<x, n>>, Fn("EOM", <<Fn("PERIOD", <<Str("MONTH"), n.tree, x.tree>>)>>))
DaysBetween(x, y) == Phrase(8, "number", <<"DATEDIFF", "(", "DAY", ",">> \o x.text \o <<",">> \o y.text \o <<")">>,
                            Fn("DATEDIFF", <<x.tree, y.tree, Str("DAY")>>), <<x, y>>)
Cast(x, type) == Phrase(8, "value", <<"CAST", "(">> \o x.text \o <<"AS", type, ")">>,
                        Fn("CONVERT", <<x.tree, Str(type)>>), <<>>)
Lookup1(p) == Phrase(8, "value", <<"(", "SELECT", "TOP", "1", "b", "FROM", "u", "WHERE">> \o p.text \o <<")">>, Col("u.b"), <<>>)
JoinedStrings(x, y) == Call("text", "STRING_AGG", <<x, y>>, Fn("CONCAT", <<SafeText(x.tree)>>))
MonthsLater(n, x) == Phrase(8, "date", <<"DATEADD", "(", "MONTH", ",">> \o n.text \o <<",">> \o x.text \o <<")">>,
                            Fn("PERIOD", <<Str("MONTH"), n.tree, x.tree>>), <<n, x>>)
YearOf(x) == Call("number", "YEAR", <<x>>, Fn("DATEPART", <<x.tree, Str("YEAR")>>))
Least(x, y) == Call("number", "LEAST", <<x, y>>, Fn("MIN", <<x.tree, y.tree>>))
(* A least date counts as a plain value: the parser does not shift it.     *)
Earliest(x, y) ==
    LET Filled(n) == IF n.kind = "date" THEN Fn("COALESCE", <<n.tree, Str("2099-12-31")>>) ELSE n.tree
    IN  Call("value", "GETMINIMUMDATE", <<x, y>>, Fn("MIN", <<Filled(x), Filled(y)>>))
LeftOf(x, n) == Call("value", "LEFT", <<x, n>>, Fn("SUBSTR", <<x.tree, Lit(1), n.tree>>))
PartOf(x, m, n) == Call("value", "SUBSTRING", <<x, m, n>>, Fn("SUBSTR", <<x.tree, m.tree, n.tree>>))
Rounded(x, n) == Call("value", "ROUND", <<x, n>>, Fn("ROUND", <<x.tree, n.tree>>))
Converted(type, x) == Phrase(8, "value", <<"CONVERT", "(", type, ",">> \o x.text \o <<")">>,
                             Fn("CONVERT", <<x.tree, Str(type)>>), <<>>)

(* Of an aggregate no more than its intent is kept, not whose rows it is of. *)
CountWhere(p) == Phrase(8, "value", <<"(", "SELECT", "COUNT", "(", "*", ")", "FROM", "u", "WHERE">> \o p.text \o <<")">>,
                        Fn("COUNT", <<Lit(1)>>), <<>>)
TotalOr(x) == Phrase(8, "value", <<"(", "SELECT", "ISNULL", "(", "SUM", "(", "v", ".", "b", ")", ",">> \o x.text
                                 \o <<")", "FROM", "u", "v", ")">>, Fn("COALESCE", <<Fn("SUM", <<Col("b")>>), x.tree>>), <<>>)
MostInGroup(x, g) == Phrase(8, "value", <<"MAX", "(">> \o x.text \o <<",", "[">> \o g.text \o <<"]", ")">>,
                            Fn("MAX", <<x.tree, Fn("LIST", <<Str(g.tree.v)>>)>>), <<x>>)
=============================================================================
