---------------------------- MODULE MCExprParse ----------------------------
(***************************************************************************)
(* Phrases for the parser: every construct over atoms, every construct of  *)
(* values inside every construct that takes one, conditions three deep.    *)
(* due is a date, days a number of days; monthend is a column.             *)
(***************************************************************************)
EXTENDS PhraseReader, SqlGrammar

MCEndings == "monthend" :> [stem |-> "month", keyword |-> "END"]

A == Column("value", "a")
B == Column("value", "b")
Due == Column("date", "due")
Days == Column("number", "days")
One == Number("1", 1)
Two == Number("2", 2)
X == Text("'x'", "x")
MonthEndColumn == Column("value", "monthend")
OfU == Atom("value", <<"u", ".", "b">>, Col("u.b"))
OfT == Atom("value", <<"t", ".", "a">>, Col("t.a"))

Numbers(V) == {Sum(x, y) : x \in V, y \in V} \cup {Difference(x, y) : x \in V, y \in V}
              \cup {Product(x, y) : x \in V, y \in V} \cup {Quotient(x, One) : x \in V}
              \cup {Negative(x) : x \in V} \cup {Greatest(x, One) : x \in V}

Calls(V) == {IsNullOr(x, y) : x \in V, y \in {One, B}} \cup {NullIf(x, One) : x \in V}
            \cup {Choose(x, y, B) : x \in V, y \in V} \cup {Trimmed(x) : x \in V}
            \cup {RightOf(x, Two) : x \in V} \cup {Cast(x, "INT") : x \in V}
            \cup {LeftOf(x, One) : x \in V} \cup {PartOf(x, One, Two) : x \in V}
            \cup {Rounded(x, Two) : x \in V} \cup {Converted("DATE", x) : x \in V}
            \cup {MostInGroup(x, B) : x \in V} \cup {Least(x, B) : x \in V} \cup {YearOf(x) : x \in V}

Tests(V) == {Equal(x, y) : x \in V, y \in V} \cup {Compared("<=", "<=", x, One) : x \in V}
            \cup {Unequal(One, x) : x \in V} \cup {Between(x, One, B) : x \in V}
            \cup {Between(B, One, x) : x \in V} \cup {OneOf(x, <<One, Two>>) : x \in V}
            \cup {NoneOf(B, <<x, One>>) : x \in V \ {A, B}} \cup {IsEmpty(x) : x \in V}
            \cup {IsFilled(x) : x \in V} \cup {Like(x, "'%x%'", "CONTAINS") : x \in V}
            \cup {Like(x, "'x%'", "BEGINSWITH") : x \in V} \cup {Unlike(x) : x \in V}
            \cup {LikeColumn(B, x) : x \in V \ {One}}

Conditions(C) == {Either(c, d) : c \in C, d \in C} \cup {Both(c, d) : c \in C, d \in C}
                 \cup {Not(c) : c \in C}

Selections(C, V) == {Case(c, x, B) : c \in C, x \in V} \cup {Cases(c, One, d, x) : c \in C, d \in C, x \in V}

Today == Atom("value", <<"GETDATE", "(", ")">>, Var("@ProcessDate"))
Variable == Atom("value", <<"@p">>, Var("@p"))
Nothing == Atom("value", <<"NULL">>, Null)
Moment == Atom("date", <<"DATE", "'x'">>, Fn("TODATE", <<Str("x")>>))

Dates == {MonthsLater(Two, Due), Earliest(Due, A), Earliest(Due, Due), Moment, Due, Sum(Due, One), Difference(Due, Days), Sum(Days, Due), DaysLater("WEEK", 7, Days, Due),
          DaysLater("DAY", 1, Two, Due), MonthEnd(Due, Two), IsNullOr(Due, Due)}
Texts == {Sum(A, X), Sum(X, Sum(A, X)), Sum(Sum(X, A), B), JoinedStrings(A, X)}

OnRow == {Equal(JoinedAlias, OfT), Both(Equal(Joined, One), Between(JoinedAlias, One, OfU))}
Subqueries == {Exists(p) : p \in OnRow} \cup {InSelect(A, p) : p \in OnRow}
              \cup {NotInSelect(Sum(A, One), p) : p \in OnRow}
              \cup {First(A, <<B>>, d) : d \in BOOLEAN}
              \cup {Equal(Lookup1(Equal(OfU, OfT)), One), Not(Exists(Equal(Joined, OfT)))}

Simple == {Equal(A, One), Between(A, One, B), NoneOf(B, <<One, Two>>), IsFilled(B)}
Nested == {Difference(A, B), Product(A, Two), Negative(A), IsNullOr(A, One), OfU,
           Case(Equal(A, One), One, B), Case(Between(A, One, Two), A, One), CaseOf(A, One, Two, B)}

MCPhrases ==
    Numbers({A, B, One}) \cup Numbers({A} \cup Nested)
    \cup Calls({A, One} \cup Nested)
    \cup Tests({A, B, One}) \cup Tests({A} \cup Nested)
    \cup Conditions(Simple \cup Subqueries) \cup Conditions(Conditions(Simple \ {IsFilled(B)}))
    \cup Selections(Simple \cup {Either(Equal(A, One), IsEmpty(B))}, {A} \cup Nested)
    \cup Dates \cup {Difference(d, Two) : d \in Dates} \cup {DaysBetween(d, Due) : d \in Dates}
    \cup Texts \cup {Equal(t, X) : t \in Texts} 
    \cup {MonthEndColumn, Sum(MonthEndColumn, One), Today, Nothing, DaysBetween(Due, Today),
          NullIf(A, Nothing), Case(Equal(A, Today), Nothing, Variable), CountWhere(Equal(OfU, OfT)),
          Sum(CountWhere(Equal(OfU, OfT)), One), TotalOr(One), Difference(A, TotalOr(Negative(B)))}

(* A column whose name ends in a keyword, in every part of a CASE.         *)
MCEndingNames ==
    Selections(Simple \cup {Equal(MonthEndColumn, One)}, {A, MonthEndColumn, Sum(MonthEndColumn, One)})
=============================================================================
