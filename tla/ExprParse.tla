----------------------------- MODULE ExprParse -----------------------------
(***************************************************************************)
(* derivation/v2/phase3_ast_generator.py: parse_sql_expression_to_ast, the *)
(* way of a SQL fragment to an expression tree.  The parser has no grammar *)
(* but a list of shapes that it tries in order, on text it cuts at         *)
(* keywords; its result is right when no shape claims a text that belongs  *)
(* to a later one and every cut is where SQL's precedence puts it.         *)
(*                                                                         *)
(* A text is a sequence of tokens.  A qualified column is three of them    *)
(* and a quoted string is one; spacing and letter case are left out.       *)
(***************************************************************************)
EXTENDS ExprTree, SqlText

CONSTANTS
    DateNames,      \* those that look like dates
    CounterNames,   \* those that look like counters and amounts
    Endings,        \* names that end in a keyword: the rest of the name and the keyword
    Target          \* the column the expression is for

Numerals == ("0" :> 0) @@ ("1" :> 1) @@ ("2" :> 2) @@ ("7" :> 7)
Quoted == ("''" :> "") @@ ("'x'" :> "x") @@ ("'%'" :> "%") @@ ("'x%'" :> "x%")
          @@ ("'%x'" :> "%x") @@ ("'%x%'" :> "%x%")
Variables == {"@p", "@ProcessDate"}

-----------------------------------------------------------------------------
(* Cutting a text at operators.                                            *)

(* Mutant: every AND separates conditions.                                 *)
MutSplitLogical(s, o) == Pieces(s, Outer(s, {o}))

(* The AND of a BETWEEN does not separate conditions.                      *)
SplitLogical(s, o) ==
    LET Scan(st, i) ==
            CASE s[i] = "BETWEEN" -> [st EXCEPT !.between = TRUE]
              [] s[i] = "AND" /\ st.between -> [st EXCEPT !.between = FALSE]
              [] OTHER -> IF s[i] = o THEN [st EXCEPT !.cuts = Append(@, i)] ELSE st
    IN  Pieces(s, FoldLeft(Scan, [between |-> FALSE, cuts |-> <<>>], Outer(s, {"BETWEEN", "AND", o})).cuts)

(* The last + or - splits; without one, the last * or /.  0: none.         *)
AfterOperand(s, i) == i > 1 /\ s[i - 1] \notin {"+", "-", "*", "/", "(", "<", ">", "<=", ">=", "<>", "=", ","}
LastOperator(s, ops) == FirstIn(Reverse(SelectSeq(Outer(s, ops), LAMBDA i : AfterOperand(s, i))), 0)

SplitArithmetic(s) ==
    IF LastOperator(s, {"+", "-"}) > 0 THEN LastOperator(s, {"+", "-"}) ELSE LastOperator(s, {"*", "/"})

-----------------------------------------------------------------------------
(* CASE.  The body is searched for CASE and END character by character     *)
(* without a look at what stands before: a name may end in a keyword.      *)

Keyword(tok) == IF tok \in DOMAIN Endings THEN Endings[tok].keyword ELSE tok
Stem(tok) == IF tok \in DOMAIN Endings THEN <<Endings[tok].stem>> ELSE <<>>

CaseStep(word) == CASE word = "CASE" -> 1 [] word = "END" -> -1 [] OTHER -> 0

(* CASEs open after every token; the test looks for whole words.           *)
OpenCases(s) ==
    FoldLeft(LAMBDA d, tok : Append(d, (IF d = <<>> THEN 0 ELSE Last(d)) + CaseStep(tok)), <<>>, s)

(* A CASE beside other operands is put into parentheses of its own.        *)
ParenthesizeCase(s) ==
    LET open == OpenCases(s)
        d == Levels(s, 0)
        Starts(i) == s[i] = "CASE" /\ d[i] = 0 /\ open[i] = 1
        Ends(i) == s[i] = "END" /\ d[i] = 0 /\ open[i] = 0
        Whole == Starts(1) /\ \A i \in 1..(Len(s) - 1) : ~Ends(i)
    IN  IF ~Contains(s, "CASE") \/ Last(open) # 0 \/ Whole THEN s
        ELSE FlattenSeq([i \in DOMAIN s |-> CASE Starts(i) -> <<"(", "CASE">>
                                              [] Ends(i) -> <<"END", ")">>
                                              [] OTHER -> <<s[i]>>])

(* What stands before the END that closes the first CASE.                  *)
CaseEnds(s) ==
    LET open == FoldLeft(LAMBDA d, tok : Append(d, (IF d = <<>> THEN 0 ELSE Last(d)) + CaseStep(Keyword(tok))),
                         <<>>, s)
    IN  {i \in 2..Len(s) : open[i] = 0}

CaseBody(s) == LET i == Min(CaseEnds(s)) IN SubSeq(s, 2, i - 1) \o Stem(s[i])

(* WHEN, THEN and ELSE outside parentheses and nested CASEs.               *)
Markers(body) ==
    LET paren == Levels(body, 0)
        open == FoldLeft(LAMBDA d, tok : Append(d, Max({0, (IF d = <<>> THEN 0 ELSE Last(d)) + CaseStep(Keyword(tok))})),
                         <<>>, body)
    IN  Positions(body, LAMBDA i : body[i] \in {"WHEN", "THEN", "ELSE"} /\ paren[i] = 0 /\ open[i] = 0)

(* The WHENs with a THEN.                                                   *)
Whens(body, marks) == Positions(marks, LAMBDA k : /\ k < Len(marks) /\ body[marks[k]] = "WHEN"
                                                  /\ body[marks[k + 1]] = "THEN")

IsCase(s) == /\ s # <<>> /\ s[1] = "CASE" /\ CaseEnds(s) # {}
             /\ Whens(CaseBody(s), Markers(CaseBody(s))) # <<>>

(* The text from one marker to the next.                                   *)
Section(body, marks, k) ==
    SubSeq(body, marks[k] + 1, (IF k = Len(marks) THEN Len(body) + 1 ELSE marks[k + 1]) - 1)

-----------------------------------------------------------------------------
(* Functions with a shape of their own.                                    *)

Unsupported == Fn("__UNSUPPORTED_SQL__", <<>>)
UnresolvedSubquery == Fn("__UNRESOLVED_SUBQUERY_PREDICATE__", <<>>)

CoalesceNames == {"ISNULL", "COALESCE", "NVL", "IFNULL"}
Renamed == ("SUBSTRING" :> "SUBSTR") @@ ("TRIM" :> "TRIM") @@ ("LTRIM" :> "TRIM") @@ ("RTRIM" :> "TRIM")
           @@ ("REPLACE" :> "REPLACE") @@ ("FLOOR" :> "FLOOR") @@ ("CEILING" :> "CEIL")
RenamedArity(f) == IF f \in {"SUBSTRING", "REPLACE"} THEN 3 ELSE 1
KnownNames == {"MIN", "MAX", "SUM", "COUNT", "ABS", "ROUND", "CONCAT", "DATEDIFF", "LEN", "UPPER", "LOWER"}
DayUnits == {"DAY", "DD"}
WeekUnits == {"WEEK", "WW"}
PeriodUnits == ("MONTH" :> "MONTH") @@ ("MM" :> "MONTH") @@ ("YEAR" :> "YEAR") @@ ("QUARTER" :> "QUARTER")
DateParts == {"DAY", "MONTH", "YEAR"}

CastCut(s) == FirstOuter(s, "AS")
IsCast(s) ==
    \/ /\ IsCall(s, {"CAST"})
       /\ LET inner == SubSeq(s, 3, Len(s) - 1) IN CastCut(inner) \in 2..(Len(inner) - 1)
    \/ IsCall(s, {"CONVERT"}) /\ Len(Args(s)) \in {2, 3}

(* The value and the type; CONVERT has them the other way round.           *)
CastValue(s) == IF s[1] = "CAST" THEN LET inner == SubSeq(s, 3, Len(s) - 1) IN Upto(inner, CastCut(inner) - 1)
                ELSE Args(s)[2]
CastType(s) == IF s[1] = "CAST" THEN LET inner == SubSeq(s, 3, Len(s) - 1) IN From(inner, CastCut(inner) + 1)
               ELSE Args(s)[1]

IsDateFn(s) == /\ IsCall(s, {"DATEDIFF", "DATEPART", "EOMONTH"} \cup DateParts)
               /\ Len(Args(s)) \in CASE s[1] = "DATEDIFF" -> {3}
                                     [] s[1] = "DATEPART" -> {2}
                                     [] s[1] = "EOMONTH" -> {1, 2}
                                     [] OTHER -> {1}

IsDateLiteral(s) == \/ Len(s) = 2 /\ s[1] = "DATE" /\ s[2] \in DOMAIN Quoted
                    \/ /\ IsCall(s, {"TO_DATE", "TODATE", "DATE"})
                       /\ \A i \in 3..(Len(s) - 1) : s[i] \in DOMAIN Quoted \cup {","}

IsProcessDate(s) == \/ IsCall(s, {"GETDATE", "SYSDATE", "CURRENT_TIMESTAMP", "CURRENT_DATE"}) /\ Len(s) = 3
                    \/ s \in {<<"SYSDATE">>, <<"CURRENT_DATE">>}

(* The keyword only has to be somewhere: parentheses are not counted.      *)
BetweenAt(s) == FirstIn(Positions(s, LAMBDA i : i > 1 /\ s[i] = "BETWEEN"), Len(s) + 1)
BetweenAnd(s) == FirstIn(Positions(s, LAMBDA i : i > BetweenAt(s) + 1 /\ i < Len(s) /\ s[i] = "AND"), Len(s) + 1)
IsBetween(s) == BetweenAnd(s) <= Len(s)

InAt(s) == FirstIn(Positions(s, LAMBDA i : i \in 2..(Len(s) - 3) /\ s[i] = "IN" /\ s[i + 1] = "("), Len(s) + 1)
IsIn(s) == InAt(s) <= Len(s) /\ Last(s) = ")"
IsNotIn(s) == s[InAt(s) - 1] = "NOT" /\ InAt(s) > 2

LikeAt(s) == LET d == Levels(s, 0)
             IN  FirstIn(Positions(s, LAMBDA i : s[i] = "LIKE" /\ d[i] = 0), Len(s) + 1)
IsLike(s) == LikeAt(s) \in 2..(Len(s) - 1)
IsNotLike(s) == LikeAt(s) > 2 /\ s[LikeAt(s) - 1] = "NOT"

(* The first of the comparisons, in this order, that cuts the text in two. *)
Comparisons == <<"<>", ">=", "<=", "!=", "==", ">", "<", "=">>
ComparisonsIn(s) == SelectSeq(Comparisons, LAMBDA o : Len(SplitTop(s, o)) = 2)
OperatorOf(o) == CASE o \in {"<>", "!="} -> "!=" [] o \in {"=", "=="} -> "==" [] OTHER -> o

(* '%' + expression + '%'                                                  *)
IsDynamicPattern(s) == Len(s) >= 5 /\ s[1] = "'%'" /\ s[2] = "+" /\ Last(s) = "'%'" /\ s[Len(s) - 1] = "+"

EndsWith(s, tail) == Len(s) > Len(tail) /\ IsSuffix(tail, s)

IsRank(s) == /\ Len(s) > 6 /\ Upto(s, 5) = <<"ROW_NUMBER", "(", ")", "OVER", "(">> /\ EndsWith(s, <<")", "=", "1">>)
             /\ s[6] = "PARTITION" /\ Contains(s, "ORDER")
HasWindow(s) == \E i \in 1..(Len(s) - 1) : s[i] \in {"ROW_NUMBER", "OVER"} /\ s[i + 1] = "("

IsColumn(s) == \/ Len(s) = 1 /\ s[1] \in Names
               \/ Len(s) = 3 /\ s[2] = "." /\ s[3] \in Names

-----------------------------------------------------------------------------
(* A subquery as a value: an aggregate of the column's own table, or a      *)
(* lookup in the subquery's table.  An aggregate is seen by its first       *)
(* words; what follows it in the SELECT list and in the WHERE is dropped.   *)
Modifiers == {"DISTINCT", "TOP", "PERCENT"}
ShortName(s) == {i \in 1..(Len(s) - 2) : s[i] = "AssetClassShortName" /\ s[i + 1] = "=" /\ s[i + 2] \in DOMAIN Quoted}
IsAssetClass(s) == Contains(s, "DimAssetClass") /\ ShortName(s) # {}
Hop(s, column) == Col(Quoted[s[Min(ShortName(s)) + 2]] \o "." \o column)

ScalarItem(s) == LET item == SelectItem(s)
                     top == FirstOf(item, {"TOP"})
                 IN  SelectSeq([i \in DOMAIN item |-> IF i = top + 1 THEN "TOP" ELSE item[i]],
                               LAMBDA tok : tok \notin Modifiers)

(* f(column) at the start of the item, and where it closes.                *)
Closes(item) == FirstOf(item, {")"})
Leads(item, names) ==
    /\ Len(item) >= 3 /\ item[1] \in names /\ item[2] = "(" /\ Closes(item) <= Len(item)
    /\ LET inside == SubSeq(item, 3, Closes(item) - 1)
       IN  IsColumn(inside) \/ (item[1] = "COUNT" /\ inside \in {<<"*">>, <<"1">>})
LeadColumn(item) == Col(item[Closes(item) - 1])

(* ISNULL(SUM(column), default).                                           *)
Defaulted(item) == /\ Len(item) > 3 /\ item[1] \in CoalesceNames \ {"IFNULL"} /\ item[2] = "("
                   /\ Leads(From(item, 3), {"SUM"})
DefaultText(item) == LET rest == From(item, Closes(item) + 2) IN Upto(rest, Closes(rest) - 1)

(* Any other item is taken for a column's name.                            *)
IsLookup(s) == LET words == IF Contains(s, "WHERE") THEN {"GROUP", "JOIN"} ELSE {"GROUP", "JOIN", "ORDER", "HAVING"}
               IN  Range(s) \cap words = {}
LookupColumn(item) == IF IsColumn(item) THEN Last(item) ELSE "no such column"
Lookup(s) == IF IsAssetClass(s) THEN Hop(s, LookupColumn(ScalarItem(s)))
             ELSE Col(FromTables(FromRest(s))[1].table \o "." \o LookupColumn(ScalarItem(s)))

IsScalar(s) == IsSelect(s) /\ \/ Leads(ScalarItem(s), {"COUNT", "SUM", "MIN", "MAX"})
                              \/ Defaulted(ScalarItem(s)) \/ IsLookup(s)

-----------------------------------------------------------------------------
(* The shapes, in the order the parser tries them.                         *)

Shapes(s, cond) == <<
    <<"nothing", s = <<>> >>,
    <<"choose", IsCall(s, {"CHOOSE"}) /\ Len(Args(s)) >= 2>>,
    <<"list", Len(s) >= 2 /\ s[1] = "[" /\ Last(s) = "]">>,
    <<"cast", IsCast(s)>>,
    <<"dateadd", IsCall(s, {"DATEADD"}) /\ Len(Args(s)) = 3>>,
    <<"join strings", IsCall(s, {"STRING_AGG"}) /\ Len(Args(s)) >= 2>>,
    <<"date literal", IsDateLiteral(s)>>,
    <<"subquery", IsScalar(s)>>,
    <<"exists", cond /\ Len(s) >= 3 /\ s[1] = "EXISTS" /\ s[2] = "(">>,
    <<"today", IsProcessDate(s)>>,
    <<"case", IsCase(s)>>,
    <<"date function", IsDateFn(s)>>,
    <<"or", Len(SplitLogical(s, "OR")) > 1>>,
    <<"and", Len(SplitLogical(s, "AND")) > 1>>,
    <<"not", s # <<>> /\ s[1] = "NOT" /\ Len(s) >= 3 /\ (s[2] = "EXISTS" \/ (s[2] = "(" /\ Last(s) = ")"))>>,
    <<"between", IsBetween(s)>>,
    <<"is not null", EndsWith(s, <<"IS", "NOT", "NULL">>)>>,
    <<"is null", EndsWith(s, <<"IS", "NULL">>)>>,
    <<"in", IsIn(s)>>,
    <<"like", IsLike(s)>>,
    <<"comparison", ComparisonsIn(s) # <<>> >>,
    <<"coalesce", IsCall(s, CoalesceNames) /\ Len(s) > 3>>,
    <<"nullif", IsCall(s, {"NULLIF"}) /\ Len(Args(s)) = 2>>,
    <<"least date", IsCall(s, {"GETMINIMUMDATE"})>>,
    <<"extreme", IsCall(s, {"LEAST", "GREATEST"})>>,
    <<"side", IsCall(s, {"LEFT", "RIGHT"}) /\ Len(Args(s)) = 2>>,
    <<"renamed", IsCall(s, DOMAIN Renamed) /\ Len(Args(s)) = RenamedArity(s[1])>>,
    <<"known", IsCall(s, KnownNames)>>,
    <<"arithmetic", SplitArithmetic(s) > 0>>,
    <<"unary", Len(s) >= 2 /\ s[1] \in {"-", "+"} /\ ~(s[1] = "-" /\ Len(s) = 2 /\ s[2] \in DOMAIN Numerals)>>,
    <<"leaf", TRUE>> >>

Shape(s, cond) == SelectSeq(Shapes(s, cond), LAMBDA shape : shape[2])[1][1]

Leaf(s) ==
    CASE Len(s) = 1 /\ s[1] \in Variables -> Var(s[1])
      [] Len(s) = 1 /\ s[1] \in DOMAIN Numerals -> Lit(Numerals[s[1]])
      [] Len(s) = 2 /\ s[1] = "-" /\ s[2] \in DOMAIN Numerals -> Lit(-Numerals[s[2]])
      [] Len(s) = 1 /\ s[1] \in DOMAIN Quoted -> Str(Quoted[s[1]])
      [] s = <<"NULL">> -> Null
      [] IsColumn(s) -> Col(IF Len(s) = 1 THEN s[1] ELSE s[1] \o "." \o s[3])
      [] OTHER -> Unsupported

(* A name in an IN list is taken for a string, a NULL stays NULL.          *)
ListLeaf(s) == IF Len(s) = 1 /\ s[1] \in Names THEN Str(s[1]) ELSE Leaf(s)

-----------------------------------------------------------------------------
(* Nodes that take a look at their operands.                               *)

RECURSIVE LooksNumeric(_), LooksDate(_)

LooksNumeric(n) ==
    CASE n.k = "lit" -> n.v = "num"
      [] n.k = "col" -> n.v \in CounterNames
      [] n.k = "op" -> n.v \in {"+", "-", "*", "/"} /\ LooksNumeric(n.a[1]) /\ LooksNumeric(n.a[2])
      [] n.k = "fn" -> \/ n.v \in {"COUNT", "SUM"}
                       \/ /\ n.v \in {"COALESCE", "ABS", "ROUND", "FLOOR", "CEIL", "MIN", "MAX"}
                          /\ \E i \in DOMAIN n.a : LooksNumeric(n.a[i])
                       \/ n.v = "CONVERT" /\ n.a[2].v \in {"INT", "DECIMAL"}
      [] OTHER -> FALSE

LooksDate(n) ==
    CASE n.k = "col" -> n.v \in DateNames \ CounterNames
      [] n.k = "fn" -> \/ n.v \in {"SOM", "EOM", "ADDDAY", "TODATE", "DATE", "PERIOD"}
                       \/ n.v = "COALESCE" /\ n.a # <<>> /\ LooksDate(n.a[1])
                       \/ n.v = "CONVERT" /\ n.a[2].v = "DATE"
      [] OTHER -> FALSE

TargetIsDate == Target \in DateNames \ CounterNames
AddsDays(date, days) ==
    LooksNumeric(days) /\ (LooksDate(date) \/ (Target \notin CounterNames /\ TargetIsDate))

IsConcat(n) == IsFn(n, "CONCAT")
IsEmptyDefault(n) == IsFn(n, "COALESCE") /\ Len(n.a) = 2 /\ n.a[2] = Str("")
NullSafe(n) == IF n.k = "str" \/ IsEmptyDefault(n) THEN n ELSE Fn("COALESCE", <<n, Str("")>>)
NullSafeConcat(args) == Fn("CONCAT", [i \in DOMAIN args |-> NullSafe(args[i])])

(* + is a sum, a concatenation or a shift of a date.                       *)
Arithmetical(o, l, r) ==
    LET Operands(n) == IF IsConcat(n) THEN n.a ELSE <<n>>
        Negative(n) == Op("*", Lit(-1), n)
    IN  IF o = "+" /\ \E n \in {l, r} : n.k = "str" \/ IsConcat(n)
        THEN NullSafeConcat(Operands(l) \o Operands(r))
        ELSE IF o \in {"+", "-"} /\ AddsDays(l, r)
        THEN Fn("ADDDAY", <<l, IF o = "-" THEN Negative(r) ELSE r>>)
        ELSE IF o = "+" /\ AddsDays(r, l) THEN Fn("ADDDAY", <<r, l>>)
        ELSE Op(o, l, r)

Minus(n) == IF n.k = "lit" /\ n.v = "num" THEN Lit(-n.n) ELSE Op("*", Lit(-1), n)

(* DATEADD: days and weeks shift a date, months, quarters and years move    *)
(* the period.                                                             *)
DateAdd(unit, offset, date) ==
    CASE unit \in DayUnits -> Fn("ADDDAY", <<date, offset>>)
      [] unit \in WeekUnits -> Fn("ADDDAY", <<date, Op("*", offset, Lit(7))>>)
      [] unit \in DOMAIN PeriodUnits -> Fn("PERIOD", <<Str(PeriodUnits[unit]), offset, date>>)
      [] OTHER -> Unsupported

DateFunction(f, toks, nodes) ==
    CASE f = "DATEDIFF" -> Fn(f, <<nodes[2], nodes[3], Str(toks[1][1])>>)
      [] f = "DATEPART" -> Fn(f, <<nodes[2], Str(toks[1][1])>>)
      [] f \in DateParts -> Fn("DATEPART", <<nodes[1], Str(f)>>)
      [] f = "EOMONTH" -> Fn("EOM", <<IF Len(nodes) = 1 THEN nodes[1]
                                     ELSE Fn("PERIOD", <<Str("MONTH"), nodes[2], nodes[1]>>)>>)

(* The last n characters, or the first.                                    *)
Side(f, text, length) ==
    Fn("SUBSTR", <<text, IF f = "LEFT" THEN Lit(1)
                         ELSE Op("+", Op("-", Fn("LEN", <<text>>), length), Lit(1)), length>>)

Chosen(index, values) ==
    FoldRight(LAMBDA k, acc : If(Op("==", index, Lit(k)), values[k], acc),
              [k \in DOMAIN values |-> k], Null)

(* LIKE with a fixed pattern is a membership test or an equality.          *)
Member(o, n, values) == Node("in", o, 0, <<n>> \o values)
Patterns == ("x" :> <<FALSE, FALSE>>) @@ ("x%" :> <<FALSE, TRUE>>) @@ ("%x" :> <<TRUE, FALSE>>)
            @@ ("%x%" :> <<TRUE, TRUE>>)
FixedPattern(n, text, negated) ==
    CASE Patterns[text] = <<FALSE, FALSE>> -> Op(IF negated THEN "!=" ELSE "==", n, Str("x"))
      [] Patterns[text] = <<TRUE, TRUE>> -> Member(IF negated THEN "DOESNOTCONTAINS" ELSE "CONTAINS", n, <<Str("x")>>)
      [] OTHER -> IF negated THEN Unsupported
                  ELSE Member(IF Patterns[text][1] THEN "ENDSWITH" ELSE "BEGINSWITH", n, <<Str("x")>>)

(* Date columns of a least-date function count as far off when empty.      *)
FarOff(n) == IF n.k = "col" /\ n.v \in DateNames THEN Fn("COALESCE", <<n, Str("2099-12-31")>>) ELSE n
LeastDate(nodes) ==
    CASE nodes = <<>> -> Null
      [] Len(nodes) = 1 -> FarOff(nodes[1])
      [] OTHER -> Fn("MIN", [i \in DOMAIN nodes |-> FarOff(nodes[i])])

-----------------------------------------------------------------------------
(* The parser.                                                             *)

DropSemicolon(s) == IF s # <<>> /\ Last(s) = ";" THEN Front(s) ELSE s
Prepared(s) == ParenthesizeCase(Unwrap(DropSemicolon(s)))

RECURSIVE Parse(_, _), ParseShape(_, _)

ParseAll(texts) == [i \in DOMAIN texts |-> Parse(texts[i], FALSE)]

ParseLogical(o, texts) == Rebuild(o, [i \in DOMAIN texts |-> Parse(texts[i], TRUE)])

(* A simple CASE compares its operand with the value of every WHEN.        *)
ParseCase(body, marks) ==
    LET operand == Upto(body, marks[1] - 1)
        Elses == {k \in DOMAIN marks : body[marks[k]] = "ELSE"}
        Cond(k) == LET cond == Section(body, marks, k)
                   IN  Parse(IF operand = <<>> THEN cond
                             ELSE <<"(">> \o operand \o <<")", "=", "(">> \o cond \o <<")">>, TRUE)
        Arm(k, acc) == If(Cond(k), Parse(Section(body, marks, k + 1), FALSE), acc)
    IN  FoldRight(Arm, Whens(body, marks), IF Elses = {} THEN Null ELSE Parse(Section(body, marks, Max(Elses)), FALSE))

ParseSubquery(s, item) ==
    CASE Leads(item, {"COUNT"}) -> Fn("COUNT", <<Lit(1)>>)
      [] Defaulted(item) -> Fn("COALESCE", <<Fn("SUM", <<LeadColumn(From(item, 3))>>), Parse(DefaultText(item), FALSE)>>)
      [] Leads(item, {"SUM", "MIN", "MAX"}) -> Fn(item[1], <<LeadColumn(item)>>)
      [] OTHER -> Lookup(s)

ParseExists(s) == LET pred == ExistsPredicate(SubSeq(s, 3, Len(s) - 1))
                  IN  IF Last(s) # ")" \/ pred = <<>> THEN UnresolvedSubquery ELSE Parse(pred, TRUE)

(* Mutant: NOT IN a subquery is read as IN.                                *)
MutParseIn(s, lhs, inner) ==
    IF IsSelect(inner) THEN Parse(InPredicate(lhs, inner), TRUE)
    ELSE Member(IF IsNotIn(s) THEN "NOTIN" ELSE "IN", Parse(lhs, FALSE), ParseAll(SplitTop(inner, ",")))

ParseIn(s, lhs, inner) ==
    LET found == IF IsAssetClass(inner) THEN Op("==", Parse(lhs, TRUE), Hop(inner, "AssetClassAlt_Key"))
                 ELSE Parse(InPredicate(lhs, inner), TRUE)
        Element(text) == IF \E i \in DOMAIN text : text[i] \in {"(", "CASE", "CAST", "CONVERT"} \cup CoalesceNames
                            \/ ListLeaf(text) = Unsupported
                         THEN Parse(text, FALSE) ELSE ListLeaf(text)
        texts == SplitTop(inner, ",")
    IN  IF IsSelect(inner) THEN IF IsNotIn(s) THEN Fn("NOT", <<found>>) ELSE found
        ELSE Member(IF IsNotIn(s) THEN "NOTIN" ELSE "IN", Parse(lhs, FALSE),
                    [i \in DOMAIN texts |-> Element(texts[i])])

ParseLike(n, pattern, negated) ==
    LET fixed == Parse(pattern, FALSE)
    IN  IF fixed.k = "str" THEN FixedPattern(n, fixed.v, negated)
        ELSE IF IsDynamicPattern(pattern)
        THEN Member(IF negated THEN "DOESNOTCONTAINS" ELSE "CONTAINS", n,
                    <<Parse(SubSeq(pattern, 3, Len(pattern) - 2), FALSE)>>)
        ELSE Unsupported

(* ROW_NUMBER() OVER (PARTITION BY k ORDER BY c [DESC]) = 1.               *)
ParseRank(s) ==
    LET by == Min({i \in DOMAIN s : s[i] = "ORDER"})
        order == SplitTop(SubSeq(s, by + 2, Len(s) - 3), ",")[1]
        value == Parse(SelectSeq(order, LAMBDA tok : tok \notin {"DESC", "ASC"}), FALSE)
        keys == SplitTop(SubSeq(s, 8, by - 1), ",")
    IN  Op("==", value, Fn(IF Contains(order, "DESC") THEN "MAX" ELSE "MIN",
                           <<value, Fn("LIST", [i \in DOMAIN keys |-> Str(Last(keys[i]))])>>))

(* STRING_AGG(list, separator), as far as one row goes; the last comma is    *)
(* the separator's.                                                        *)
ParseJoinedStrings(args) ==
    LET comma == Max({i \in DOMAIN args : args[i] = ","})
        list == Upto(args, comma - 1)
        parts == SplitTop(list, ",")
        all == Parse(list, FALSE)
        second == Parse(parts[2], FALSE)
        nonempty == Fn("AND", <<Fn("ISNOTEMPTY", <<all>>), Fn("ISNOTEMPTY", <<second>>)>>)
        Default(n) == Fn("COALESCE", <<n, Str("")>>)
    IN  Fn("CONCAT", <<Default(all)>> \o
                     (IF Len(parts) = 1 \/ list[1] = "CONCAT" THEN <<>>
                      ELSE <<If(nonempty, Parse(From(args, comma + 1), FALSE), Str("")), Default(second)>>))

ParseCall(f, texts, nodes) ==
    CASE f \in CoalesceNames -> Fn("COALESCE", nodes)
      [] f = "NULLIF" -> If(Op("==", nodes[1], nodes[2]), Null, nodes[1])
      [] f = "GETMINIMUMDATE" -> LeastDate(SelectSeq(nodes, LAMBDA n : n # Null))
      [] f \in {"LEAST", "GREATEST"} -> Fn(IF f = "LEAST" THEN "MIN" ELSE "MAX", nodes)
      [] f \in {"LEFT", "RIGHT"} -> Side(f, nodes[1], nodes[2])
      [] f \in DOMAIN Renamed -> Fn(Renamed[f], nodes)
      [] f = "CHOOSE" -> Chosen(nodes[1], Tail(nodes))
      [] f = "DATEADD" -> DateAdd(texts[1][1], nodes[2], nodes[3])
      [] f \in {"DATEDIFF", "DATEPART", "EOMONTH"} \cup DateParts -> DateFunction(f, texts, nodes)
      [] f = "CONCAT" -> NullSafeConcat(nodes)
      [] f = "COUNT" /\ texts \in {<< <<"*">> >>, << <<"1">> >>} -> Fn(f, <<Lit(1)>>)
      [] OTHER -> Fn(f, nodes)

ParseArithmetic(s, at) == Arithmetical(s[at], Parse(Upto(s, at - 1), FALSE), Parse(From(s, at + 1), FALSE))

ParseComparison(o, texts) == Op(OperatorOf(o), Parse(texts[1], FALSE), Parse(texts[2], FALSE))

Emptiness(f, text) == Fn(f, <<Parse(text, FALSE)>>)

ParseShape(shape, s) ==
    CASE shape = "nothing" -> Null
      [] shape = "list" -> Fn("LIST", [i \in DOMAIN SplitTop(Inner(s), ",") |-> Str(SplitTop(Inner(s), ",")[i][1])])
      [] shape = "cast" -> Fn("CONVERT", <<Parse(CastValue(s), FALSE), Str(CastType(s)[1])>>)
      [] shape = "join strings" -> ParseJoinedStrings(SubSeq(s, 3, Len(s) - 1))
      [] shape = "date literal" -> Fn("TODATE", [i \in DOMAIN SelectSeq(s, LAMBDA t : t \in DOMAIN Quoted) |->
                                                    Str(Quoted[SelectSeq(s, LAMBDA t : t \in DOMAIN Quoted)[i]])])
      [] shape = "subquery" -> ParseSubquery(s, ScalarItem(s))
      [] shape = "exists" -> ParseExists(s)
      [] shape = "today" -> Var("@ProcessDate")
      [] shape = "case" -> ParseCase(CaseBody(s), Markers(CaseBody(s)))
      [] shape = "or" -> ParseLogical("OR", SplitLogical(s, "OR"))
      [] shape = "and" -> ParseLogical("AND", SplitLogical(s, "AND"))
      [] shape = "not" -> Fn("NOT", <<Parse(Tail(s), TRUE)>>)
      [] shape = "between" ->
            LET n == Parse(Upto(s, BetweenAt(s) - 1), FALSE)
            IN  Op("AND", Op(">=", n, Parse(SubSeq(s, BetweenAt(s) + 1, BetweenAnd(s) - 1), FALSE)),
                          Op("<=", n, Parse(From(s, BetweenAnd(s) + 1), FALSE)))
      [] shape = "is not null" -> Emptiness("ISNOTEMPTY", Upto(s, Len(s) - 3))
      [] shape = "is null" -> Emptiness("ISEMPTY", Upto(s, Len(s) - 2))
      [] shape = "in" -> ParseIn(s, Upto(s, IF IsNotIn(s) THEN InAt(s) - 2 ELSE InAt(s) - 1),
                                 SubSeq(s, InAt(s) + 2, Len(s) - 1))
      [] shape = "like" -> ParseLike(Parse(Upto(s, IF IsNotLike(s) THEN LikeAt(s) - 2 ELSE LikeAt(s) - 1), FALSE),
                                     From(s, LikeAt(s) + 1), IsNotLike(s))
      [] shape = "comparison" -> ParseComparison(ComparisonsIn(s)[1], SplitTop(s, ComparisonsIn(s)[1]))
      [] shape = "arithmetic" -> ParseArithmetic(s, SplitArithmetic(s))
      [] shape = "unary" -> IF s[1] = "-" THEN Minus(Parse(Tail(s), FALSE)) ELSE Parse(Tail(s), FALSE)
      [] shape = "leaf" -> Leaf(s)
      [] OTHER -> ParseCall(s[1], Args(s), ParseAll(Args(s)))

Parse(text, cond) ==
    LET s == Prepared(text)
    IN  IF IsRank(text) THEN ParseRank(text)
        ELSE IF HasWindow(text) THEN Unsupported
        ELSE ParseShape(Shape(s, cond), s)

-----------------------------------------------------------------------------
(* A shift of something that is no date is a sum again.                    *)
RECURSIVE ColumnNameIn(_)
ColumnNameIn(n) == CASE n.k = "col" -> {n.v}
                     [] n.k \in {"fn", "op"} ->
                          LET named == SelectSeq(n.a, LAMBDA c : ColumnNameIn(c) # {})
                          IN  IF named = <<>> THEN {} ELSE ColumnNameIn(named[1])
                     [] OTHER -> {}

IsSum(date) ==
    /\ ~LooksDate(date) /\ ~TargetIsDate
    /\ \/ Target \in CounterNames
       \/ LooksNumeric(date)
       \/ ColumnNameIn(date) \cap CounterNames # {}

RECURSIVE SumsOfNumbers(_)
SumsOfNumbers(n) ==
    LET kids == [i \in DOMAIN n.a |-> SumsOfNumbers(n.a[i])]
    IN  IF IsFn(n, "ADDDAY") /\ IsSum(kids[1]) THEN Op("+", kids[1], kids[2])
        ELSE [n EXCEPT !.a = kids]
=============================================================================
