------------------------------ MODULE SqlScan ------------------------------
(***************************************************************************)
(* derivation/v2/sql_text.py: the scanners that find the statements of a   *)
(* procedure.  There is no parser for T-SQL: each scanner looks for its    *)
(* keyword anywhere in the text and reads clauses up to the next keyword,  *)
(* and other scanners find IF arms, CATCH handlers and table resets in the *)
(* same text; all of them meet only in the positions they report.          *)
(***************************************************************************)
EXTENDS SqlText

CONSTANT Temps      \* session temps, #name, each with its name alone

(* The positions of these tokens outside parentheses, a stray ")" aside.   *)
Outside(s, toks) == SelectSeq(Positions(s, LAMBDA j : s[j] \in toks), LAMBDA j : Levels(Upto(s, j), 0)[j] = 0)

StatementWords == {"UPDATE", "INSERT", "DELETE", "MERGE", "SELECT", "CREATE", "DROP", "TRUNCATE",
                   "EXEC", "DECLARE", "GO", "IF", "BEGIN", "ELSE", "PRINT", "COMMIT", "ROLLBACK", "SET"}

(* A semicolon is written right after a token; after a word the scanner    *)
(* takes it for a part of the word.                                        *)
Quotes(tok) == tok \in {"''", "'x'"}
EndsInWord(tok) == ~Quotes(tok) /\ tok \notin {"(", ")", "=", ",", ";"}

At(s, i, words) == i + Len(words) - 1 <= Len(s) /\ SubSeq(s, i, i + Len(words) - 1) = words
Slice(s, first, next) == SubSeq(s, first, next - 1)
Filled(s, i, tok) == i <= Len(s) /\ s[i] = tok

Landmarks == StatementWords \cup {"(", ")", ";", "CASE", "END"}

OrEnd(i, s) == IF i = 0 THEN Len(s) + 1 ELSE i

(* Where a clause that starts at "first" ends: outside parentheses and     *)
(* CASEs, at one of the words or where the next statement or END stands.   *)
ReadUntil(s, first, words, atStatement) ==
    LET Look(st, i) ==
            CASE st.at > 0 -> st
              [] s[i] = "(" -> [st EXCEPT !.depth = @ + 1]
              [] s[i] = ")" -> [st EXCEPT !.depth = Max({0, @ - 1})]
              [] st.depth > 0 -> st
              [] s[i] = ";" -> IF atStatement /\ ~EndsInWord(s[i - 1]) THEN [st EXCEPT !.at = i] ELSE st
              [] s[i] = "CASE" -> [st EXCEPT !.cases = @ + 1]
              [] s[i] = "END" /\ st.cases > 0 -> [st EXCEPT !.cases = @ - 1]
              [] OTHER -> IF st.cases = 0 /\ (s[i] \in words \/ (atStatement /\ s[i] \in StatementWords \cup {"END"}))
                          THEN [st EXCEPT !.at = i] ELSE st
    IN  OrEnd(FoldLeft(Look, [depth |-> 0, cases |-> 0, at |-> 0],
                       Positions(s, LAMBDA i : i >= first /\ s[i] \in Landmarks \cup words)).at, s)

(* The clause after a keyword at i, or nothing when it is not there.       *)
ClauseEnd(s, i, keyword, words) == IF Filled(s, i, keyword) THEN ReadUntil(s, i + 1, words, TRUE) ELSE i
Clause(s, i, keyword, words) ==
    IF Filled(s, i, keyword) THEN Slice(s, i + 1, ClauseEnd(s, i, keyword, words)) ELSE <<>>

NextOf(s, i, tok) == FirstIn(Positions(s, LAMBDA j : j >= i /\ s[j] = tok), Len(s) + 1)

-----------------------------------------------------------------------------
(* UPDATE; the one of a MERGE has no target.                               *)

UpdateAt(s, i) ==
    LET set == NextOf(s, i, "SET")
        from == ReadUntil(s, set + 1, {"FROM", "WHERE"}, TRUE)
        where == ClauseEnd(s, from, "FROM", {"WHERE", "OPTION", "SET"})
    IN  [op |-> "UPDATE", at |-> i, head |-> Slice(s, i + 1, set), set |-> Slice(s, set + 1, from),
         from |-> Clause(s, from, "FROM", {"WHERE", "OPTION", "SET"}),
         where |-> Clause(s, where, "WHERE", {"OPTION", "SET"})]

Each(positions, Read(_)) == [k \in DOMAIN positions |-> Read(positions[k])]

UpdatesIn(s) ==
    Each(Positions(s, LAMBDA i : s[i] = "UPDATE" /\ ~Filled(s, i + 1, "SET") /\ NextOf(s, i, "SET") <= Len(s)),
         LAMBDA i : UpdateAt(s, i))

(* column = expression, each with the alias it names.                      *)
AssignmentsIn(set) ==
    LET parts == SelectSeq(SplitTop(set, ","),
                           LAMBDA p : \/ Len(p) >= 3 /\ p[2] = "="
                                      \/ Len(p) >= 5 /\ p[2] = "." /\ p[4] = "=")
    IN  [k \in DOMAIN parts |->
            IF parts[k][2] = "=" THEN [alias |-> "", column |-> parts[k][1], value |-> From(parts[k], 3)]
            ELSE [alias |-> parts[k][1], column |-> parts[k][3], value |-> From(parts[k], 5)]]

-----------------------------------------------------------------------------
(* IF ... ELSE IF ... ELSE.                                                *)

ConditionEnd(s, i) ==
    i - 1 + FirstIn(Outside(From(s, i), StatementWords), Len(s) - i + 2)

Body(first, end, next) == [first |-> first, end |-> end, next |-> next]
NoBody == Body(0, 0, 0)

(* BEGIN ... END, where a CASE has an END of its own; or an UPDATE, which   *)
(* goes on until END or ELSE.                                              *)
BlockEnd(s, i) ==
    LET Look(st, j) ==
            CASE st.end > 0 -> st
              [] s[j] = "BEGIN" -> [st EXCEPT !.depth = @ + 1]
              [] s[j] = "CASE" -> [st EXCEPT !.cases = @ + 1]
              [] s[j] = "END" /\ st.cases > 0 -> [st EXCEPT !.cases = @ - 1]
              [] OTHER -> [st EXCEPT !.depth = @ - 1, !.end = IF st.depth = 1 THEN j ELSE 0]
    IN  FoldLeft(Look, [depth |-> 0, cases |-> 0, end |-> 0],
                 Positions(s, LAMBDA j : j >= i /\ s[j] \in {"BEGIN", "CASE", "END"})).end
SingleEnd(s, i) ==
    FirstIn(SelectSeq(Outside(s, {"END", "ELSE"}), LAMBDA j : j > i), Len(s) + 1)

Enclosed(i, end) == IF end = 0 THEN NoBody ELSE Body(i + 1, end, end + 1)
Alone(i, end) == Body(i, end, end)
BodyAt(s, i) == CASE Filled(s, i, "BEGIN") -> Enclosed(i, BlockEnd(s, i))
                  [] Filled(s, i, "UPDATE") -> Alone(i, SingleEnd(s, i))
                  [] OTHER -> NoBody

Armed(kind, cond, body) ==
    IF body = NoBody THEN <<>>
    ELSE <<[kind |-> kind, cond |-> cond, first |-> body.first, end |-> body.end, next |-> body.next]>>

(* An arm whose condition starts at i.                                     *)
ArmUpto(s, i, kind, end) == Armed(kind, Slice(s, i, end), BodyAt(s, end))
ConditionalArm(s, i, kind) == ArmUpto(s, i, kind, ConditionEnd(s, i))

RECURSIVE ArmsAfter(_, _)
Chain(s, arm) == IF arm = <<>> THEN <<>> ELSE arm \o ArmsAfter(s, arm[1].next)
ArmsAfter(s, i) ==
    CASE At(s, i, <<"ELSE", "IF">>) -> Chain(s, ConditionalArm(s, i + 2, "ELSEIF"))
      [] Filled(s, i, "ELSE") /\ ~Filled(s, i + 1, "IF") -> Armed("ELSE", <<>>, BodyAt(s, i + 1))
      [] OTHER -> <<>>

(* IF OBJECT_ID(...) and DROP TABLE IF EXISTS are no branches.             *)
StartsChain(s, i) == s[i] = "IF" /\ ~Filled(s, i + 1, "OBJECT_ID") /\ ~(i > 1 /\ s[i - 1] = "TABLE")

(* What stands inside the arms of a chain is not searched for chains of its *)
(* own.                                                                    *)
AddChain(st, chain) ==
    IF chain = <<>> THEN st ELSE [chains |-> Append(st.chains, chain), next |-> Last(chain).next]
ChainsIn(s) ==
    FoldLeft(LAMBDA st, i : IF i < st.next THEN st ELSE AddChain(st, Chain(s, ConditionalArm(s, i + 1, "IF"))),
             [chains |-> <<>>, next |-> 1], Positions(s, LAMBDA i : StartsChain(s, i))).chains

Numbered(chains) ==
    FlattenSeq([g \in DOMAIN chains |-> [k \in DOMAIN chains[g] |->
        [group |-> g, index |-> k, kind |-> chains[g][k].kind, cond |-> chains[g][k].cond,
         first |-> chains[g][k].first, end |-> chains[g][k].end]]])
ArmsIn(s) == Numbered(ChainsIn(s))

Covers(span, i) == span.first <= i /\ i < span.end
Covering(spans, i) == SelectSeq(spans, LAMBDA span : Covers(span, i))

CatchesIn(s) ==
    LET Step(st, i) == IF s[i] = "BEGIN" THEN [st EXCEPT !.open = Append(@, i + 2)]
                       ELSE IF st.open = <<>> THEN st
                       ELSE [open |-> Front(st.open),
                             spans |-> Append(st.spans, [first |-> Last(st.open), end |-> i])]
    IN  FoldLeft(Step, [open |-> <<>>, spans |-> <<>>],
                 Positions(s, LAMBDA i : s[i] \in {"BEGIN", "END"} /\ Filled(s, i + 1, "CATCH"))).spans

-----------------------------------------------------------------------------
(* TRUNCATE TABLE, DROP TABLE and an unfiltered DELETE empty a table; in an *)
(* arm or a handler they may not happen, and do not count.                 *)

ResetTable(s, i) ==
    CASE At(s, i, <<"TRUNCATE", "TABLE">>) -> i + 2
      [] At(s, i, <<"DROP", "TABLE", "IF", "EXISTS">>) -> i + 4
      [] At(s, i, <<"DROP", "TABLE">>) -> i + 2
      [] At(s, i, <<"DELETE", "FROM">>) -> i + 2
      [] s[i] = "DELETE" -> i + 1
      [] OTHER -> 0

EmptiesTable(s, i) ==
    LET table == ResetTable(s, i)
        rest == SubSeq(s, table + 1, ReadUntil(s, table + 1, {}, TRUE) - 1)
    IN  /\ table \in DOMAIN s
        /\ ~(i > 1 /\ s[i - 1] = "THEN")
        /\ s[i] = "DELETE" => Range(rest) \cap {"WHERE", "JOIN"} = {}
        /\ s[i] = "DELETE" /\ table = i + 1 => ~Filled(s, table + 1, "FROM")

ResetsOutside(s, spans) ==
    Each(Positions(s, LAMBDA i : ResetTable(s, i) > 0 /\ EmptiesTable(s, i) /\ Covering(spans, i) = <<>>),
         LAMBDA i : [at |-> i, table |-> s[ResetTable(s, i)]])
ResetsIn(s) == ResetsOutside(s, ArmsIn(s) \o CatchesIn(s))

-----------------------------------------------------------------------------
(* MERGE ... WHEN MATCHED THEN UPDATE, if that is the first WHEN.          *)

Aliased(s, i) == IF Filled(s, i, "AS") THEN i + 1 ELSE i
Bare(s) == SelectSeq(s, LAMBDA tok : tok # "AS")

RECURSIVE Stripped(_)
Stripped(s) == CASE s # <<>> /\ s[1] \in {"(", ")"} -> Stripped(Tail(s))
                 [] s # <<>> /\ Last(s) \in {"(", ")"} -> Stripped(Front(s))
                 [] OTHER -> s

(* The word after the target is its alias, USING too.                      *)
MergeTarget(s, i) == IF Filled(s, i + 1, "INTO") THEN i + 2 ELSE i + 1
MergeAlias(s, i) == Aliased(s, MergeTarget(s, i) + 1)

MergeAt(s, i) ==
    LET using == MergeAlias(s, i) + 1
        on == ReadUntil(s, using + 1, {"ON"}, FALSE)
        when == ReadUntil(s, on + 1, {"WHEN"}, FALSE)
        set == FirstIn(Positions(s, LAMBDA j : j > when /\ At(s, j - 2, <<"THEN", "UPDATE", "SET">>)), Len(s) + 1)
        source == Bare(Slice(s, using + 1, on))
    IN  [op |-> "MERGE", at |-> i, target |-> s[MergeTarget(s, i)], alias |-> s[using - 1],
         source |-> source[1], sourceAlias |-> Last(source), on |-> Stripped(Slice(s, on + 1, when)),
         matched |-> /\ At(s, when, <<"WHEN", "MATCHED">>) /\ set <= Len(s)
                     /\ (Filled(s, when + 2, "AND") \/ set = when + 4),
         set |-> Slice(s, set + 1, ReadUntil(s, set + 1, {"WHEN", "OUTPUT", "RETURN"}, TRUE))]

MergesIn(s) ==
    SelectSeq(Each(Positions(s, LAMBDA i : s[i] = "MERGE" /\ Filled(s, MergeAlias(s, i) + 1, "USING")),
                   LAMBDA i : MergeAt(s, i)),
              LAMBDA m : m.matched)

-----------------------------------------------------------------------------
(* INSERT ... SELECT, with one entry for every part of a UNION, and SELECT   *)
(* ... INTO a session temp.                                                *)

SetOps == {"UNION", "EXCEPT", "INTERSECT"}
AfterFrom == {"WHERE", "GROUP", "ORDER", "HAVING"} \cup SetOps
AfterWhere == {"GROUP", "ORDER", "HAVING"} \cup SetOps

SelectAt(s, i) ==
    LET from == ReadUntil(s, i, {"FROM"} \cup SetOps, TRUE)
        where == ClauseEnd(s, from, "FROM", AfterFrom)
    IN  [list |-> Slice(s, i, from), from |-> Clause(s, from, "FROM", AfterFrom),
         where |-> Clause(s, where, "WHERE", AfterWhere), next |-> ClauseEnd(s, where, "WHERE", AfterWhere)]

RECURSIVE UnionFrom(_, _)
UnionAfter(s, part, i) ==
    <<part>> \o (IF Filled(s, part.next, "UNION") /\ Filled(s, i, "SELECT") THEN UnionFrom(s, i + 1) ELSE <<>>)
NextPart(s, part) == IF Filled(s, part.next + 1, "ALL") THEN part.next + 2 ELSE part.next + 1
UnionAt(s, part) == UnionAfter(s, part, NextPart(s, part))
UnionFrom(s, i) == UnionAt(s, SelectAt(s, i))

ColumnList(s, i) == IF Filled(s, i, "(") THEN SelectSeq(Slice(s, i + 1, NextOf(s, i, ")")), LAMBDA tok : tok # ",") ELSE <<>>
Inserted(entry, parts) == [k \in DOMAIN parts |-> entry @@ parts[k]]
InsertFrom(s, i, select) ==
    IF ~Filled(s, select, "SELECT") THEN <<>>
    ELSE Inserted([op |-> "INSERT", at |-> i, target |-> s[i + 2], columns |-> ColumnList(s, i + 3)],
                  UnionFrom(s, select + 1))
InsertParts(s, i) == InsertFrom(s, i, IF Filled(s, i + 3, "(") THEN NextOf(s, i + 3, ")") + 1 ELSE i + 3)

InsertsIn(s) == FlattenSeq(Each(Positions(s, LAMBDA i : At(s, i, <<"INSERT", "INTO">>)), LAMBDA i : InsertParts(s, i)))

SelectIntoAt(s, i) ==
    LET into == ReadUntil(s, i + 1, {"INTO", "FROM"}, TRUE)
        where == ClauseEnd(s, into + 2, "FROM", AfterFrom)
    IN  [op |-> "SELECT_INTO", at |-> i, into |-> Filled(s, into, "INTO"),
         target |-> IF Filled(s, into, "INTO") THEN s[into + 1] ELSE "", columns |-> <<>>,
         list |-> Slice(s, i + 1, into), from |-> Clause(s, into + 2, "FROM", AfterFrom),
         where |-> Clause(s, where, "WHERE", AfterWhere)]

SelectIntosIn(s) == SelectSeq(Each(Positions(s, LAMBDA i : s[i] = "SELECT"), LAMBDA i : SelectIntoAt(s, i)),
                              LAMBDA st : st.into /\ st.target \in DOMAIN Temps)

-----------------------------------------------------------------------------
(* A SELECT list, one entry per place: the column it is, if it is just one, *)
(* and its name.                                                           *)

Modifier(s) == s # <<>> /\ s[1] \in {"DISTINCT", "ALL", "TOP"}

RECURSIVE WithoutModifiers(_)
WithoutModifiers(s) == IF ~Modifier(s) THEN s
                       ELSE WithoutModifiers(From(s, IF s[1] = "TOP" THEN 3 ELSE 2))

NoName == ""
Item(qual, column, name, text) == [qual |-> qual, column |-> column, name |-> name, text |-> text]

SelectListItem(part) ==
    LET named == Len(part) >= 3 /\ part[2] = "="
        s == IF named THEN From(part, 3) ELSE part
        name == IF named THEN part[1] ELSE NoName
        at == IF Len(s) >= 3 /\ s[2] = "." THEN 3 ELSE 1
        tail == From(s, at + 1)
        ends == Positions(s, LAMBDA i : s[i] \in {")", "END"})
        after == IF ends = <<>> THEN <<>> ELSE Bare(From(s, Last(ends) + 1))
    IN  CASE Len(s) = 2 /\ Quotes(s[1]) -> Item("", "", s[2], <<s[1]>>)
          [] Contains(s, "(") -> Item("", "", IF named THEN name ELSE IF Len(after) = 1 THEN after[1] ELSE NoName, s)
          [] s[at] \in Names /\ (tail = <<>> \/ (Len(tail) = 2 /\ tail[1] = "AS")) ->
                Item(IF at = 3 THEN s[1] ELSE "", s[at], IF tail = <<>> THEN name ELSE tail[2], s)
          [] OTHER -> Item("", "", name, s)

SelectList(list) == LET parts == SplitTop(WithoutModifiers(list), ",")
                    IN  [k \in DOMAIN parts |-> SelectListItem(parts[k])]
IsColumnItem(item) == item.column # ""
NameOf(item) == IF item.name = NoName THEN item.column ELSE item.name

(* expression AS name, expression name.                                    *)
WithoutName(text) ==
    LET n == Len(text)
        value == IF n > 1 /\ text[n - 1] = "AS" THEN Upto(text, n - 2) ELSE Upto(text, n - 1)
    IN  IF \/ n < 2 \/ text[n - 1] = "." \/ text[n] \notin Names
           \/ Range(value) \cap {"FROM", "WHERE", "JOIN", "SELECT"} # {}
        THEN text ELSE value

-----------------------------------------------------------------------------
(* WITH name (columns) AS (SELECT ...), name ... .                         *)

Closing(s, open) == LET d == Levels(s, -Len(s))
                    IN  FirstIn(Positions(s, LAMBDA j : j > open /\ d[j] = d[open] - 1), Len(s) + 1)

RECURSIVE CtesFrom(_, _)
CtesFrom(s, i) ==
    LET listed == Filled(s, i + 1, "(")
        as == IF listed THEN NextOf(s, i, ")") + 1 ELSE i + 1
        close == Closing(s, as + 1)
        from == FirstIn(Outer(Slice(s, as + 3, close), {"FROM"}), 0)
        rest == Slice(s, as + 3 + from, close)
    IN  IF ~(Filled(s, as, "AS") /\ Filled(s, as + 1, "(") /\ close <= Len(s) /\ s[as + 2] = "SELECT") THEN <<>>
        ELSE <<[name |-> s[i], list |-> Slice(s, as + 3, as + 2 + from),
                columns |-> IF listed THEN SelectSeq(Slice(s, i + 2, as - 1), LAMBDA tok : tok # ",") ELSE <<>>,
                from |-> Upto(rest, FirstOf(rest, {"WHERE", "GROUP", "ORDER", "HAVING"}) - 1)]>>
             \o (IF Filled(s, close + 1, ",") THEN CtesFrom(s, close + 2) ELSE <<>>)

CtesIn(s) == FlattenSeq(Each(Positions(s, LAMBDA i : s[i] = "WITH" /\ i < Len(s)), LAMBDA i : CtesFrom(s, i + 1)))
=============================================================================
