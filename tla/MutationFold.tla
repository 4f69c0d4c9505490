---------------------------- MODULE MutationFold ----------------------------
(***************************************************************************)
(* derivation/v2: from the text of a procedure to the passes that write    *)
(* one column of one table, in the order of the source.  Phase 1 traces    *)
(* the temps, a scan per kind of statement finds the writes, and the       *)
(* results of four scans, the spans of the IF arms and handlers and the    *)
(* resets of the table meet in their positions only.  Each scan and each   *)
(* phase of the lineage is a step.                                         *)
(*                                                                         *)
(* Left out: GROUP BY, derived tables, dimension tables, and names that    *)
(* differ in schema, spelling or in # alone.                               *)
(***************************************************************************)
EXTENDS TempLineage, ExprParse, UpdateFold

CONSTANTS
    Programs,   \* procedures: a text and what the properties compare it with
    Entity      \* the table whose column Target is derived

VARIABLES
    program,    \* the procedure
    source,     \* what the scanners find in it
    lineage,    \* where the columns of its temps come from
    passes,     \* the writes found so far
    updates,    \* what the fold gets
    stage       \* what comes next

vars == <<program, source, lineage, passes, updates, stage>>

Text == program.text

(* MutationSourceIndex: one scan of each kind for all the columns.         *)
Index(s) == [updates |-> UpdatesIn(s), inserts |-> InsertsIn(s), selects |-> SelectIntosIn(s),
             merges |-> MergesIn(s), branches |-> ArmsIn(s), catches |-> CatchesIn(s), resets |-> ResetsIn(s)]
NoIndex == [x \in {} |-> <<>>]

-----------------------------------------------------------------------------
(* The tables of a statement.                                              *)

(* FROM names the head's alias, or the head is one more table.             *)
WithHead(head, tables) ==
    IF head = <<>> \/ \E t \in Range(tables) : head[1] \in {t.alias, t.table} THEN tables
    ELSE <<[table |-> head[1], alias |-> Last(head), type |-> "UPDATE", on |-> <<>>]>> \o tables
Sources(st) == WithHead(st.head, TablesIn(st.from))

Written(st) == TableOf(Sources(st), Last(st.head))

(* An assignment may name another table of the statement.                  *)
OrTable(named, table) == IF named = "" THEN table ELSE named
Assigned(st, a) == OrTable(TableOf(Sources(st), a.alias), Written(st))

TargetsEntity(lin, table) == table = Entity \/ (table \in DOMAIN lin.roots /\ lin.roots[table] = Entity)

Assigns(st, column) == \E a \in Range(AssignmentsIn(st.set)) : a.column = column

(* A statement copies the rows of a temp into the column of some table.    *)
WrittenBack(temp) ==
    \/ \E st \in Range(source.updates) : Assigns(st, Target) /\ Contains(st.from, temp) /\ Written(st) # temp
    \/ \E st \in Range(source.inserts) : Contains(st.columns, Target) /\ Contains(st.from, temp) /\ st.target # temp
    \/ \E m \in Range(source.merges) : Contains(m.set, Target) /\ (m.source = temp \/ Contains(m.set, temp))

(* Else a write of the temp is none of the column.                         *)
Counts(lin, table) == TargetsEntity(lin, table) /\ (IsTemp(table) => WrittenBack(table))

-----------------------------------------------------------------------------
(* Names: a bare column that only one joined table has, as far as the      *)
(* procedure shows, is that table's.                                       *)

AssignedColumns(table) ==
    UNION {{a.column : a \in {b \in Range(AssignmentsIn(st.set)) : Assigned(st, b) = table}} :
              st \in Range(source.updates)}

OwnedColumns(lin, table) ==
    AssignedColumns(table) \cup IF table \in DOMAIN lin.schema THEN Range(lin.schema[table]) ELSE {}

IsBare(text, i) == /\ ~(i > 1 /\ text[i - 1] = ".")
                   /\ ~(i < Len(text) /\ text[i + 1] \in {".", "("})

Prefixed(qual, tok) == IF qual = "" THEN <<tok>> ELSE <<qual, ".", tok>>
QualifyBare(text, QualifierOf(_)) ==
    FlattenSeq([i \in DOMAIN text |->
        IF IsBare(text, i) THEN Prefixed(QualifierOf(text[i]), text[i]) ELSE <<text[i]>>])

Owners(lin, others, column) == SelectSeq(others, LAMBDA t : column \in OwnedColumns(lin, t.table))
OnlyOwner(owners) == IF Cardinality({t.table : t \in Range(owners)}) = 1 THEN owners[1].alias ELSE ""

ForeignOwner(lin, own, tables, column) ==
    IF column \in OwnedColumns(lin, own) THEN ""
    ELSE OnlyOwner(Owners(lin, SelectSeq(tables, LAMBDA t : t.table # own), column))

QualifyForeign(lin, own, tables, text) ==
    IF Cardinality({t.table : t \in Range(tables)}) = 1 THEN text
    ELSE QualifyBare(text, LAMBDA column : ForeignOwner(lin, own, tables, column))

(* In a SELECT list a bare column is the source table's; so is every word  *)
(* of a subquery, which no parser takes for one then.                      *)
Unqualified == {"(", ")", ",", ".", ";", "=", "<", ">", "<=", ">=", "<>", "+", "-", "*", "/",
                "AND", "OR", "NOT", "NULL", "CASE", "WHEN", "THEN", "ELSE", "END", "DISTINCT",
                "AS", "IS", "IN", "LIKE", "BETWEEN", "TOP"}
IsIdentifier(tok) == tok \notin Unqualified \cup Variables \cup DOMAIN Numerals \cup DOMAIN Quoted

PrimarySource(tables, excluded) ==
    LET others == SelectSeq(tables, LAMBDA t : t.table \notin excluded)
        pool == IF others = <<>> THEN tables ELSE others
        only == IF excluded = {} THEN tables ELSE pool
    IN  CASE Permanent(pool) # <<>> -> Permanent(pool)[1].table
          [] Permanent(pool) = <<>> /\ Cardinality({t.table : t \in Range(only)}) = 1 -> only[1].table
          [] OTHER -> ""

-----------------------------------------------------------------------------
(* alias.column in the terms of the target: a column of the temp itself,    *)
(* what the column of a temp or CTE was read from, or a column of another   *)
(* table.  The value that an UPDATE of a temp left is for later statements  *)
(* of another kind only.                                                   *)

Referred(lin, table, column, derived) ==
    LET ref == ResolveColumn(lin, table, column)
    IN  CASE IsTemp(table) -> <<Temps[table], ".", column>>
          [] ~IsTemp(table) /\ derived /\ ref.derived # <<>> -> Parenthesized(ref.derived)
          [] OTHER -> IF ref.entity = Entity THEN <<BareTable(ref.source), ".", ref.column>> ELSE Qualify(ref)

Resolved(lin, text, tables, derived) ==
    Rewritten(text, tables, LAMBDA table, column : Referred(lin, table, column, derived))

-----------------------------------------------------------------------------
(* The conditions of a write: its WHERE, the IF arm around it and what its  *)
(* inner joins ask of a row besides the keys.                              *)

IsInner(t) == t.type \notin {"LEFT", "RIGHT", "FULL"}
IsJoinKey(term, alias) == /\ Len(term) = 7 /\ term[2] = "." /\ term[4] = "=" /\ term[6] = "."
                          /\ alias \in {term[1], term[5]} /\ ~IsTemp(term[1]) /\ ~IsTemp(term[5])

Beyond(on, extra) == IF extra = <<>> THEN <<on>> ELSE extra
JoinTerms(t) ==
    IF t.on = <<>> \/ ~IsInner(t) THEN <<>>
    ELSE Beyond(t.on, SelectSeq(SplitLogical(t.on, "AND"), LAMBDA term : ~IsJoinKey(term, t.alias)))

Conjunction(terms) ==
    IF terms = <<>> THEN <<>>
    ELSE FoldLeft(LAMBDA acc, term : acc \o <<"AND">> \o Parenthesized(term), Parenthesized(terms[1]), Tail(terms))

ResolvedAll(lin, terms, tables) == [i \in DOMAIN terms |-> Resolved(lin, terms[i], tables, FALSE)]
JoinFilter(lin, joins, tables) ==
    Conjunction(FlattenSeq([k \in DOMAIN joins |-> ResolvedAll(lin, JoinTerms(joins[k]), tables)]))

Occurs(part, text) == \E i \in 1..(Len(text) - Len(part) + 1) : SubSeq(text, i, i + Len(part) - 1) = part

(* Both conditions, unless the text of one occurs in the other.            *)
Both(cond, more) == CASE cond = <<>> \/ more = <<>> -> cond \o more
                      [] OTHER -> IF Occurs(more, cond) THEN cond ELSE Conjunction(<<cond, more>>)

(* Mutant: what the joins ask for is lost.                                 *)
MutEffective(pass) == Both(pass.outer, pass.where)

Effective(pass) == Both(IF Occurs(pass.outer, pass.where) /\ pass.outer # <<>> THEN pass.where
                        ELSE Both(pass.outer, pass.where), pass.join)

InHandler(i) == Covering(source.catches, i) # <<>>

Mutation(op, at, value, where, join, outer, arm) ==
    [op |-> op, at |-> at, value |-> value, where |-> where, join |-> join, outer |-> outer,
     group |-> IF arm = <<>> THEN 0 ELSE arm[1].group, index |-> IF arm = <<>> THEN 0 ELSE arm[1].index,
     kind |-> IF arm = <<>> THEN "" ELSE arm[1].kind, handler |-> InHandler(at)]

ArmAt(i) == Covering(source.branches, i)
OuterOf(lin, arm, tables, derived) ==
    IF arm = <<>> \/ arm[1].cond = <<>> THEN <<>> ELSE Resolved(lin, arm[1].cond, tables, derived)

-----------------------------------------------------------------------------
(* The writes of every kind of statement.                                  *)

UpdatePass(lin, st, tables, arm, value) ==
    LET Read(text) == Resolved(lin, QualifyForeign(lin, Written(st), tables, text), tables, FALSE)
    IN  Mutation("UPDATE", st.at, Read(value), Read(st.where),
             JoinFilter(lin, TablesIn(st.from), tables), OuterOf(lin, arm, tables, FALSE), arm)

UpdatePasses(lin, st) ==
    LET mine == SelectSeq(AssignmentsIn(st.set),
                          LAMBDA a : a.column = Target /\ Counts(lin, Assigned(st, a)))
    IN  [k \in DOMAIN mine |->
            UpdatePass(lin, st, Sources(st), ArmAt(st.at), mine[k].value)]

(* The place of the column: in the column list, or as the temp has it.     *)
InsertColumns(lin, st) ==
    IF st.columns = <<>> /\ st.target \in DOMAIN lin.schema THEN lin.schema[st.target] ELSE st.columns

ProjectionPass(lin, st, columns, excluded) ==
    LET tables == TablesIn(st.from)
        items == SelectList(st.list)
        places == Positions(columns, LAMBDA k : columns[k] = Target)
        arm == ArmAt(st.at)
        value == QualifyBare(WithoutName(items[places[1]].text),
                             LAMBDA tok : IF IsIdentifier(tok) THEN PrimarySource(tables, excluded) ELSE "")
        Read(text) == Resolved(lin, text, tables, TRUE)
    IN  IF places = <<>> \/ Len(columns) # Len(items) \/ ~Counts(lin, st.target) THEN <<>>
        ELSE <<Mutation(st.op, st.at, Read(value), Read(st.where), JoinFilter(lin, tables, tables),
                    OuterOf(lin, arm, tables, TRUE), arm)>>

InsertPasses(lin, st) == ProjectionPass(lin, st, InsertColumns(lin, st), {st.target, Entity})

SelectIntoPasses(lin, st) ==
    LET items == SelectList(st.list)
    IN  ProjectionPass(lin, st, [i \in DOMAIN items |-> NameOf(items[i])], {})

(* A MERGE is not looked for in an IF arm.                                 *)
MergePasses(lin, m) ==
    LET target == [table |-> m.target, alias |-> m.alias, type |-> "MERGE", on |-> <<>>]
        used == [table |-> m.source, alias |-> m.sourceAlias, type |-> "JOIN", on |-> m.on]
        tables == <<target, used>>
        mine == SelectSeq(AssignmentsIn(m.set),
                          LAMBDA a : a.column = Target /\ TableOf(tables, a.alias) \in {"", m.target})
        guard == JoinFilter(lin, <<used>>, tables)
    IN  IF ~TargetsEntity(lin, m.target) THEN <<>>
        ELSE [k \in DOMAIN mine |-> Mutation("MERGE", m.at, Resolved(lin, mine[k].value, tables, TRUE),
                                         IF guard = <<>> THEN <<>> ELSE Parenthesized(guard), <<>>, <<>>, <<>>)]

-----------------------------------------------------------------------------
(* In the order of the source; what a reset of the table discards and an   *)
(* ELSE IF found twice are dropped.                                        *)

Chronological(found) ==
    LET order == SortSeq([i \in DOMAIN found |-> i],
                         LAMBDA i, j : found[i].at < found[j].at \/ (found[i].at = found[j].at /\ i < j))
    IN  [k \in DOMAIN order |-> found[order[k]]]

MainPasses(found) == SelectSeq(found, LAMBDA p : ~p.handler)
HandlerPasses(found) == SelectSeq(found, LAMBDA p : p.handler)

(* The resets before the last write.                                       *)
ResetsThatCount(main) ==
    {r.at : r \in {q \in Range(source.resets) : q.table = Entity /\ main # <<>> /\ q.at < Last(main).at}}

AfterResets(found) ==
    LET resets == ResetsThatCount(MainPasses(found))
    IN  SelectSeq(found, LAMBDA p : p.handler \/ resets = {} \/ p.at > Max(resets))

SameArm(p, q) == p.kind = "ELSEIF" /\ q.kind = "ELSEIF" /\ p.group = q.group
                 /\ p.outer = q.outer /\ p.value = q.value /\ p.where = q.where
Pruned(found) ==
    FoldLeft(LAMBDA kept, p : IF \E q \in Range(kept) : SameArm(p, q) THEN kept ELSE Append(kept, p), <<>>, found)

-----------------------------------------------------------------------------
(* What the fold of phase 3 gets: the passes of one IF that follow each    *)
(* other are the arms of a choice.  The handler counts if it is all there  *)
(* is (pipeline._derive_column).                                           *)

(* Mutant: what a handler writes never counts.                             *)
MutPrimary(found) == MainPasses(found)

Primary(found) == IF MainPasses(found) # <<>> THEN MainPasses(found) ELSE HandlerPasses(found)

(* A column of the target needs no qualifier.                              *)
OwnNames(text) ==
    FlattenSeq([i \in DOMAIN text |->
        IF (i < Len(text) /\ text[i] = Entity /\ text[i + 1] = ".") \/ (i > 1 /\ text[i - 1] = Entity /\ text[i] = ".")
        THEN <<>> ELSE <<text[i]>>])

(* The trees of a pass: its value, all its conditions, those that are not   *)
(* of the IF arm, the arm's.                                               *)
ParsedTexts(texts) ==
    [i \in DOMAIN texts |-> IF texts[i] = <<>> THEN Absent ELSE Parse(OwnNames(texts[i]), i > 1)]
Trees(p) == ParsedTexts(<<p.value, Effective(p), Effective([p EXCEPT !.outer = <<>>]), p.outer>>)
Parsed(p) == [pos |-> p.at, group |-> p.group, index |-> p.index, kind |-> p.kind, trees |-> Trees(p)]

Segments(found) ==
    FoldLeft(LAMBDA acc, p : IF acc # <<>> /\ p.group # 0 /\ Last(Last(acc)).group = p.group
                             THEN [acc EXCEPT ![Len(acc)] = Append(@, p)] ELSE Append(acc, <<p>>),
             <<>>, found)

ArmOf(inside) ==
    Arm(IF inside[1].kind = "ELSE" THEN Absent ELSE inside[1].trees[4],
        [k \in DOMAIN inside |-> Update(inside[k].pos, inside[k].trees[3], inside[k].trees[1])])
ArmsOf(segment, indexes) ==
    Branches([k \in DOMAIN indexes |-> ArmOf(SelectSeq(segment, LAMBDA p : p.index = indexes[k]))])

ItemOf(segment) ==
    IF segment[1].group = 0 THEN Update(segment[1].pos, segment[1].trees[2], segment[1].trees[1])
    ELSE ArmsOf(segment, SetToSortSeq({p.index : p \in Range(segment)}, <))

ItemsOf(segments) == [k \in DOMAIN segments |-> ItemOf(segments[k])]
Items(found) == ItemsOf(Segments(found))

-----------------------------------------------------------------------------
Init == /\ program \in Programs
        /\ source = NoIndex
        /\ lineage = NoLineage
        /\ passes = <<>>
        /\ updates = <<>>
        /\ stage = "scan"

Scan == /\ stage = "scan"
        /\ stage' = "create"
        /\ source' = Index(Text)
        /\ UNCHANGED <<program, lineage, passes, updates>>

Trace(from, to, Step(_)) ==
    /\ stage = from
    /\ stage' = to
    /\ lineage' = Step(lineage)
    /\ UNCHANGED <<program, source, passes, updates>>

TraceCreate == Trace("create", "select into", LAMBDA lin : FoldLeft(IngestCreate, lin, CreatesIn(Text)))
TraceSelectInto == Trace("select into", "insert", LAMBDA lin : FoldLeft(IngestSelectInto, lin, source.selects))
TraceInsert == Trace("insert", "with", LAMBDA lin : FoldLeft(IngestInsert, lin, source.inserts))
TraceCte == Trace("with", "capture", LAMBDA lin : FoldLeft(IngestCte, lin, CtesIn(Text)))
TraceUpdates == Trace("capture", "expand", LAMBDA lin : FoldLeft(Capture, lin, source.updates))
TraceUpstream == Trace("expand", "updates", Expand)

Collect(from, to, statements, Found(_, _)) ==
    /\ stage = from
    /\ stage' = to
    /\ passes' = passes \o FlattenSeq([k \in DOMAIN statements |-> Found(lineage, statements[k])])
    /\ UNCHANGED <<program, source, lineage, updates>>

CollectUpdates == Collect("updates", "inserts", source.updates, UpdatePasses)
CollectInserts == Collect("inserts", "selects", source.inserts, InsertPasses)
CollectSelectIntos == Collect("selects", "merges", source.selects, SelectIntoPasses)
CollectMerges == Collect("merges", "order", source.merges, MergePasses)

Finish == /\ stage = "order"
          /\ stage' = "read"
          /\ passes' = Pruned(AfterResets(Chronological(passes)))
          /\ UNCHANGED <<program, source, lineage, updates>>

ReadPasses == /\ stage = "read"
              /\ stage' = "hand over"
              /\ updates' = LET found == Primary(passes) IN [k \in DOMAIN found |-> Parsed(found[k])]
              /\ UNCHANGED <<program, source, lineage, passes>>

HandOver == /\ stage = "hand over"
            /\ stage' = "done"
            /\ updates' = Items(updates)
            /\ UNCHANGED <<program, source, lineage, passes>>

Next == \/ Scan \/ TraceCreate \/ TraceSelectInto \/ TraceInsert \/ TraceCte \/ TraceUpdates \/ TraceUpstream
        \/ CollectUpdates \/ CollectInserts \/ CollectSelectIntos \/ CollectMerges \/ Finish \/ ReadPasses \/ HandOver

Spec == Init /\ [][Next]_vars
=============================================================================
